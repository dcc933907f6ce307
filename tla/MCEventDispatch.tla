--------------------------- MODULE MCEventDispatch ---------------------------
(* One identifier of each shape the processors tell apart: fungible only,  *)
(* shared by fungible and nfts, nfts only (transfer, create, burn), deploy,*)
(* informative, NFT update, roles, role transfer, properties, issue and   *)
(* delegation; every topic count up to one past the longest read.        *)
EXTENDS EventDispatch

MCIds == {"MECTTransfer", "MECTWipe", "MultiMECTNFTTransfer", "MECTNFTTransfer",
          "MECTNFTCreate", "MECTNFTBurn", "SCDeploy", "writeLog",
          "MECTNFTAddURI", "MECTSetRole", "MECTNFTCreateRoleTransfer",
          "upgradeProperties", "issue", "delegate"}

MCEvents == [id : MCIds, nTopics : 0..5, nonceZero : BOOLEAN,
             senderSelf : BOOLEAN, receiverSelf : BOOLEAN,
             known : {"tx", "scr", "none"}, rolesOk : BOOLEAN,
             tokenEmpty : BOOLEAN]
=============================================================================
