------------------------------ MODULE MCAvatar ------------------------------
(***************************************************************************)
(* An instance of Avatar with the environment of docker-compose.yml.  The  *)
(* instance with the defaults is in MCServer.                              *)
(***************************************************************************)
EXTENDS Avatar

Text == STRING
OneUser == {"ann"}
ThreeImages == {"1", "2", "3"}

\* The api service: the public URL has a path, the name of the bucket.
Compose == <<"http://minio:9000", "ktvideo">>
=============================================================================
