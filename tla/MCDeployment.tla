---------------------------- MODULE MCDeployment ----------------------------
(* Model-checking instances of the deployment host.                        *)
EXTENDS Deployment
=============================================================================
