---------------------------- MODULE MCAuthorizer ----------------------------
(* One login with three form submissions and a State channel of three.     *)
EXTENDS Authorizer

=============================================================================
