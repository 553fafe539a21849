----------------------------- MODULE MCEndpoints -----------------------------
(* A small instance of Endpoints: two connections, of which one may fail   *)
(* at either end and ask the user at the client.                           *)
EXTENDS Endpoints

CONSTANTS d1, d2

MCRestless == {<<"client", d1>>, <<"server", d1>>}
==============================================================================
