--------------------------- MODULE MCSQLDatabase ---------------------------
(* Instances of SQLDatabase for TLC.  The queue holds one query, so that     *)
(* three queries fill it; two SQLThreadData objects let the client           *)
(* close the database, open it again and start a second worker while the     *)
(* first one is anywhere in its loop.                                        *)
EXTENDS SQLDatabase

AllKinds == {"select", "update"}

BothModes == {TRUE, FALSE}
NonBlocking == {TRUE}
=============================================================================
