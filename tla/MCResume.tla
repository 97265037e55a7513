------------------------------- MODULE MCResume -------------------------------
(*****************************************************************************)
(* Four instances of CarrierMigration, which share its variables and differ  *)
(* in the bounds: a flow that only sends, one that only receives, and each   *)
(* of them migrating twice. The constants of the first are those of the      *)
(* configuration.                                                            *)
(*****************************************************************************)
EXTENDS CarrierMigration

VARIABLES part  \* the instance this behaviour is of

allVars == <<part, vars>>

\* Two bytes towards the client, one migration.
DownPart == INSTANCE CarrierMigration WITH
    MaxUp <- 0, MaxDown <- 2

\* One byte from the client, two migrations, without v2.
TwiceUp == INSTANCE CarrierMigration WITH
    MaxUp <- 1, MaxDials <- 2, SymmetricReplay <- FALSE

\* One byte towards the client, two migrations.
TwiceDown == INSTANCE CarrierMigration WITH
    MaxUp <- 0, MaxDown <- 1, MaxDials <- 2

MCInit ==
  \/ part = "up" /\ Init
  \/ part = "down" /\ DownPart!Init
  \/ part = "twice_up" /\ TwiceUp!Init
  \/ part = "twice_down" /\ TwiceDown!Init

MCNext ==
  /\ UNCHANGED part
  /\ \/ part = "up" /\ Next
     \/ part = "down" /\ DownPart!Next
     \/ part = "twice_up" /\ TwiceUp!Next
     \/ part = "twice_down" /\ TwiceDown!Next

MCSpec == MCInit /\ [][MCNext]_allVars

-----------------------------------------------------------------------------
=============================================================================
