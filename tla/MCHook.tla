------------------------------- MODULE MCHook -------------------------------
(***************************************************************************)
(* The instance of Hook that TLC checks: a call of each kind, two readers, *)
(* a writer and a close() on one descriptor, a connect() on another; two   *)
(* milliseconds, so that timers may fall together or not.                  *)
(***************************************************************************)
EXTENDS Hook

CONSTANTS
  cSleep, cUsleep, cRead, cReadToo, cWrite, cConnect, cClose,
  fdShared, fdOther

MCCall == {cSleep, cUsleep, cRead, cReadToo, cWrite, cConnect, cClose}

MCKind ==
  [c \in MCCall |->
     CASE c = cSleep -> "sleep" [] c = cUsleep -> "usleep"
       [] c \in {cRead, cReadToo} -> "read" [] c = cWrite -> "write"
       [] c = cConnect -> "connect" [] c = cClose -> "close"]

(* connect() never waits, so that beside it a worker is left to run what   *)
(* another call waits for.                                                 *)
MCPrograms ==
  {{cSleep, cUsleep}, {cRead, cReadToo}, {cRead, cClose}, {cRead, cWrite},
   {cConnect, cRead}, {cConnect, cSleep}, {cConnect, cUsleep}}

MCTarget == [c \in MCCall |-> IF c = cConnect THEN fdOther ELSE fdShared]
=============================================================================
