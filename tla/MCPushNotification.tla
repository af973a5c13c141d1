---------------------------- MODULE MCPushNotification ----------------------------
(***************************************************************************)
(* Values of the constants of PushNotification for TLC.                    *)
(***************************************************************************)
EXTENDS PushNotification, TLC

CONSTANTS alice, bob, android

PushSymmetry == Permutations(User)

\* States are told apart but for what no step reads again: the answer a token request
\* was given, and of an ended invocation all but its caller and its deliveries.
PushView == <<table, lagging, now, app, secret, dead,
              [r \in Request |-> IF req[r].pc = "idle" THEN <<>> ELSE req[r]],
              [n \in Notifier |-> IF job[n].pc \in {"idle", "answered"}
                                  THEN <<job[n].user, job[n].sent>>
                                  ELSE job[n]]>>
================================================================================
