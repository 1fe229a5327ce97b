-------------------------- MODULE DownlinkService --------------------------
(***************************************************************************)
(* What the application is promised of the frames of the network: each is  *)
(* given to it at most once and they come in the order of their counters.  *)
(* Frame 0 is the exception: the test for a repeated frame in              *)
(* src/mac/LoRaMac.c (lines 929, 946 and 962) leaves out the counter 0,    *)
(* which is also the counter of a session without any frame yet.           *)
(***************************************************************************)
EXTENDS Integers

VARIABLES
  given,   \* counter of the last frame given in this session, -1: none
  times    \* how often it was given: 0, 1 or 2 (more than once)

Init == given = -1 /\ times = 0

Give == given' \in Nat /\ given' > given /\ times' = 1

GiveFirstAgain == given = 0 /\ times' = 2 /\ UNCHANGED given

NewSession == given' = -1 /\ times' = 0

Next == Give \/ GiveFirstAgain \/ NewSession

Spec == Init /\ [][Next]_<<given, times>>
=============================================================================
