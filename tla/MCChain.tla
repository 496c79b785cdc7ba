----------------------------- MODULE MCChain -----------------------------
(***************************************************************************)
(* A linked journey for TLC: the program that holds it, or the three homes *)
(* it has between cluster and application.  The program appears in both,   *)
(* in the second as far as its revisions go, so a behaviour shows one.     *)
(* Members are alike, and so are the calls; keys are ordered.              *)
(***************************************************************************)
EXTENDS SafetyGuardV2, TLC

CONSTANTS Members, NoOne, Callers, MaxIntents, MaxApplications, EventsNew, EventsAccepted
\* A call is not mistaken for nobody's.
ASSUME ChainAssumption == NoOne \notin Callers
VARIABLES linked, program, binding, intents, cluster, room, barred, call, sync, applying, events

Linked == INSTANCE ChainSync WITH Guardians <- Members
linkedVars == <<program, binding, intents, cluster, room, barred, call, sync, applying, events>>
Alike == Permutations(Members) \cup Permutations(Callers)

Chain ==
  /\ linked \in BOOLEAN /\ Linked!Init /\ (linked \/ events = EventsNew) /\ Init
  /\ [][/\ UNCHANGED linked
        /\ \/ linked /\ Linked!Next /\ UNCHANGED vars
           \/ ~linked /\ Next /\ UNCHANGED linkedVars]_<<vars, linked, linkedVars>>

(* ChainSync!OneTransaction, ChainSync!SettledAsOnChain and                *)
(* ChainSync!HandoverMovesForward.                                         *)
OneTransaction == Linked!OneTransaction
SettledAsOnChain == Linked!SettledAsOnChain
HandoverMovesForward == Linked!HandoverMovesForward
=============================================================================
