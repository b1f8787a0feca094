---------------------------- MODULE VerdictStore ----------------------------
(***************************************************************************)
(* What keeping verdicts amounts to, seen from outside: every owner of     *)
(* verdicts (an account, or the phone itself) has a durable copy, and an   *)
(* open copy while the app works for it.  In one step each owner's copies  *)
(* stay, take a verdict, or are loaded, saved, closed or founded, whatever *)
(* the other owners' copies do.                                            *)
(***************************************************************************)
EXTENDS MovieIds

CONSTANTS
    Owners,     \* the accounts and the phone
    Local       \* the phone, whose verdicts a new account takes over

VARIABLES
    durable,    \* what survives the app, or None: never saved
    open        \* what the app works with, or None

storeVars == <<durable, open>>

Copies == {None} \cup SUBSET Movies

StoreInit ==
    /\ durable \in [Owners -> Copies]
    /\ open \in [Owners -> {None}] \cup [Owners -> Copies]
    /\ \A o \in Owners : open[o] \in {None, durable[o]}

Keep(o) == open'[o] = open[o] /\ durable'[o] = durable[o]

TakeVerdict(o) ==
    /\ open[o] # None
    /\ \E m \in Movies : open'[o] = open[o] \cup {m}
    /\ durable'[o] = durable[o]

Load(o) ==
    /\ durable[o] # None
    /\ open'[o] = durable[o]
    /\ durable'[o] = durable[o]

Save(o) ==
    /\ open[o] # None
    /\ open'[o] = open[o]
    /\ durable'[o] = open[o]

Close(o) == open'[o] = None /\ durable'[o] = durable[o]

(* A new account starts with the verdicts of the phone, saved or not yet.  *)
Found(o) ==
    /\ o # Local
    /\ durable[o] = None
    /\ open'[o] = IF open[Local] = None THEN {} ELSE open[Local]
    /\ durable'[o] \in {None, open'[o]}

StoreNext ==
    /\ durable' \in [Owners -> Copies]
    /\ open' \in [Owners -> Copies]
    /\ \A o \in Owners :
          Keep(o) \/ TakeVerdict(o) \/ Load(o) \/ Save(o) \/ Close(o) \/ Found(o)

StoreSpec == StoreInit /\ [][StoreNext]_storeVars

(* A verdict that was saved once stays saved, for as long as its owner     *)
(* exists: the durable copy of each owner only grows.                      *)
SavedStays ==
    [][ \A o \in Owners : durable[o] # None =>
            durable'[o] # None /\ durable[o] \subseteq durable'[o] ]_storeVars
=============================================================================
