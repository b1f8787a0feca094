----------------------------- MODULE FetchPages -----------------------------
(***************************************************************************)
(* Which pages the loads of MovieFetch request: history variables beside   *)
(* its actions.  The page number is a field of the one shared filter, so   *)
(* that its order depends on every load, save, launch and sign-in.         *)
(***************************************************************************)
EXTENDS MovieFetch

VARIABLES
    firstPage,  \* the page the filter was last set to
    asked,      \* the pages requested since, in order
    rewound     \* saveFilter has taken a page back since

pageVars == <<firstPage, asked, rewound>>
allVars == <<fetchVars, pageVars>>

PagesInit ==
    /\ FetchInit
    /\ firstPage = filter.page /\ asked = <<>> /\ rewound = FALSE

LaunchLoad == \E next \in {"none", "username"} : LoadFilter(next)

(* Steps that go on with the filter there is: the page is moved on exactly *)
(* when it is requested, and moved back by a save.                         *)
GoOn ==
    /\ \/ Refill \/ OpenFilter \/ CloseModal \/ AskLogin \/ PresentLogin
       \/ PresentOther \/ SaveFilter
       \/ \E r \in requests : Answer(r)
       \/ disk = None /\ LaunchLoad
    /\ asked' = IF filter'.page > filter.page THEN Append(asked, filter.page) ELSE asked
    /\ rewound' = (rewound \/ (saves' # saves /\ filter' # filter))
    /\ UNCHANGED firstPage

(* Steps that set the page to 1 and start a load, which may be refused.    *)
FirstPage ==
    /\ \/ \E q \in Filters : ApplyFilter(q)
       \/ \E named \in BOOLEAN : SignIn(named)
    /\ asked' = IF filter'.page > 1 THEN <<1>> ELSE <<>>
    /\ firstPage' = 1
    /\ rewound' = FALSE

SavedPage ==
    /\ disk # None /\ LaunchLoad
    /\ asked' = <<>>
    /\ firstPage' = filter'.page
    /\ rewound' = FALSE

PagesNext == GoOn \/ FirstPage \/ SavedPage
PagesSpec == PagesInit /\ [][PagesNext]_allVars
PagesFairSpec == PagesSpec /\ FetchFairness

-----------------------------------------------------------------------------

PagesTypeOK ==
    /\ FetchTypeOK
    /\ firstPage \in Nat \ {0}
    /\ asked \in Seq(Nat \ {0})
    /\ rewound \in BOOLEAN

AskedBefore == firstPage .. (filter.page - 1) \subseteq ToSet(asked)

(* Every page of the active query, from the page the filter was last set   *)
(* to, is requested before a later one, and none before page 1, however    *)
(* loads, saves and failures interleave on the one shared page number      *)
(* (saveFilter takes a page back each time it runs).  A page that was      *)
(* requested and failed is not requested again.                            *)
NoPageSkipped == filter.page >= 1 /\ AskedBefore

(* No page is requested a second time, by this load or another, unless a   *)
(* save rewound the filter in between (saveFilter takes a page back each   *)
(* time a scene callback runs).                                            *)
NoPageRepeated == ~rewound => IsInjective(asked)
=============================================================================
