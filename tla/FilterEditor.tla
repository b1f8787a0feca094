---------------------------- MODULE FilterEditor ----------------------------
(***************************************************************************)
(* Choosing a filter: FilterController.swift with its table of genres,     *)
(* FilterView.swift with its sliders, and the dates Filter.swift asks for. *)
(* MovieFetch has the same filter with its page and the query as one       *)
(* value; here is what that value is made of.                              *)
(*                                                                         *)
(* Years are fractions, as sliders give them, counted in tenths.  Genres   *)
(* are named by their names.  The cells of the table are used again for    *)
(* other rows, with the checkmark they had.                                *)
(***************************************************************************)
EXTENDS Integers, Sequences, SequencesExt

CONSTANTS
    GenreList,  \* K.TMDB_GENRES
    MinYears,   \* positions of minYearSlider
    MaxYears,   \* positions of maxYearSlider
    Visible,    \* rows on the screen
    NoFilter    \* no filter in UserDefaults

Genres == ToSet(GenreList)
DefaultFilter == [genres |-> GenreList, minYear |-> 20000, maxYear |-> 20210,
                  popular |-> FALSE]
Filters == [genres : SeqOf(Genres, Len(GenreList)), minYear : MinYears \cup {20000, 20100},
            maxYear : MaxYears \cup {20210}, popular : BOOLEAN]
Rows == 0..Len(GenreList)
Controls == {"minYear", "maxYear", "popular"}

ASSUME EditorAssumption ==
    /\ GenreList \in Seq(Genres) /\ IsInjective(GenreList)
    /\ MinYears \subseteq 19500..20160 /\ MaxYears \subseteq 19550..20210
    /\ Visible \in 1..Len(GenreList) + 1
    /\ NoFilter \notin Filters
    /\ Genres \cap Controls = {}

VARIABLES
    filter,   \* FilterService.filter
    disk,     \* the filter in UserDefaults
    pending,  \* fetchFilter still waits for the user's document
    open,     \* the filter screen is presented
    edited,   \* its copy, filterView.filter
    top,      \* the first row on the screen
    cells,    \* the rows on the screen that show a checkmark
    spare,    \* what cells kept for other rows show
    changed,  \* history: genres and controls the user has changed
    stale     \* history: the filter was loaded while the screen was open

editVars == <<edited, top, cells, spare, changed, stale>>
editorVars == <<filter, disk, pending, open, editVars>>

(* The years on whose first day the movies asked for begin and end.        *)
MinYearString(f) == f.minYear \div 10 + 1
MaxYearString(f) == f.maxYear \div 10 + 1

(* What the request says of the filter, its page apart.                    *)
FilterUrlString(f) ==
    [gte |-> MinYearString(f), lte |-> MaxYearString(f), popular |-> f.popular,
     genres |-> ToSet(f.genres)]

OnScreen(first) == first..(first + Visible - 1)

(* A launch loads the filter at once, when the document has come, or, when *)
(* it starts with the login screen, not at all.                            *)
Launch ==
    \/ filter' = (IF disk = NoFilter THEN DefaultFilter ELSE disk) /\ pending' = FALSE
    \/ filter' = DefaultFilter /\ pending' \in BOOLEAN

EditorInit ==
    /\ filter = DefaultFilter /\ disk = NoFilter /\ pending \in BOOLEAN
    /\ open = FALSE /\ edited = DefaultFilter
    /\ top = 0 /\ cells = {} /\ spare = {} /\ changed = {} /\ stale = FALSE

(* Killed at any moment, and started again.                                *)
Relaunch ==
    /\ Launch
    /\ open' = FALSE
    /\ UNCHANGED <<disk, editVars>>

(* saveFilter and fetchFilter, as far as this part of the filter goes.     *)
SaveFilter ==
    /\ disk' = filter
    /\ UNCHANGED <<filter, pending, open, editVars>>

FetchFilter ==
    /\ pending /\ pending' = FALSE
    /\ filter' = (IF disk = NoFilter THEN filter ELSE disk)
    /\ stale' = open
    /\ UNCHANGED <<disk, open, edited, top, cells, spare, changed>>

(* genreFoundInFilter.                                                     *)
Chosen(row) == row # 0 /\ GenreList[row] \in ToSet(edited.genres)

(* Mutant: the screen edits the copy it had when it was open before.       *)
ShowFilterAgain ==
    /\ ~open /\ open' = TRUE
    /\ UNCHANGED edited
    /\ top' = 0 /\ spare' = {}
    /\ cells' = {row \in OnScreen(0) : Chosen(row)'}
    /\ changed' = {} /\ stale' = FALSE
    /\ UNCHANGED <<filter, disk, pending>>

(* showFilter: a new controller with a copy of the filter, new cells.      *)
ShowFilter ==
    /\ ~open /\ open' = TRUE
    /\ edited' = filter
    /\ top' = 0 /\ spare' = {}
    /\ cells' = {row \in OnScreen(0) : Chosen(row)'}
    /\ changed' = {} /\ stale' = FALSE
    /\ UNCHANGED <<filter, disk, pending>>

HandleCancel ==
    /\ open /\ open' = FALSE
    /\ UNCHANGED <<filter, disk, pending, editVars>>

(* Mutant: the years need only be in order.                                *)
SavedYearsInOrder(f) ==
    IF f.minYear >= f.maxYear
      THEN [f EXCEPT !.minYear = 20100, !.maxYear = 20210] ELSE f

(* Years too close to each other are replaced.                             *)
SavedYears(f) ==
    IF f.minYear >= f.maxYear - 10
      THEN [f EXCEPT !.minYear = 20100, !.maxYear = 20210] ELSE f

(* handleSave, and wantsToUpdateFilter of the controller.                  *)
HandleSave ==
    /\ open /\ open' = FALSE
    /\ filter' = SavedYears(edited)
    /\ UNCHANGED <<disk, pending, editVars>>

Change(c) ==
    /\ open
    /\ changed' = changed \cup {c}
    /\ UNCHANGED <<filter, disk, pending, open, top, cells, spare, stale>>

HandleSliderChanged ==
    \/ /\ Change("minYear")
       /\ \E year \in MinYears : edited' = [edited EXCEPT !.minYear = year]
    \/ /\ Change("maxYear")
       /\ \E year \in MaxYears : edited' = [edited EXCEPT !.maxYear = year]

HandleTogglePopular ==
    /\ Change("popular")
    /\ edited' = [edited EXCEPT !.popular = ~@]

(* The loop of addGenreToFilter: it removes the genre where it finds it,   *)
(* and appends it when it is at the end of the list or the list is empty.  *)
AddGenreToFilter(list, g) ==
    LET i == SelectInSeq(list, LAMBDA h : h = g)
    IN IF i # 0 THEN RemoveAt(list, i) ELSE Append(list, g)

(* didSelectRowAt; the heading does nothing.  A genre that is tapped twice *)
(* has not been changed.                                                   *)
DidSelectRow(row) ==
    /\ open /\ row \in OnScreen(top) \ {0}
    /\ LET g == GenreList[row]
       IN /\ edited' = [edited EXCEPT !.genres = AddGenreToFilter(@, g)]
          /\ cells' = IF Len(edited'.genres) > Len(edited.genres)
                        THEN cells \cup {row} ELSE cells \ {row}
          /\ changed' = IF g \in changed THEN changed \ {g} ELSE changed \cup {g}
    /\ UNCHANGED <<filter, disk, pending, open, top, spare, stale>>

(* Mutant: a cell keeps its checkmark.                                     *)
CellKeepsMark(row, mark) == Chosen(row) \/ mark

(* cellForRowAt for a cell that shows mark: the heading keeps it.          *)
CellForRow(row, mark) == IF row = 0 THEN mark ELSE Chosen(row)

(* A row leaves the screen at one end, and another enters it: with a cell  *)
(* that was left over, or a new one.                                       *)
Scroll(first, leaving, entering) ==
    /\ open
    /\ OnScreen(first) \subseteq Rows
    /\ top' = first
    /\ spare' = spare \cup {leaving \in cells}
    /\ \E mark \in spare' \cup {FALSE} :
          cells' = (cells \ {leaving}) \cup (IF CellForRow(entering, mark) THEN {entering} ELSE {})
    /\ UNCHANGED <<filter, disk, pending, open, edited, changed, stale>>

EditorNext ==
    \/ Relaunch \/ SaveFilter \/ FetchFilter
    \/ ShowFilter \/ HandleCancel \/ HandleSave
    \/ HandleSliderChanged \/ HandleTogglePopular
    \/ \E row \in Rows : DidSelectRow(row)
    \/ Scroll(top + 1, top, top + Visible)
    \/ Scroll(top - 1, top + Visible - 1, top - 1)

EditorSpec == EditorInit /\ [][EditorNext]_editorVars

-----------------------------------------------------------------------------

EditorTypeOK ==
    /\ filter \in Filters /\ disk \in Filters \cup {NoFilter} /\ edited \in Filters
    /\ pending \in BOOLEAN /\ open \in BOOLEAN /\ stale \in BOOLEAN
    /\ top \in Rows /\ OnScreen(top) \subseteq Rows
    /\ cells \subseteq OnScreen(top) /\ spare \subseteq BOOLEAN
    /\ changed \subseteq Genres \cup Controls

(* No genre is twice in a filter, after any sequence of taps, saves and    *)
(* launches: the loop of addGenreToFilter finds the one there is.          *)
EachGenreOnce ==
    /\ IsInjective(filter.genres) /\ IsInjective(edited.genres)
    /\ disk # NoFilter => IsInjective(disk.genres)

(* On an open screen a genre on the screen has a checkmark exactly if it   *)
(* is in the edited filter, however the table was scrolled and its cells   *)
(* were used before (cellForRowAt, didSelectRowAt).                        *)
CheckmarksAgree ==
    open => \A row \in OnScreen(top) \ {0} : row \in cells <=> Chosen(row)

EditorInv == EditorTypeOK /\ EachGenreOnce /\ CheckmarksAgree

(* The filter in use always asks for a whole year at least, from January 1 *)
(* of one year to January 1 of a later one (minYearString, maxYearString): *)
(* handleSave must keep fractional years far enough from each other.       *)
SpanHoldsAYear == FilterUrlString(filter).gte < FilterUrlString(filter).lte

(* Saving changes what the user has changed and nothing else: genres       *)
(* tapped an even number of times, years whose sliders were not moved and  *)
(* an untouched switch keep what was in use, unless the saved filter was   *)
(* loaded meanwhile, which is then lost (FilterView's copy, handleSave).   *)
SavesWhatWasChanged ==
    [][ HandleSave /\ ~stale =>
          /\ \A g \in Genres : g \in changed <=>
                (g \in ToSet(filter'.genres)) # (g \in ToSet(filter.genres))
          /\ "popular" \notin changed => filter'.popular = filter.popular
          /\ changed \cap {"minYear", "maxYear"} = {} =>
                filter'.minYear = filter.minYear /\ filter'.maxYear = filter.maxYear
      ]_editorVars
=============================================================================
