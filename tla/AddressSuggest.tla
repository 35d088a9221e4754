---------------------------- MODULE AddressSuggest ----------------------------
(***************************************************************************)
(* The address look-up of a form: AutoSuggest, which searches while the    *)
(* user types, inside AddressLookup, which asks the address service and    *)
(* writes the address picked into the form (components/Inputs/AutoSuggest  *)
(* and AddressLookup; RhfAutoSuggest and RhfAddressLookup are the same on  *)
(* the other form library).                                                *)
(*                                                                         *)
(* Two guards keep an overtaken answer out: the request id of AutoSuggest, *)
(* and the AbortController of AddressLookup.  AutoSuggest unmounts while   *)
(* the address is entered by hand; its next mounting counts on here, where *)
(* the code starts again at zero, since no answer reaches it either way.   *)
(***************************************************************************)
EXTENDS Naturals

CONSTANTS
  Address,      \* the addresses the service knows; also their display texts
  Typed,        \* what the user types, three characters or longer
  Short,        \* one or two characters
  Empty,        \* no text
  Written,      \* the lines of an address entered by hand
  None,
  MaxRequests   \* bound on the request ids

VARIABLES
  term,        \* searchTerm: the text in the box
  newest,      \* requestIdRef
  asks,        \* of each request id: the term searched and how it went
  controller,  \* controllerRef: the request it belongs to, or 0
  options,     \* the suggestions: for which term, and of which kind?
  loading,
  lines,       \* the form's address: picked, written by hand, or none
  text,        \* the form's searchText, which is selectedOption
  manual       \* is the address entered by hand?

vars == <<term, newest, asks, controller, options, loading, lines, text, manual>>

Request == 1..MaxRequests
Long == Typed \cup Address
Term == Long \cup {Short, Empty}
Kind == {"none", "found", "notFound", "unavailable"}

\* What is assumed of the constants of an instance.
TextsAssumption ==
  /\ MaxRequests \in Nat
  /\ None \notin Long

NoAsk == [term |-> None, state |-> "none"]
NoOptions == [term |-> None, kind |-> "none"]
TextOf(t) == IF t = None THEN Empty ELSE t

Init ==
  /\ term = Empty
  /\ newest = 0
  /\ asks = [i \in 0..MaxRequests |-> NoAsk]
  /\ controller = 0
  /\ options = NoOptions
  /\ loading = FALSE
  /\ lines = None
  /\ text = None
  /\ manual = FALSE

-----------------------------------------------------------------------------
(* Searching *)

\* A new request id and no search: what is under way is overtaken.
Withdraws ==
  /\ newest' = newest + 1
  /\ options' = NoOptions
  /\ loading' = FALSE
  /\ UNCHANGED <<asks, controller>>

\* getAddresses aborts the controller it finds and puts its own in its place.
Aborted == IF controller = 0 THEN asks
           ELSE [asks EXCEPT ![controller].state = "aborted"]

Asked(t) == [Aborted EXCEPT ![newest + 1] = [term |-> t, state |-> "asking"]]

Searches(t) ==
  /\ newest' = newest + 1
  /\ asks' = Asked(t)
  /\ controller' = newest + 1
  /\ loading' = TRUE
  /\ UNCHANGED options

MayAsk == ~manual /\ newest < MaxRequests

\* The box is emptied: the form's address goes, too.
Clear ==
  /\ MayAsk
  /\ term # Empty
  /\ term' = Empty
  /\ lines' = None
  /\ text' = None
  /\ Withdraws
  /\ UNCHANGED manual

TypeShort ==
  /\ MayAsk
  /\ term # Short
  /\ term' = Short
  /\ Withdraws
  /\ UNCHANGED <<lines, text, manual>>

Type(t) ==
  /\ MayAsk
  /\ term # t
  /\ term' = t
  /\ Searches(t)
  /\ UNCHANGED <<lines, text, manual>>

\* Escape: the text goes back to that of the address in the form.
Cancel ==
  /\ MayAsk
  /\ term' = TextOf(text)
  /\ Withdraws
  /\ UNCHANGED <<lines, text, manual>>

\* Mutant: The answer of any search is shown.
Answer_Any(i, kind) ==
  /\ asks[i].state \in {"asking", "aborted"}
  /\ asks[i].state = "aborted" => kind = "notFound"
  /\ asks' = [asks EXCEPT ![i].state = "done"]
  /\ controller' = 0
  /\ options' = [term |-> asks[i].term, kind |-> kind]
  /\ loading' = FALSE
  /\ UNCHANGED <<term, newest, lines, text, manual>>

\* A search ends with addresses, with none, or with the service's failure;
\* an aborted one finds none.  Whichever ends drops the controller, also
\* that of a newer search.  Only the newest request's answer is shown.
Answer(i, kind) ==
  /\ asks[i].state \in {"asking", "aborted"}
  /\ asks[i].state = "aborted" => kind = "notFound"
  /\ asks' = [asks EXCEPT ![i].state = "done"]
  /\ controller' = 0
  /\ IF i = newest
       THEN /\ options' = [term |-> asks[i].term, kind |-> kind]
            /\ loading' = FALSE
       ELSE UNCHANGED <<options, loading>>
  /\ UNCHANGED <<term, newest, lines, text, manual>>

-----------------------------------------------------------------------------
(* Picking and entering by hand *)

\* An address is picked.  The combo box then reports its text as typed,
\* which searches again, or it does not, if the text is unchanged to it.
\* Whether onSelectionMade's setIsLoading(false), behind an await, comes
\* before or after that search sets it is the scheduler's choice.
Pick(a) ==
  /\ ~manual
  /\ options.kind = "found"
  /\ newest < MaxRequests
  /\ lines' = a
  /\ text' = a
  /\ term' = a
  /\ \/ /\ newest' = newest + 1
        /\ asks' = Asked(a)
        /\ controller' = newest + 1
        /\ loading' \in BOOLEAN
     \/ /\ loading' = FALSE
        /\ UNCHANGED <<newest, asks, controller>>
  /\ UNCHANGED <<options, manual>>

\* AutoSuggest unmounts.
Unmounts ==
  /\ manual' = TRUE
  /\ term' = Empty
  /\ Withdraws

\* Every list of suggestions ends with the offer to enter the address.
PickManual ==
  /\ MayAsk
  /\ options.kind # "none"
  /\ lines' = None
  /\ text' = None
  /\ Unmounts

\* The button below the box keeps the address for editing.
EnterManually ==
  /\ MayAsk
  /\ Unmounts
  /\ UNCHANGED <<lines, text>>

Write ==
  /\ manual
  /\ lines # Written
  /\ lines' = Written
  /\ UNCHANGED <<term, newest, asks, controller, options, loading, text, manual>>

\* The way back keeps the lines written by hand beside the text of an address
\* picked before: nothing below says that lines and text go together.
SearchAgain ==
  /\ manual
  /\ manual' = FALSE
  /\ term' = TextOf(text)
  /\ UNCHANGED <<newest, asks, controller, options, loading, lines, text>>

-----------------------------------------------------------------------------
Answered(i) == \E kind \in Kind \ {"none"} : Answer(i, kind)

Next ==
  \/ Clear
  \/ TypeShort
  \/ \E t \in Typed : Type(t)
  \/ Cancel
  \/ \E i \in Request : Answered(i)
  \/ \E a \in Address : Pick(a)
  \/ PickManual
  \/ EnterManually
  \/ Write
  \/ SearchAgain

Spec == Init /\ [][Next]_vars

\* The address service answers every search, or its failure does.
Fairness == \A i \in Request : WF_vars(Answered(i))

-----------------------------------------------------------------------------
(* Correctness *)

TypeOK ==
  /\ term \in Term
  /\ newest \in 0..MaxRequests
  /\ asks \in [0..MaxRequests ->
                 [term : Long \cup {None},
                  state : {"none", "asking", "aborted", "done"}]]
  /\ controller \in 0..newest
  /\ options \in [term : Long \cup {None}, kind : Kind]
  /\ loading \in BOOLEAN
  /\ lines \in Address \cup {Written, None}
  /\ text \in Address \cup {None}
  /\ manual \in BOOLEAN

\* Of the searches under way only the newest can show its answer, and the
\* suggestions are those of the last search: LatestAnswer, with the request
\* id's search as the question (AutoSuggest/index.tsx:44).
Suggestions == INSTANCE LatestAnswer WITH
  Question <- Long,
  asked <- asks[newest].term,
  shown <- options.term

SuggestionsAreLatest == Suggestions!Safe

\* The spinner goes away.
LoadingEnds == loading ~> ~loading

=============================================================================
