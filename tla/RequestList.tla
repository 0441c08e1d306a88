----------------------------- MODULE RequestList -----------------------------
(***************************************************************************)
(* The list of requests a member of staff may see. What is asked for is    *)
(* kept in the address, so that Back, a link or a reload asks for it again.*)
(* The search box runs ahead of the address and is applied when typing     *)
(* pauses; the filter form is applied when submitted. A read of the list   *)
(* is one snapshot of the database, and only the read that belongs to the  *)
(* latest address is heard.                                                *)
(***************************************************************************)
EXTENDS Naturals, Sequences

CONSTANTS
  Texts, TooShort, Empty, NoRead,       \* what can be typed
  Filters, Plain,                       \* choices of the filter form; of the plain list
  MaxListed, MaxAddresses, MaxArrivals, MaxPresses    \* bounds
    \* pages of requests there are, addresses kept, changes of the requests, uses of the page

ASSUME ListAssumption ==
  /\ TooShort \notin Texts /\ Empty \notin Texts \cup {TooShort} /\ Plain \in Filters
  /\ MaxListed \in Nat /\ MaxAddresses \in Nat \ {0} /\ MaxArrivals \in Nat /\ MaxPresses \in Nat

VARIABLES
  addresses,    \* the browser's history, the current address last
  typed,        \* the search box, or Untouched while it shows the address's text
  formed,       \* the filter form
  reading,      \* the read that is waited for, or NoRead
  overtaken,    \* reads given up that may still answer
  listed,       \* what the last read answered, or NoRead
  matching,     \* how many pages of requests there are, whatever is asked; how often that changed
  presses

listVars == <<addresses, typed, formed, reading, overtaken, listed, matching, presses>>

Untouched == "untouched"
Pages == 1..MaxListed + 1
Address == [text : Texts \cup {TooShort, Empty}, filter : Filters, page : Pages, row : BOOLEAN]
Reading == [of : Address, since : 0..MaxArrivals]

Here == addresses[Len(addresses)]
InList == ~Here.row
Searched == IF typed = Untouched THEN Here.text ELSE typed
Invalid == Searched = TooShort
Pending == Searched # Here.text

(* The rows, the range and the pages; nothing while a search is pending or cannot be made. *)
Rows == IF Pending \/ Invalid \/ listed = NoRead \/ listed.of # Here THEN NoRead ELSE listed

ListTypeOK ==
  /\ addresses \in Seq(Address) /\ Len(addresses) \in 1..MaxAddresses
  /\ typed \in Texts \cup {TooShort, Empty, Untouched}
  /\ formed \in Filters
  /\ reading \in Reading \cup {NoRead} /\ overtaken \in SUBSET Reading
  /\ listed = NoRead \/ (listed.of \in Address /\ listed.outcome \in {"rows", "none", "failed"}
                         /\ listed.since \in 0..MaxArrivals /\ listed.at \in 0..MaxArrivals)
  /\ matching.pages \in 0..MaxListed /\ matching.changes \in 0..MaxArrivals
  /\ presses \in 0..MaxPresses

Front == [text |-> Empty, filter |-> Plain, page |-> 1, row |-> FALSE]
ReadOf(address) == [of |-> address, since |-> matching.changes]

ListInit ==
  /\ addresses = <<Front>> /\ typed = Untouched /\ formed = Plain
  /\ matching = [pages |-> MaxListed, changes |-> 0]
  /\ reading = ReadOf(Front) /\ overtaken = {} /\ listed = NoRead
  /\ presses = 0

\* Mutant: a read that was given up is heard as well.
HearsAnyone(read) == read \in overtaken \cup {reading}

Hears(read) == read = reading

Overtaken == IF reading = NoRead THEN overtaken ELSE overtaken \cup {reading}
Press == presses < MaxPresses /\ presses' = presses + 1

(* The effect that reads: whenever the address, or whether a search can be made, has changed. *)
ReadsAgain(address, search) ==
  /\ overtaken' = Overtaken
  /\ IF search = address.text /\ search # TooShort
     THEN reading' = ReadOf(address) /\ listed' = NoRead
     ELSE reading' = NoRead /\ UNCHANGED listed

(* A new address takes the text that was typed along, and the box shows the address again. *)
GoTo(address, stack) ==
  IF address = Here THEN UNCHANGED <<addresses, formed, reading, overtaken, listed>>
  ELSE /\ Len(stack) < MaxAddresses
       /\ addresses' = Append(stack, address) /\ formed' = address.filter
       /\ ReadsAgain(address, address.text)

Apply(filter, page) ==
  /\ Press /\ InList
  /\ GoTo([text |-> Searched, filter |-> filter, page |-> page, row |-> FALSE], addresses)
  /\ typed' = Untouched
  /\ UNCHANGED matching

Choose(filter) ==
  /\ Press /\ InList /\ formed # filter /\ formed' = filter
  /\ UNCHANGED <<addresses, typed, reading, overtaken, listed, matching>>

Turn ==
  /\ Rows # NoRead /\ Rows.outcome = "rows"
  /\ \E page \in Pages :
       /\ page = Here.page - 1 \/ (page = Here.page + 1 /\ page <= Rows.pages)
       /\ Apply(Here.filter, page)

(* Each key: the box differs from the address, and the read for the address is given up. *)
Type(text) ==
  /\ Press /\ InList /\ text # Searched /\ typed' = text
  /\ IF text = Here.text \/ ~Pending THEN ReadsAgain(Here, text)
     ELSE UNCHANGED <<reading, overtaken, listed>>
  /\ UNCHANGED <<addresses, formed, matching>>

(* 300 ms without a key. *)
Pause ==
  /\ InList /\ Pending /\ ~Invalid
  /\ GoTo([text |-> Searched, filter |-> Here.filter, page |-> 1, row |-> FALSE], addresses)
  /\ typed' = Untouched
  /\ UNCHANGED <<matching, presses>>

Clear ==
  /\ Press /\ InList
  /\ \E address \in {Front, [Here EXCEPT !.text = Empty, !.page = 1]} :
       IF address = Here
       THEN /\ IF Pending THEN ReadsAgain(Here, Here.text) ELSE UNCHANGED <<reading, overtaken, listed>>
            /\ UNCHANGED <<addresses, formed>>
       ELSE GoTo(address, addresses)
  /\ typed' = Untouched
  /\ UNCHANGED matching

Refresh ==
  /\ Press /\ InList
  /\ ReadsAgain(Here, Searched)
  /\ UNCHANGED <<addresses, typed, formed, matching>>

(* The page for an address the browser went to. *)
Open(stack) ==
  LET address == stack[Len(stack)] IN
  /\ Len(stack) <= MaxAddresses
  /\ addresses' = stack /\ typed' = Untouched
  /\ IF address.row
     THEN reading' = NoRead /\ overtaken' = Overtaken /\ listed' = NoRead /\ UNCHANGED formed
     ELSE ReadsAgain(address, address.text) /\ formed' = address.filter
  /\ UNCHANGED matching

(* The browser's Back, from the list or from a request. *)
BrowserBack ==
  /\ Press /\ Len(addresses) > 1
  /\ Open(SubSeq(addresses, 1, Len(addresses) - 1))

(* A row's link carries the list's address along; the link back from the request asks for it again. *)
OpenRow ==
  /\ Press /\ InList /\ Rows # NoRead /\ Rows.outcome = "rows"
  /\ Open(Append(addresses, [Here EXCEPT !.row = TRUE]))

BackToList ==
  /\ Press /\ ~InList
  /\ Open(Append(addresses, [Here EXCEPT !.row = FALSE]))

-----------------------------------------------------------------------------
(* One snapshot of the database: the count and the page.                   *)
ListSnapshot(read) ==
  [of |-> read.of, since |-> read.since, at |-> matching.changes, pages |-> matching.pages,
   outcome |-> IF read.of.page <= matching.pages THEN "rows" ELSE "none"]

Answers(read, answer) ==
  IF ~Hears(read) THEN UNCHANGED <<addresses, formed, reading, overtaken, listed>>
  ELSE IF answer.outcome = "none" /\ read.of.page > 1
       THEN GoTo([read.of EXCEPT !.page = 1], SubSeq(addresses, 1, Len(addresses) - 1))
       ELSE /\ listed' = answer /\ reading' = NoRead
            /\ UNCHANGED <<addresses, formed, overtaken>>

(* The answer to a read that was given up may come as well; what it read may be old. *)
ListAnswered ==
  /\ \/ reading # NoRead /\ Answers(reading, ListSnapshot(reading))
     \/ \E read \in overtaken : Answers(read, [ListSnapshot(read) EXCEPT !.at = read.since])
  /\ UNCHANGED <<typed, matching, presses>>

ListFailed ==
  /\ reading # NoRead /\ reading' = NoRead
  /\ listed' = [of |-> reading.of, since |-> reading.since, at |-> reading.since, pages |-> 0,
                outcome |-> "failed"]
  /\ UNCHANGED <<addresses, typed, formed, overtaken, matching, presses>>

(* Requests come and leave the view. *)
RequestsChange ==
  /\ matching.changes < MaxArrivals
  /\ \E pages \in 0..MaxListed :
       pages # matching.pages /\ matching' = [pages |-> pages, changes |-> matching.changes + 1]
  /\ UNCHANGED <<addresses, typed, formed, reading, overtaken, listed, presses>>

ListNext ==
  \/ \E filter \in Filters : Choose(filter)
  \/ Apply(formed, 1) \/ Turn
  \/ \E text \in Texts \cup {TooShort, Empty} : Type(text)
  \/ Pause \/ Clear \/ Refresh \/ BrowserBack \/ OpenRow \/ BackToList
  \/ ListAnswered \/ ListFailed \/ RequestsChange

ListSpec == ListInit /\ [][ListNext]_listVars

-----------------------------------------------------------------------------
(* The rows shown are those of the address as it stands and of the text in the search box; they are
   at least as recent as the press that asked for them, and a later page that came out empty is
   never shown: the first one is, in its place (InternalRequestWorkspace.jsx:178). *)
ListAnswersItsAddress ==
  Rows # NoRead =>
    /\ Rows.of.text = Searched /\ Rows.of = Here
    /\ Rows.at >= Rows.since
    /\ Rows.outcome = "none" => Here.page = 1
=============================================================================
