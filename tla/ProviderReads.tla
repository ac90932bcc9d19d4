--------------------------- MODULE ProviderReads ---------------------------
(* Reading a collection from Jira or Bitbucket page by page                 *)
(* (jira-adapter/src/client.rs, bitbucket-adapter/src/lib.rs).  The code    *)
(* has seven loops for it, which differ in how they go on, what bounds them *)
(* and what they do at the limit:                                           *)
(*    offset     boards and worklogs, by startAt and total                  *)
(*    issues     the issues of a board, by token                            *)
(*    documents  the results of a search, by token                          *)
(*    limited    the results of a search up to a limit, by token            *)
(*    find       one issue among the issues of a board, by token            *)
(*    pages      a Bitbucket collection, by the URL of the next page        *)
(*    first      the same up to the number that was asked for               *)
(* Between two pages the provider's collection grows at its end, and at any *)
(* time the provider strays: it changes otherwise, which moves what the     *)
(* next page begins with, or answers anything.                              *)
EXTENDS Naturals, Sequences, FiniteSets

CONSTANTS Items,
          MaxItems,     \* PageLimits::max_items
          PageSize,     \* PageLimits::page_size
          OffsetMax,    \* the largest startAt, u32::MAX
          NoToken,
          NoItem,       \* no issue is looked for
          MaxLength     \* bound: the length of the provider's collection

ASSUME ReadsAssumption ==
    /\ MaxItems \in Nat \ {0} /\ PageSize \in Nat \ {0}
    /\ OffsetMax \in Nat /\ MaxLength \in Nat /\ MaxLength <= OffsetMax
    /\ NoToken \notin Nat
    /\ Items # {} /\ NoItem \notin Items

VARIABLES
    read,       \* the loop under way
    list,       \* the provider's collection
    first,      \* history: the collection when the read began
    honest      \* the provider follows the protocol, and only adds at the end

readVars == <<read, list, first, honest>>

ReadKinds == {"offset", "issues", "documents", "limited", "find", "pages", "first"}
UrlKinds  == {"pages", "first"}
Outcomes  == {"reading", "whole", "part", "found", "absent", "refused", "failed"}
Tokens    == 0 .. OffsetMax

Lists == UNION {[1 .. n -> Items] : n \in 0 .. MaxLength}
Distinct(s) == \A i, j \in DOMAIN s : s[i] = s[j] => i = j

ReadInit ==
    /\ list \in {s \in Lists : Distinct(s)}
    /\ first = list
    /\ honest = TRUE
    /\ \E kind \in ReadKinds, wanted \in Items \cup {NoItem} :
         /\ (kind = "find") = (wanted # NoItem)
         /\ read = [kind |-> kind, wanted |-> wanted, items |-> <<>>, place |-> 0,
                 seen |-> IF kind \in UrlKinds THEN {0} ELSE {}, requests |-> 0,
                 outcome |-> "reading"]

---------------------------------------------------------------------------
(* The provider's answers.                                                  *)

Room == MaxItems - Len(read.items)

\* The number of items that is asked for: remaining_page_size of a limited search.
Asked == IF read.kind = "limited" /\ Room < PageSize THEN Room ELSE PageSize

\* The page after n items more of the collection.
PageOf(n) ==
    LET end == read.place + n
    IN  [items |-> SubSeq(list, read.place + 1, end), start |-> read.place,
         total |-> Len(list), last |-> end >= Len(list),
         next |-> IF end >= Len(list) THEN NoToken ELSE end]

\* A provider that follows the protocol may answer with fewer items than asked for,
\* but not with none while there are more.
HonestPages ==
    {PageOf(n) : n \in {k \in 0 .. Asked : /\ k > 0 => read.place + k <= Len(list)
                                           /\ k = 0 => read.place >= Len(list)}}

\* Any answer, in the parts of it that the loop looks at: a token or a URL is a
\* number, and the items of a page are all the same.
Alike == {[i \in 1 .. n |-> item] : n \in 0 .. PageSize + 1, item \in Items}

AnyPages ==
    IF read.kind = "offset"
    THEN [items : Alike, start : Tokens, total : 0 .. MaxItems + 1,
          last : {FALSE}, next : {NoToken}]
    ELSE [items : Alike, start : {0}, total : {0},
          last : BOOLEAN, next : Tokens \cup {NoToken}]

---------------------------------------------------------------------------
(* What a loop does with a page.                                            *)

\* Mutant: the loop over search results has no limit of pages.
CountedExceptDocuments == ReadKinds \ {"offset", "limited", "documents"}

\* advance_page_count, the range of find_board_issue, ensure_page_limit: as many
\* requests as items.  Offsets and limited searches do not count them.
Counted == ReadKinds \ {"offset", "limited"}

\* append_with_limit, append_page; ensure_total_within_limit.
Overflows(page) ==
    \/ Len(page.items) > Room /\ read.kind # "first"
    \/ read.kind = "offset" /\ page.total > MaxItems

\* Only the room that is left is taken from a page of Bitbucket.
Collected(page) ==
    read.items \o (IF Len(page.items) > Room THEN SubSeq(page.items, 1, Room) ELSE page.items)

Full(page) == Len(Collected(page)) = MaxItems

OffsetAfter(page) == page.start + Len(page.items)

\* Mutant: the offset goes on by the size that was asked for.
PlaceByPageSize(page) ==
    IF read.kind = "offset" THEN page.start + PageSize ELSE page.next

\* next_offset counts what the page really holds; next_token; the URL.
PlaceAfter(page) == IF read.kind = "offset" THEN OffsetAfter(page) ELSE page.next

\* The end of the loop with a result, or none.
ResultOf(page) ==
    CASE read.kind = "offset" ->
            IF Len(page.items) = 0 \/ (OffsetAfter(page) <= OffsetMax
                                       /\ (OffsetAfter(page) >= page.total \/ Full(page)))
            THEN "whole" ELSE "none"
      [] read.kind \in {"issues", "documents"} ->
            IF page.last THEN "whole" ELSE "none"
      [] read.kind = "limited" ->
            IF page.last THEN "whole" ELSE IF Full(page) THEN "part" ELSE "none"
      [] read.kind = "find" ->
            IF \E i \in DOMAIN Collected(page) : Collected(page)[i] = read.wanted THEN "found"
            ELSE IF page.last THEN "absent" ELSE "none"
      [] read.kind = "pages" ->
            IF page.next = NoToken THEN "whole" ELSE "none"
      [] read.kind = "first" ->
            IF Full(page) THEN "part" ELSE IF page.next = NoToken THEN "whole" ELSE "none"

\* Going on: a limit that is reached, next_token and remember_page, next_offset.
CanGoOn(page) ==
    /\ read.kind \in {"issues", "pages"} => ~Full(page)
    /\ read.kind = "offset" => OffsetAfter(page) <= OffsetMax
    /\ read.kind # "offset" => page.next \in Tokens \ read.seen

\* A page is asked for and answered.
Receive(page) ==
    /\ read.outcome = "reading"
    /\ read.kind \in Counted => read.requests < MaxItems
    /\ read' =
         IF Overflows(page) THEN [read EXCEPT !.requests = @ + 1, !.outcome = "refused"]
         ELSE IF ResultOf(page) # "none"
         THEN [read EXCEPT !.requests = @ + 1, !.items = Collected(page),
                           !.outcome = ResultOf(page)]
         ELSE IF CanGoOn(page)
         THEN [read EXCEPT !.requests = @ + 1, !.items = Collected(page),
                           !.place = PlaceAfter(page), !.seen = @ \cup {PlaceAfter(page)}]
         ELSE [read EXCEPT !.requests = @ + 1, !.outcome = "refused"]
    /\ UNCHANGED <<list, first, honest>>

\* One page more than there may be items: InvalidPagination.
TooManyPages ==
    /\ read.outcome = "reading"
    /\ read.kind \in Counted /\ read.requests >= MaxItems
    /\ read' = [read EXCEPT !.outcome = "refused"]
    /\ UNCHANGED <<list, first, honest>>

\* No answer in time, a status of failure, a page that is not JSON, an invalid
\* worklog in it, a next page of another origin or collection (safe_page_url).
PageFails ==
    /\ read.outcome = "reading"
    /\ read.kind \in Counted => read.requests < MaxItems
    /\ read' = [read EXCEPT !.requests = @ + 1, !.outcome = "failed"]
    /\ UNCHANGED <<list, first, honest>>

\* Other people add to the collection.
Added ==
    /\ honest /\ Len(list) < MaxLength
    /\ \E item \in Items : /\ \A i \in DOMAIN list : list[i] # item
                           /\ list' = Append(list, item)
    /\ UNCHANGED <<read, first, honest>>

\* From here on nothing is known of the collection.
Strays ==
    /\ honest
    /\ honest' = FALSE /\ list' = <<>> /\ first' = <<>>
    /\ UNCHANGED read

ReadNext ==
    \/ \E page \in IF honest THEN HonestPages ELSE AnyPages : Receive(page)
    \/ TooManyPages \/ PageFails
    \/ Added \/ Strays

ReadSpec == ReadInit /\ [][ReadNext]_readVars

---------------------------------------------------------------------------
(* Properties.                                                              *)

ReadTypeOK ==
    /\ read.kind \in ReadKinds /\ read.wanted \in Items \cup {NoItem}
    /\ read.items \in Seq(Items)
    /\ read.place \in Nat
    /\ read.seen \subseteq Nat
    /\ read.requests \in Nat
    /\ read.outcome \in Outcomes
    /\ honest \in BOOLEAN

\* Whatever the provider answers, a read holds at most the items it may hold and asks
\* at most as often.  The pages of a limited search are not counted: it asks no more
\* often while the provider follows the protocol, and without an end when it does not.
ReadsAreBounded ==
    /\ Len(read.items) <= MaxItems
    /\ read.kind # "limited" \/ honest => read.requests <= MaxItems

\* While the provider follows the protocol and its collection only grows at the
\* end: what counts as whole holds everything that was there when the read began,
\* once and in order; a part is said to be one, and is as long as it may be; an
\* issue that was there is found; and only a collection beyond the limit is refused.
ReadsAreComplete ==
    honest =>
        /\ read.items = SubSeq(list, 1, Len(read.items))
        /\ read.outcome = "whole"   => Len(read.items) >= Len(first)
        /\ read.outcome = "part"    => Len(read.items) = MaxItems
        /\ read.outcome = "absent"  => \A i \in DOMAIN first : first[i] # read.wanted
        /\ read.outcome = "refused" => Len(list) > MaxItems
=============================================================================
