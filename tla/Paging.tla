------------------------------- MODULE Paging -------------------------------
(***************************************************************************)
(* Page numbers of the Cloudflare client (pkg/client/helpers.go) and the   *)
(* SDK's pagination bag, the stack of page states that a page token        *)
(* serializes.  A page token is a page number; NoToken is "".              *)
(***************************************************************************)
EXTENDS Naturals, Sequences, SequencesExt

CONSTANT PageSize  \* items per page

ASSUME PageSizeAssumption == PageSize \in Nat \ {0}

NoToken == 0

(***************************************************************************)
(* Cloudflare: a list endpoint cuts what it holds into pages               *)
(***************************************************************************)

pagesFor(total, perPage) == (total + perPage - 1) \div perPage

pageOf(list, page) ==
  SubSeq(list, (page - 1) * PageSize + 1,
         IF page * PageSize < Len(list) THEN page * PageSize ELSE Len(list))

\* The paging metadata of an answer: pages, a count, or nothing.
resultInfo(style, total) ==
  CASE style = "pages" -> [totalPages |-> pagesFor(total, PageSize),
                           total |-> total, perPage |-> PageSize]
    [] style = "count" -> [totalPages |-> 0, total |-> total, perPage |-> PageSize]
    [] style = "none"  -> [totalPages |-> 0, total |-> 0, perPage |-> 0]

(***************************************************************************)
(* The client                                                              *)
(***************************************************************************)

parsePageToken(token) == IF token = NoToken THEN 1 ELSE token

totalPages(info) ==
  IF info.totalPages = 0 /\ info.total > 0 /\ info.perPage > 0
  THEN pagesFor(info.total, info.perPage) ELSE info.totalPages

\* Seeded fault: pages are counted from zero.
nextPageTokenShort(page, info, received) ==
  IF \/ totalPages(info) > 0 /\ page + 1 < totalPages(info)
     \/ totalPages(info) = 0 /\ received = PageSize
  THEN page + 1 ELSE NoToken

nextPageToken(page, info, received) ==
  IF \/ totalPages(info) > 0 /\ page < totalPages(info)
     \/ totalPages(info) = 0 /\ received = PageSize
  THEN page + 1 ELSE NoToken

(***************************************************************************)
(* pagination.Bag: the last state is the current one                       *)
(***************************************************************************)

Push(bag, type) == Append(bag, [type |-> type, token |-> NoToken])

\* Seeded fault: a state that has no further page stays on the stack.
NextTokenKeeping(bag, token) == Append(Front(bag), [Last(bag) EXCEPT !.token = token])

\* Seeded fault: the current state is not popped first.
NextTokenUnpopped(bag, token) ==
  IF token = NoToken THEN Front(bag)
  ELSE Append(bag, [Last(bag) EXCEPT !.token = token])

\* The current state is popped, and pushed again if it has a further page.
NextToken(bag, token) ==
  IF token = NoToken THEN Front(bag)
  ELSE Append(Front(bag), [Last(bag) EXCEPT !.token = token])

=============================================================================
