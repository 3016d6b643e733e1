------------------------------- MODULE Listing -------------------------------
(***************************************************************************)
(* GET /account/otx/{address}: the OTXs of an account in pages, while jobs *)
(* go on signing and committing more of them.  A client moves on with the  *)
(* last id of a page as its cursor, and back with the first.               *)
(*                                                                         *)
(* Rows come in the order of their ids: a page is a set of ids.            *)
(***************************************************************************)
EXTENDS Signing, FiniteSets

CONSTANT MaxPerPage    \* no page is longer: 100 in the code

ASSUME MaxPerPageAssumption == MaxPerPage \in Nat \ {0}

Visible(a) == {o.id : o \in {p \in otx : p.signer = a}}

(* ORDER BY id ASC LIMIT n and ORDER BY id DESC LIMIT n.                   *)
Oldest(ids, n) == {i \in ids : Cardinality({k \in ids : k < i}) < n}
Newest(ids, n) == {i \in ids : Cardinality({k \in ids : k > i}) < n}

GetOTXByAccount(a, n) == Oldest(Visible(a), n)

(* Mutant: the newest OTXs come first.                                     *)
NewestOTXByAccountNext(a, cursor, n) == Newest({i \in Visible(a) : i > cursor}, n)

GetOTXByAccountNext(a, cursor, n) == Oldest({i \in Visible(a) : i > cursor}, n)

(* Mutant: the limit is applied to rows in ascending order.                *)
OldestOTXByAccountPrevious(a, cursor, n) == Oldest({i \in Visible(a) : i < cursor}, n)

GetOTXByAccountPrevious(a, cursor, n) == Newest({i \in Visible(a) : i < cursor}, n)

(* A page is at most MaxPerPage long; without next, a cursor below 1 asks  *)
(* for the first one.                                                      *)
getOTXByAddressHandler(a, next, cursor, perPage) ==
    LET n == IF perPage > MaxPerPage THEN MaxPerPage ELSE perPage
    IN  IF ~next /\ cursor < 1 THEN GetOTXByAccount(a, n)
        ELSE IF next THEN GetOTXByAccountNext(a, cursor, n)
        ELSE GetOTXByAccountPrevious(a, cursor, n)

(* The ids the handler returns with a page, 0 if it is empty.              *)
First(page) == IF page = {} THEN 0 ELSE CHOOSE i \in page : \A k \in page : i <= k
Last(page) == IF page = {} THEN 0 ELSE CHOOSE i \in page : \A k \in page : k <= i
----------------------------------------------------------------------------
(* Properties.                                                             *)

(* What clients send: no cursor, or an id they were given, and more per    *)
(* page than they get.                                                     *)
Cursors(a) == {0} \cup Visible(a)
PerPage == MaxPerPage + 1

(* A full page never changes, whatever is signed, committed or rolled back *)
(* meanwhile: what a client has paged past stays as it was, so that        *)
(* following the last ids shows it every OTX once.                         *)
PagesStable ==
    [][otx' # otx =>
          \A a \in Accounts, next \in BOOLEAN : \A c \in Cursors(a) :
             LET page == getOTXByAddressHandler(a, next, c, PerPage)
             IN  Cardinality(page) = MaxPerPage
                     => getOTXByAddressHandler(a, next, c, PerPage)' = page]_vars

(* Pages adjoin: no OTX lies between a page and the one its last id leads  *)
(* to, and the way back from there leads to the same page.                 *)
PagesAdjoin ==
    \A a \in Accounts : \A c \in Cursors(a) :
        LET page  == getOTXByAddressHandler(a, TRUE, c, PerPage)
            after == getOTXByAddressHandler(a, TRUE, Last(page), PerPage)
        IN  page # {} /\ after # {} =>
                /\ ~\E i \in Visible(a) : Last(page) < i /\ i < First(after)
                /\ getOTXByAddressHandler(a, FALSE, First(after), PerPage) = page
============================================================================
