----------------------------- MODULE SigningKeys -----------------------------
(***************************************************************************)
(* The signing keys of one pipeline: key.register, key.revoke and           *)
(* key.retire, one call each, and key.list, which reads the list page by    *)
(* page while other processes register, approve, revoke and retire keys     *)
(* (internal/remote/handler.go, internal/locktivity/client.go).             *)
(*                                                                          *)
(* The API keeps every key it accepted, newest first, the revoked ones too. *)
(***************************************************************************)
EXTENDS Integers, Sequences, FiniteSets

CONSTANTS
  Keys,
  PerPage      \* SigningKeysPerPage

ASSUME KeysAssumption ==
  /\ IsFiniteSet(Keys)
  /\ PerPage \in Nat \ {0}

Statuses == <<"unknown", "pending", "usable", "retired", "revoked">>

StatusSet == {Statuses[i] : i \in DOMAIN Statuses}

Rank(s) == CHOOSE i \in DOMAIN Statuses : Statuses[i] = s

VARIABLES
  store,     \* the API's list
  status,    \* status[k], "unknown" before its registration
  paged,     \* the API pages the list
  pc,        \* of key.list: "idle", "page", "ok", "failed"
  page,      \* the page it asks for
  all,       \* the entries it collected, or answers
  before     \* every key's status when it began (history)

vars == <<store, status, paged, pc, page, all, before>>

server  == <<store, status, paged>>
listing == <<pc, page, all, before>>

Pages(n) == IF n = 0 THEN 1 ELSE (n + PerPage - 1) \div PerPage

TypeOK ==
  /\ store \in Seq(Keys)
  /\ status \in [Keys -> StatusSet]
  /\ paged \in BOOLEAN
  /\ pc \in {"idle", "page", "ok", "failed"}
  /\ page \in 1..Pages(Cardinality(Keys))
  /\ all \in Seq([key : Keys, status : StatusSet \ {"unknown"}])
  /\ before \in [Keys -> StatusSet]

Init ==
  /\ store = <<>>
  /\ status = [k \in Keys |-> "unknown"]
  /\ paged \in BOOLEAN
  /\ pc = "idle"
  /\ page = 1
  /\ all = <<>>
  /\ before = status

-----------------------------------------------------------------------------
(* The API, and the requests that are one call: the answer arrives or is    *)
(* lost, and the process keeps nothing of it.                                *)

\* A person enters the code of a pending key.
Approve(k) ==
  /\ status[k] = "pending"
  /\ status' = [status EXCEPT ![k] = "usable"]
  /\ UNCHANGED <<store, paged, listing>>

\* A key the API already holds is handed back as it is, and nothing changes.
KeyRegister(k) ==
  /\ status[k] = "unknown"
  /\ store' = <<k>> \o store
  /\ \E first \in {"pending", "usable"} : status' = [status EXCEPT ![k] = first]
  /\ UNCHANGED <<paged, listing>>

KeyRevoke(k) ==
  /\ status[k] # "unknown"
  /\ status' = [status EXCEPT ![k] = "revoked"]
  /\ UNCHANGED <<store, paged, listing>>

KeyRetire(k) ==
  /\ status[k] = "usable"
  /\ status' = [status EXCEPT ![k] = "retired"]
  /\ UNCHANGED <<store, paged, listing>>

Entries(keys) == [i \in DOMAIN keys |-> [key |-> keys[i], status |-> status[keys[i]]]]

Least(m, n) == IF m < n THEN m ELSE n

Answered(n) ==
  Entries(IF paged THEN SubSeq(store, (n - 1) * PerPage + 1, Least(n * PerPage, Len(store)))
          ELSE store)

-----------------------------------------------------------------------------
(* key.list.                                                                 *)

\* A request that means a pipeline, by its configuration or by the manifest of
\* the bundle it runs in; without one it is invalid.
KeyList ==
  /\ pc \in {"idle", "ok", "failed"}
  /\ pc' = "page"
  /\ page' = 1
  /\ all' = <<>>
  /\ before' = status
  /\ UNCHANGED server

\* A mistake: the number of pages there were at first.
LastPageAtFirst == Pages(Cardinality({k \in Keys : before[k] # "unknown"}))

\* Read again with every page.
LastPage == Pages(Len(store))

\* A mistake: the newer pages behind the older ones.
JoinBackwards(pages, entries) == entries \o pages

Join(pages, entries) == pages \o entries

\* A mistake: the first page again.
StayOnPage ==
  /\ pc = "page"
  /\ paged /\ page < LastPage
  /\ all' = all
  /\ UNCHANGED <<server, pc, page, before>>

\* A mistake: it reads on until a page is empty.
ReadUntilEmpty ==
  /\ pc = "page"
  /\ paged /\ Answered(page) # <<>>
  /\ all' = Join(all, Answered(page))
  /\ page' = page + 1
  /\ UNCHANGED <<server, pc, before>>

\* One turn of ListSigningKeys, with more pages to come.
NextPage ==
  /\ pc = "page"
  /\ paged /\ page < LastPage
  /\ all' = Join(all, Answered(page))
  /\ page' = page + 1
  /\ UNCHANGED <<server, pc, before>>

\* The last one.
Finish ==
  /\ pc = "page"
  /\ ~paged \/ page >= LastPage
  /\ all' = Join(all, Answered(page))
  /\ pc' = "ok"
  /\ UNCHANGED <<server, page, before>>

\* A mistake: after an error it begins again and keeps what it has.
FailAndStartOver ==
  /\ pc = "page"
  /\ page' = 1
  /\ UNCHANGED <<server, pc, all, before>>

\* No client, or an error: nothing is answered of the pages read before it.
Fail ==
  /\ pc = "page"
  /\ pc' = "failed"
  /\ all' = <<>>
  /\ UNCHANGED <<server, page, before>>

-----------------------------------------------------------------------------
Next ==
  \/ KeyList \/ NextPage \/ Finish \/ Fail
  \/ \E k \in Keys :
       Approve(k) \/ KeyRegister(k) \/ KeyRevoke(k) \/ KeyRetire(k)

\* A call that does not fail is answered within the client's timeout.
Spec == Init /\ [][Next]_vars /\ WF_vars(NextPage \/ Finish)

-----------------------------------------------------------------------------
(* Properties.                                                               *)

\* A run looks for its own key in the list (client.go:274): a listing that
\* succeeds has every key that was registered when it began, whatever is
\* registered between two of its pages.
EveryKeyListed ==
  pc = "ok" =>
    \A k \in Keys : before[k] # "unknown" => \E i \in DOMAIN all : all[i].key = k

\* The list is newest first (types.go:368): the keys a listing began with come
\* into it in that order, whatever shifts them to a later page.  (Not so the
\* keys that come while it runs, and a key may come twice.)
NewestFirst ==
  \A i \in DOMAIN all, p, q \in DOMAIN store :
    /\ p < q /\ store[q] = all[i].key
    /\ before[store[p]] # "unknown" /\ before[store[q]] # "unknown"
    => \E j \in 1..(i - 1) : all[j].key = store[p]

\* A key comes twice only because others pushed it to a later page: a listing has no
\* more repeats than keys were registered since it began, and of two entries of a key
\* the later one has not the older status (the pages are appended in the order they
\* are read, client.go:288).
RepeatsExplained ==
  /\ Len(all) - Cardinality({all[i].key : i \in DOMAIN all}) <=
       Cardinality({k \in Keys : before[k] = "unknown" /\ status[k] # "unknown"})
  /\ \A i, j \in DOMAIN all :
       i < j /\ all[i].key = all[j].key => Rank(all[i].status) <= Rank(all[j].status)

\* A listing ends although keys come while it runs.
ListingEnds == pc = "page" ~> pc # "page"
=============================================================================
