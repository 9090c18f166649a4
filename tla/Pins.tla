-------------------------------- MODULE Pins ---------------------------------
(***************************************************************************)
(* How a pass reads its pins from the chain node (src/chain.rs,            *)
(* confirmed_pins): the tip, the domains, and then the proposals of every  *)
(* domain, newest first, page by page and domains side by side, while      *)
(* blocks arrive and the chain reorganises between the requests.           *)
(***************************************************************************)
EXTENDS Integers, Sequences, SequencesExt

CONSTANTS
  Domain, Hash,
  PerDomain,     \* CSD_PER_DOMAIN: the page size asked for
  NodeCap,       \* the page size the node caps it at
  MaxPages,      \* MAX_PAGES
  Confirmations, \* CSD_CONFIRMATIONS
  MaxReorg,      \* the deepest reorganisation of the chain
  RpcFails,      \* requests may fail
  MaxTip         \* bound of the model: the chain's last height

ASSUME PinsAssumption ==
  /\ PerDomain \in Nat \ {0} /\ NodeCap \in Nat \ {0} /\ MaxPages \in Nat \ {0}
  /\ Confirmations \in Nat /\ MaxReorg \in Nat /\ MaxReorg <= Confirmations
  /\ RpcFails \in BOOLEAN /\ MaxTip \in Nat

VARIABLES
  feed,   \* domain -> its proposals on the chain, newest first
  tip,    \* the height of the chain
  paginated, \* the node knows ?offset= and sends `total`
  at,     \* where the pass is: "idle", "domains", "paging"
  maxH,   \* the last height that counts as confirmed in this pass
  walk,   \* domain -> how far its paging is
  pins,   \* the hashes the last pass returned
  due,    \* history: the hashes confirmed on the chain when the tip was read
  cut     \* history: a branch, a failed request, a full page without `total`
          \* or MaxPages cut this pass short

chain == <<feed, tip, paginated>>
vars  == <<chain, at, maxH, walk, pins, due, cut>>

Proposal == [h : Hash, height : 1..MaxTip]

Unread == [open |-> FALSE, offset |-> 0, pages |-> 0, all |-> {}]

Init ==
  /\ feed = [d \in Domain |-> <<>>] /\ tip = 0 /\ paginated \in BOOLEAN
  /\ at = "idle" /\ maxH = 0 /\ walk = [d \in Domain |-> Unread]
  /\ pins = {} /\ due = {} /\ cut = FALSE

Listed(height) == {p.h : p \in {q \in UNION {ToSet(feed[d]) : d \in Domain} : q.height <= height}}

(* Mutants: the subtraction does not saturate; every proposal counts.       *)
WrappingHeight(height) == height - Confirmations
NewestHeight(height)   == height

ConfirmedHeight(height) == IF height >= Confirmations THEN height - Confirmations ELSE 0

ReadTip ==
  /\ at = "idle"
  /\ at' = "domains"
  /\ maxH' = ConfirmedHeight(tip)
  /\ due' = Listed(maxH')
  /\ cut' = FALSE
  /\ UNCHANGED <<chain, walk, pins>>

(* A domain is listed from its first proposal on.                           *)
ReadDomains ==
  /\ at = "domains"
  /\ at' = "paging"
  /\ walk' = [d \in Domain |-> [Unread EXCEPT !.open = feed[d] # <<>>]]
  /\ UNCHANGED <<chain, maxH, pins, due, cut>>

(* GET /proposals/:domain/:n?offset=                                        *)
PageSize == IF PerDomain <= NodeCap THEN PerDomain ELSE NodeCap
Page(d, off) ==
  LET from == IF paginated THEN off ELSE 0
      to   == from + PageSize
  IN SubSeq(feed[d], from + 1, IF to <= Len(feed[d]) THEN to ELSE Len(feed[d]))

(* Mutant: a full page is taken for the last.                               *)
LastIfFull(d, got, off) == got <= PerDomain \/ ~paginated \/ off >= Len(feed[d])

(* A short page, a node without pagination, or all of `total` read.         *)
LastPage(d, got, off) == got < PerDomain \/ ~paginated \/ off >= Len(feed[d])

ReadPage(d) ==
  /\ at = "paging"
  /\ walk[d].open
  /\ LET page  == Page(d, walk[d].offset)
         off   == walk[d].offset + Len(page)
         pages == walk[d].pages + 1
         more  == ~LastPage(d, Len(page), off)
     IN /\ walk' = [walk EXCEPT ![d] =
             [open   |-> more /\ pages < MaxPages,
              offset |-> off, pages |-> pages, all |-> @.all \cup ToSet(page)]]
        /\ cut' = \/ cut \/ (more /\ pages = MaxPages)
                  \/ (~paginated /\ Len(page) >= PerDomain)
  /\ UNCHANGED <<chain, at, maxH, pins, due>>

(* Without the domains, or before them the tip, there is no pass.           *)
PassFails ==
  /\ RpcFails
  /\ at = "domains"
  /\ at' = "idle" /\ cut' = TRUE
  /\ UNCHANGED <<chain, maxH, walk, pins, due>>

(* A failed page ends the domain; what was read of it is kept.              *)
PageFails(d) ==
  /\ RpcFails
  /\ at = "paging"
  /\ walk[d].open
  /\ walk' = [walk EXCEPT ![d].open = FALSE]
  /\ cut' = TRUE
  /\ UNCHANGED <<chain, at, maxH, pins, due>>

(* The proposals of all domains, those above maxH left out, one per hash.   *)
Merge ==
  /\ at = "paging"
  /\ \A d \in Domain : ~walk[d].open
  /\ pins' = {p.h : p \in {q \in UNION {walk[d].all : d \in Domain} : q.height <= maxH}}
  /\ at' = "idle"
  /\ walk' = [d \in Domain |-> Unread]
  /\ UNCHANGED <<chain, maxH, due, cut>>

-----------------------------------------------------------------------------
(* The chain: a block with at most one proposal, or a branch that replaces  *)
(* the newest `depth` blocks and is one block longer, with a proposal at    *)
(* any of its heights, or with none.                                        *)

Extend(feeds, d, h, height) ==
  [feeds EXCEPT ![d] = <<[h |-> h, height |-> height]>> \o @]

Block ==
  /\ tip < MaxTip
  /\ tip' = tip + 1
  /\ \/ UNCHANGED feed
     \/ \E d \in Domain, h \in Hash : feed' = Extend(feed, d, h, tip')
  /\ UNCHANGED <<paginated, at, maxH, walk, pins, due, cut>>

Reorg ==
  /\ tip < MaxTip
  /\ tip' = tip + 1
  /\ \E depth \in 1..MaxReorg, gone \in [Domain -> 0..MaxTip] :
       /\ depth <= tip
       /\ \A d \in Domain :
            /\ gone[d] <= Len(feed[d])
            /\ \A i \in DOMAIN feed[d] : i <= gone[d] <=> feed[d][i].height > tip - depth
       /\ LET kept == [d \in Domain |-> SubSeq(feed[d], gone[d] + 1, Len(feed[d]))]
          IN \/ feed' = kept
             \/ \E d \in Domain, h \in Hash, height \in (tip - depth + 1)..tip' :
                  feed' = Extend(kept, d, h, height)
  /\ cut' = (cut \/ at # "idle")
  /\ UNCHANGED <<paginated, at, maxH, walk, pins, due>>

(* The node is replaced by one that paginates.                              *)
Upgrade ==
  /\ ~paginated
  /\ paginated' = TRUE
  /\ UNCHANGED <<feed, tip, at, maxH, walk, pins, due, cut>>

Pass == ReadTip \/ ReadDomains \/ PassFails \/ (\E d \in Domain : ReadPage(d) \/ PageFails(d)) \/ Merge

Next == Pass \/ Block \/ Reorg \/ Upgrade

Spec == Init /\ [][Next]_vars

-----------------------------------------------------------------------------
(* Properties.                                                             *)

(* Every variable holds a value of its kind; no walk is longer than its     *)
(* bound.                                                                   *)
Walk == [open : BOOLEAN, offset : Nat, pages : 0..MaxPages, all : SUBSET Proposal]
TypeOK ==
  /\ feed \in [Domain -> Seq(Proposal)] /\ tip \in 0..MaxTip
  /\ paginated \in BOOLEAN /\ at \in {"idle", "domains", "paging"} /\ maxH \in Nat
  /\ walk \in [Domain -> Walk]
  /\ pins \subseteq Hash /\ due \subseteq Hash /\ cut \in BOOLEAN

(* chain.rs:91-94, main.rs:55-58: a pass returns every hash that was        *)
(* confirmed when it began, although the feeds grow while it pages; unless  *)
(* a branch replaced blocks between its pages, a request failed, a feed was *)
(* longer than MAX_PAGES pages, or longer than one on a node without pages. *)
NothingSkipped == at = "idle" /\ ~cut => due \subseteq pins

(* README.md:49, main.rs:16: what a pass returns is confirmed, in every     *)
(* page, whatever blocks and branches come between its requests, and no     *)
(* later branch takes it off the chain.                                     *)
PinsConfirmed ==
  \A h \in pins : \E d \in Domain : \E p \in ToSet(feed[d]) :
    p.h = h /\ p.height + Confirmations <= tip
=============================================================================
