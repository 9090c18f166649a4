------------------------------ MODULE PinsProofs ------------------------------
(***************************************************************************)
(* Proofs about Pins, for any domains, hashes, page sizes, bounds and      *)
(* chain.                                                                  *)
(***************************************************************************)
EXTENDS Pins, SequenceTheorems, TLAPS

(* A walk that goes on has a page left, and one that has read a page goes   *)
(* on only on a node with pages.                                            *)
WalkGoesOn ==
  \A d \in Domain : walk[d].open =>
    walk[d].pages < MaxPages /\ (paginated \/ walk[d].offset = 0)

(* What counts as confirmed in this pass is so on the chain.                *)
Headroom == maxH = 0 \/ maxH + Confirmations <= tip

(* The confirmed part of what a pass has read is on the chain.              *)
ReadIsListed ==
  /\ at # "paging" => \A d \in Domain : walk[d].all = {}
  /\ \A d \in Domain : \A p \in walk[d].all : p.height <= maxH => p \in ToSet(feed[d])

PInv == TypeOK /\ WalkGoesOn /\ Headroom /\ ReadIsListed /\ PinsConfirmed

-----------------------------------------------------------------------------
(* Sequences.                                                              *)

LEMMA InToSet ==
  ASSUME NEW S, NEW s \in Seq(S)
  PROVE  /\ \A p : p \in ToSet(s) <=> \E i \in 1..Len(s) : p = s[i]
         /\ \A p \in ToSet(s) : p \in S
BY DEF ToSet

(* A block puts its proposal before the others.                             *)
LEMMA PushedFirst ==
  ASSUME NEW S, NEW s \in Seq(S), NEW p \in S
  PROVE  /\ <<p>> \o s \in Seq(S)
         /\ Len(<<p>> \o s) = Len(s) + 1
         /\ (<<p>> \o s)[1] = p
         /\ \A i \in 1..Len(s) : (<<p>> \o s)[i + 1] = s[i]
         /\ ToSet(s) \subseteq ToSet(<<p>> \o s)
<1>1. <<p>> \in Seq(S) /\ Len(<<p>>) = 1 /\ <<p>>[1] = p
  OBVIOUS
<1> DEFINE t == <<p>> \o s
<1>2. /\ t \in Seq(S) /\ Len(t) = 1 + Len(s)
      /\ \A i \in 1..1 + Len(s) : t[i] = IF i <= 1 THEN <<p>>[i] ELSE s[i - 1]
  BY <1>1, ConcatProperties
<1>3. Len(s) \in Nat
  OBVIOUS
<1> HIDE DEF t
<1>4. t[1] = p /\ \A i \in 1..Len(s) : t[i + 1] = s[i]
  BY <1>1, <1>2, <1>3
<1>5. ToSet(s) \subseteq ToSet(t)
  BY <1>2, <1>3, <1>4, InToSet
<1> QED BY <1>2, <1>3, <1>4, <1>5 DEF t

(* The entries of a part of a feed.                                         *)
LEMMA PartOf ==
  ASSUME NEW S, NEW s \in Seq(S), NEW m \in Nat, NEW n \in Nat, n <= Len(s)
  PROVE  /\ SubSeq(s, m + 1, n) \in Seq(S)
         /\ Len(SubSeq(s, m + 1, n)) = IF m < n THEN n - m ELSE 0
         /\ \A i \in m + 1..n : s[i] \in ToSet(SubSeq(s, m + 1, n))
         /\ ToSet(SubSeq(s, m + 1, n)) \subseteq ToSet(s)
<1> DEFINE t == SubSeq(s, m + 1, n)
<1>1. \A i \in m + 1..n : s[i] \in S
  OBVIOUS
<1>2. /\ t \in Seq(S) /\ Len(t) = (IF m + 1 <= n THEN n - (m + 1) + 1 ELSE 0)
      /\ \A i \in 1..n - (m + 1) + 1 : t[i] = s[(m + 1) + i - 1]
  BY <1>1, SubSeqProperties
<1> HIDE DEF t
<1>3. \A i \in 1..Len(t) : t[i] = s[m + i] /\ m + i \in m + 1..n
  BY <1>2
<1>4. ASSUME NEW i \in m + 1..n PROVE s[i] \in ToSet(t)
  <2>1. i - m \in 1..Len(t) /\ m + (i - m) = i
    BY <1>2
  <2> QED BY <2>1, <1>2, <1>3, InToSet
<1>5. ToSet(t) \subseteq ToSet(s)
  BY <1>2, <1>3, InToSet
<1> QED BY <1>2, <1>4, <1>5 DEF t

-----------------------------------------------------------------------------
(* The chain's steps, by what they do to the feeds.                        *)

(* A proposal that reaches a feed is one, and those below it stay.          *)
LEMMA ExtendKeeps ==
  ASSUME NEW feeds \in [Domain -> Seq(Proposal)], NEW d \in Domain, NEW h \in Hash,
         NEW height \in 1..MaxTip
  PROVE  /\ Extend(feeds, d, h, height) \in [Domain -> Seq(Proposal)]
         /\ \A e \in Domain : ToSet(feeds[e]) \subseteq ToSet(Extend(feeds, d, h, height)[e])
<1> DEFINE p == [h |-> h, height |-> height]
<1>1. p \in Proposal
  BY DEF Proposal
<1> HIDE DEF p
<1>2. <<p>> \o feeds[d] \in Seq(Proposal) /\ ToSet(feeds[d]) \subseteq ToSet(<<p>> \o feeds[d])
  BY <1>1, PushedFirst
<1>3. Extend(feeds, d, h, height) = [feeds EXCEPT ![d] = <<p>> \o feeds[d]]
  BY DEF Extend, p
<1> HIDE DEF Extend
<1> QED BY <1>2, <1>3

(* A block or a branch: the feeds stay feeds, the chain gets longer, and    *)
(* what was confirmed stays listed.                                         *)
ConfirmedStays ==
  /\ feed' \in [Domain -> Seq(Proposal)]
  /\ tip' \in 0..MaxTip /\ tip <= tip'
  /\ \A d \in Domain : \A p \in ToSet(feed[d]) :
       p.height + Confirmations <= tip => p \in ToSet(feed'[d])

LEMMA BlockKeeps ==
  ASSUME TypeOK, Block
  PROVE  ConfirmedStays
<1>1. /\ tip' \in 1..MaxTip /\ tip' \in 0..MaxTip /\ tip <= tip'
      /\ feed \in [Domain -> Seq(Proposal)]
  BY PinsAssumption DEF Block, TypeOK
<1>2. CASE feed' = feed
  BY <1>1, <1>2 DEF ConfirmedStays
<1>3. ASSUME NEW d \in Domain, NEW h \in Hash, feed' = Extend(feed, d, h, tip')
      PROVE  ConfirmedStays
  <2>1. /\ Extend(feed, d, h, tip') \in [Domain -> Seq(Proposal)]
        /\ \A e \in Domain : ToSet(feed[e]) \subseteq ToSet(Extend(feed, d, h, tip')[e])
    BY <1>1, ExtendKeeps
  <2> QED BY <1>1, <1>3, <2>1 DEF ConfirmedStays
<1>4. feed' = feed \/ \E d \in Domain, h \in Hash : feed' = Extend(feed, d, h, tip')
  BY DEF Block
<1> QED BY <1>2, <1>3, <1>4

LEMMA ReorgKeeps ==
  ASSUME TypeOK, Reorg
  PROVE  ConfirmedStays
<1> USE PinsAssumption
<1>1. tip' \in 1..MaxTip /\ tip <= tip' /\ tip \in 0..MaxTip
  BY DEF Reorg, TypeOK
<1>2. PICK depth \in 1..MaxReorg, gone \in [Domain -> 0..MaxTip] :
        /\ depth <= tip
        /\ \A d \in Domain :
             /\ gone[d] <= Len(feed[d])
             /\ \A i \in DOMAIN feed[d] : i <= gone[d] <=> feed[d][i].height > tip - depth
        /\ LET kept == [d \in Domain |-> SubSeq(feed[d], gone[d] + 1, Len(feed[d]))]
           IN \/ feed' = kept
              \/ \E d \in Domain, h \in Hash, height \in (tip - depth + 1)..tip' :
                   feed' = Extend(kept, d, h, height)
  BY DEF Reorg
<1> DEFINE kept == [d \in Domain |-> SubSeq(feed[d], gone[d] + 1, Len(feed[d]))]
<1>3. ASSUME NEW d \in Domain
      PROVE  /\ kept[d] \in Seq(Proposal)
             /\ \A i \in gone[d] + 1..Len(feed[d]) : feed[d][i] \in ToSet(kept[d])
  <2>1. feed[d] \in Seq(Proposal) /\ Len(feed[d]) \in Nat /\ gone[d] \in Nat
    BY DEF TypeOK
  <2>2. /\ SubSeq(feed[d], gone[d] + 1, Len(feed[d])) \in Seq(Proposal)
        /\ \A i \in gone[d] + 1..Len(feed[d]) :
             feed[d][i] \in ToSet(SubSeq(feed[d], gone[d] + 1, Len(feed[d])))
    <3> HIDE DEF kept
    <3> QED BY ONLY <2>1, PartOf
  <2>3. kept[d] = SubSeq(feed[d], gone[d] + 1, Len(feed[d]))
    OBVIOUS
  <2> QED BY <2>2, <2>3, Zenon
<1>4. ASSUME NEW d \in Domain, NEW p \in ToSet(feed[d]), p.height + Confirmations <= tip
      PROVE  p \in ToSet(kept[d])
  <2>1. feed[d] \in Seq(Proposal) /\ Len(feed[d]) \in Nat
    BY DEF TypeOK
  <2>2. PICK i \in 1..Len(feed[d]) : p = feed[d][i]
    BY <2>1, InToSet
  <2>3. p.height \in Nat
    <3>1. p \in Proposal
      BY <2>1, <2>2
    <3> QED BY ONLY <3>1, PinsAssumption DEF Proposal
  <2>4. ~(p.height > tip - depth)
    <3>1. depth \in Nat /\ depth <= Confirmations
      BY <1>2
    <3> QED BY <1>1, <2>3, <1>4, <3>1
  <2>5. ~(i <= gone[d])
    BY <1>2, <2>1, <2>2, <2>4
  <2> QED BY <1>3, <2>1, <2>2, <2>5
<1>5. kept \in [Domain -> Seq(Proposal)]
  <2> DEFINE part(d) == SubSeq(feed[d], gone[d] + 1, Len(feed[d]))
  <2>1. \A d \in Domain : part(d) \in Seq(Proposal)
    BY <1>3
  <2> HIDE DEF part
  <2>2. [d \in Domain |-> part(d)] \in [Domain -> Seq(Proposal)]
    BY <2>1
  <2> QED BY <2>2 DEF part
<1>6. CASE feed' = kept
  BY <1>1, <1>4, <1>5, <1>6 DEF ConfirmedStays
<1>7. ASSUME NEW d \in Domain, NEW h \in Hash, NEW height \in (tip - depth + 1)..tip',
             feed' = Extend(kept, d, h, height)
      PROVE  ConfirmedStays
  <2> HIDE DEF kept
  <2>1. height \in 1..MaxTip
    BY <1>1, <1>2
  <2>2. /\ Extend(kept, d, h, height) \in [Domain -> Seq(Proposal)]
        /\ \A e \in Domain : ToSet(kept[e]) \subseteq ToSet(Extend(kept, d, h, height)[e])
    BY <1>5, <2>1, ExtendKeeps
  <2> QED BY <1>1, <1>4, <1>7, <2>2 DEF ConfirmedStays
<1> QED BY <1>2, <1>6, <1>7

-----------------------------------------------------------------------------
(* A page is a part of the feed.                                           *)

From(off) == IF paginated THEN off ELSE 0
To(d, off) ==
  IF From(off) + PageSize <= Len(feed[d]) THEN From(off) + PageSize ELSE Len(feed[d])

LEMMA PageIsPart ==
  ASSUME TypeOK, NEW d \in Domain, NEW off \in Nat
  PROVE  /\ Page(d, off) \in Seq(Proposal)
         /\ Len(Page(d, off)) = IF From(off) < To(d, off) THEN To(d, off) - From(off) ELSE 0
         /\ \A i \in From(off) + 1..To(d, off) : feed[d][i] \in ToSet(Page(d, off))
         /\ ToSet(Page(d, off)) \subseteq ToSet(feed[d])
         /\ From(off) \in Nat /\ To(d, off) \in Nat /\ Len(Page(d, off)) \in Nat
<1>1. feed[d] \in Seq(Proposal) /\ Len(feed[d]) \in Nat /\ PageSize \in Nat
  BY PinsAssumption DEF TypeOK, PageSize
<1>2. From(off) \in Nat /\ To(d, off) \in Nat /\ To(d, off) <= Len(feed[d])
  BY <1>1 DEF From, To
<1>3. Page(d, off) = SubSeq(feed[d], From(off) + 1, To(d, off))
  BY DEF Page, From, To
<1> HIDE DEF From, To, Page
<1>4. /\ SubSeq(feed[d], From(off) + 1, To(d, off)) \in Seq(Proposal)
      /\ Len(SubSeq(feed[d], From(off) + 1, To(d, off)))
           = IF From(off) < To(d, off) THEN To(d, off) - From(off) ELSE 0
      /\ \A i \in From(off) + 1..To(d, off) :
           feed[d][i] \in ToSet(SubSeq(feed[d], From(off) + 1, To(d, off)))
      /\ ToSet(SubSeq(feed[d], From(off) + 1, To(d, off))) \subseteq ToSet(feed[d])
  BY ONLY <1>1, <1>2, PartOf
<1>5. (IF From(off) < To(d, off) THEN To(d, off) - From(off) ELSE 0) \in Nat
  BY <1>2
<1> QED BY <1>2, <1>3, <1>4, <1>5, Zenon

-----------------------------------------------------------------------------
(* The invariant.                                                          *)

LEMMA InitPInv == Init => PInv
<1> SUFFICES ASSUME Init PROVE PInv
  OBVIOUS
<1> USE PinsAssumption DEF Init
<1>1. Unread \in Walk
  BY DEF Unread, Walk
<1>2. TypeOK
  <2>1. feed \in [Domain -> Seq(Proposal)]
    BY DEF Proposal
  <2>2. walk \in [Domain -> Walk]
    BY <1>1
  <2>3. tip \in 0..MaxTip /\ pins \subseteq Hash /\ due \subseteq Hash
    OBVIOUS
  <2> QED BY <2>1, <2>2, <2>3 DEF TypeOK
<1>3. WalkGoesOn /\ ReadIsListed
  BY DEF WalkGoesOn, ReadIsListed, Unread
<1>4. Headroom /\ PinsConfirmed
  BY DEF Headroom, PinsConfirmed
<1> QED BY <1>2, <1>3, <1>4 DEF PInv

(* What ReadPage makes of a domain's walk.                                  *)
PageRead(d) ==
  LET page  == Page(d, walk[d].offset)
      off   == walk[d].offset + Len(page)
      pages == walk[d].pages + 1
      more  == ~LastPage(d, Len(page), off)
  IN [open   |-> more /\ pages < MaxPages,
      offset |-> off, pages |-> pages, all |-> walk[d].all \cup ToSet(page)]

LEMMA PageReadOK ==
  ASSUME TypeOK, WalkGoesOn, NEW d \in Domain, walk[d].open
  PROVE  /\ PageRead(d) \in Walk
         /\ PageRead(d).open => PageRead(d).pages < MaxPages /\ paginated
         /\ PageRead(d).all \subseteq walk[d].all \cup ToSet(feed[d])
<1> DEFINE page  == Page(d, walk[d].offset)
           off   == walk[d].offset + Len(page)
           pages == walk[d].pages + 1
           more  == ~LastPage(d, Len(page), off)
<1>1. /\ walk[d].offset \in Nat /\ walk[d].pages \in 0..MaxPages
      /\ walk[d].all \subseteq Proposal /\ walk[d].pages < MaxPages
  BY DEF TypeOK, Walk, WalkGoesOn
<1>2. /\ page \in Seq(Proposal) /\ Len(page) \in Nat
      /\ ToSet(page) \subseteq ToSet(feed[d])
  BY <1>1, PageIsPart
<1>3. PageRead(d) = [open |-> more /\ pages < MaxPages, offset |-> off,
                     pages |-> pages, all |-> walk[d].all \cup ToSet(page)]
  BY DEF PageRead
<1>4. more => paginated
  BY DEF LastPage
<1>5. ToSet(page) \subseteq Proposal
  BY <1>2, InToSet
<1> HIDE DEF page, more
<1>6. off \in Nat /\ pages \in 0..MaxPages
  BY <1>1, <1>2, PinsAssumption
<1> HIDE DEF off, pages
<1> DEFINE on == more /\ pages < MaxPages
<1>7. on \in BOOLEAN
  OBVIOUS
<1>8. on => pages < MaxPages /\ paginated
  BY <1>4
<1>9. PageRead(d) = [open |-> on, offset |-> off, pages |-> pages,
                     all |-> walk[d].all \cup ToSet(page)]
  BY <1>3
<1> HIDE DEF on
<1>10. PageRead(d) \in Walk
  BY <1>1, <1>5, <1>6, <1>7, <1>9 DEF Walk
<1> QED BY <1>2, <1>8, <1>9, <1>10

LEMMA StepTypeOK ==
  ASSUME PInv, [Next]_vars
  PROVE  TypeOK'
<1> USE PinsAssumption DEF PInv
<1>0. /\ feed \in [Domain -> Seq(Proposal)] /\ tip \in 0..MaxTip /\ tip \in Nat
      /\ paginated \in BOOLEAN /\ at \in {"idle", "domains", "paging"} /\ maxH \in Nat
      /\ walk \in [Domain -> Walk] /\ pins \subseteq Hash /\ due \subseteq Hash /\ cut \in BOOLEAN
  BY DEF TypeOK
<1>1. CASE UNCHANGED vars
  BY <1>0, <1>1 DEF vars, chain, TypeOK
<1>2. CASE ReadTip
  <2>1. ConfirmedHeight(tip) \in Nat
    BY <1>0 DEF ConfirmedHeight
  <2>2. due' \subseteq Hash
    <3>1. \A d \in Domain : \A p \in ToSet(feed[d]) : p.h \in Hash
      <4>1. ASSUME NEW d \in Domain, NEW p \in ToSet(feed[d]) PROVE p \in Proposal
        BY <1>0, InToSet
      <4> QED BY <4>1 DEF Proposal
    <3> QED BY <1>2, <3>1 DEF ReadTip, Listed
  <2> QED BY <1>0, <1>2, <2>1, <2>2 DEF ReadTip, chain, TypeOK
<1>3. CASE ReadDomains
  <2>1. ASSUME NEW b \in BOOLEAN PROVE [Unread EXCEPT !.open = b] \in Walk
    BY DEF Unread, Walk
  <2>2. walk' \in [Domain -> Walk]
    BY <1>3, <2>1 DEF ReadDomains
  <2> QED BY <1>0, <1>3, <2>2 DEF ReadDomains, chain, TypeOK
<1>4. CASE PassFails
  BY <1>0, <1>4 DEF PassFails, chain, TypeOK
<1>5. ASSUME NEW d \in Domain, ReadPage(d) PROVE TypeOK'
  <2>1. walk' = [walk EXCEPT ![d] = PageRead(d)] /\ walk[d].open
    BY <1>5 DEF ReadPage, PageRead
  <2>2. PageRead(d) \in Walk
    BY <2>1, PageReadOK
  <2>3. walk' \in [Domain -> Walk]
    BY <1>0, <2>1, <2>2
  <2>4. cut' \in BOOLEAN
    BY <1>0, <1>5 DEF ReadPage
  <2> QED BY <1>0, <1>5, <2>3, <2>4 DEF ReadPage, chain, TypeOK
<1>6. ASSUME NEW d \in Domain, PageFails(d) PROVE TypeOK'
  <2>1. ASSUME NEW w \in Walk PROVE [w EXCEPT !.open = FALSE] \in Walk
    BY DEF Walk
  <2>2. walk' = [walk EXCEPT ![d] = [walk[d] EXCEPT !.open = FALSE]]
    BY <1>6 DEF PageFails
  <2>3. walk' \in [Domain -> Walk]
    BY <1>0, <2>1, <2>2
  <2> QED BY <1>0, <1>6, <2>3 DEF PageFails, chain, TypeOK
<1>7. CASE Merge
  <2>1. Unread \in Walk
    BY DEF Unread, Walk
  <2>2. \A d \in Domain : \A p \in walk[d].all : p.h \in Hash
    <3>1. \A d \in Domain : walk[d].all \subseteq Proposal
      BY <1>0 DEF Walk
    <3> QED BY <3>1 DEF Proposal
  <2>3. pins' \subseteq Hash
    BY <1>7, <2>2 DEF Merge
  <2> QED BY <1>0, <1>7, <2>1, <2>3 DEF Merge, chain, TypeOK
<1>8. CASE Block
  BY <1>0, <1>8, BlockKeeps DEF Block, ConfirmedStays, TypeOK
<1>9. CASE Reorg
  <2>1. cut' \in BOOLEAN /\ UNCHANGED <<paginated, at, maxH, walk, pins, due>>
    BY <1>0, <1>9 DEF Reorg
  <2> QED BY <1>0, <1>9, <2>1, ReorgKeeps DEF ConfirmedStays, TypeOK
<1>10. CASE Upgrade
  BY <1>0, <1>10 DEF Upgrade, TypeOK
<1> QED BY <1>1, <1>2, <1>3, <1>4, <1>5, <1>6, <1>7, <1>8, <1>9, <1>10 DEF Next, Pass

(* A confirmed proposal of this pass is not undone under it.                *)
LEMMA ChainStep ==
  ASSUME PInv, ConfirmedStays, UNCHANGED <<at, maxH, walk, pins>>, TypeOK',
         paginated => paginated'
  PROVE  WalkGoesOn' /\ Headroom' /\ ReadIsListed' /\ PinsConfirmed'
<1> USE PinsAssumption DEF PInv
<1>1. WalkGoesOn'
  BY DEF WalkGoesOn
<1>2. tip \in Nat /\ tip' \in Nat /\ tip <= tip' /\ maxH \in Nat
  BY DEF TypeOK, ConfirmedStays
<1>3. Headroom'
  BY <1>2 DEF Headroom
<1>4. ReadIsListed'
  <2>1. ASSUME NEW d \in Domain, NEW p \in walk[d].all, p.height <= maxH
        PROVE  p \in ToSet(feed'[d])
    <3>1. p \in Proposal
      BY DEF TypeOK, Walk
    <3>2. p.height \in Nat /\ p.height >= 1
      BY ONLY <3>1, PinsAssumption DEF Proposal
    <3>3. p.height + Confirmations <= tip
      BY <1>2, <2>1, <3>2 DEF Headroom
    <3>4. p \in ToSet(feed[d])
      BY <2>1 DEF ReadIsListed
    <3> QED BY <3>3, <3>4 DEF ConfirmedStays
  <2> QED BY <2>1 DEF ReadIsListed
<1>5. PinsConfirmed'
  <2>1. ASSUME NEW h \in pins
        PROVE  \E d \in Domain : \E p \in ToSet(feed'[d]) : p.h = h /\ p.height + Confirmations <= tip'
    <3>1. PICK d \in Domain : \E p \in ToSet(feed[d]) : p.h = h /\ p.height + Confirmations <= tip
      BY DEF PinsConfirmed
    <3> PICK p \in ToSet(feed[d]) : p.h = h /\ p.height + Confirmations <= tip
      BY <3>1
    <3>2. p \in Proposal
      <4>1. feed[d] \in Seq(Proposal)
        BY DEF TypeOK
      <4> QED BY <4>1, InToSet
    <3>3. p.height \in Nat
      BY ONLY <3>2, PinsAssumption DEF Proposal
    <3>4. p \in ToSet(feed'[d]) /\ p.height + Confirmations <= tip'
      BY <1>2, <3>1, <3>3 DEF ConfirmedStays
    <3> QED BY <3>1, <3>4
  <2> QED BY <2>1 DEF PinsConfirmed
<1> QED BY <1>1, <1>3, <1>4, <1>5

LEMMA StepPInv ==
  ASSUME PInv, [Next]_vars
  PROVE  PInv'
<1>0. TypeOK'
  BY StepTypeOK
<1> SUFFICES WalkGoesOn' /\ Headroom' /\ ReadIsListed' /\ PinsConfirmed'
  BY <1>0 DEF PInv
<1>1. CASE UNCHANGED vars
  BY <1>1 DEF PInv, WalkGoesOn, Headroom, ReadIsListed, PinsConfirmed, vars, chain
<1>2. CASE ReadTip
  <2>1. tip \in Nat
    BY DEF PInv, TypeOK
  <2>2. Headroom'
    BY <1>2, <2>1, PinsAssumption DEF ReadTip, ConfirmedHeight, Headroom, chain
  <2>3. ReadIsListed'
    BY <1>2 DEF ReadTip, PInv, ReadIsListed, chain
  <2> QED BY <1>2, <2>2, <2>3 DEF ReadTip, PInv, WalkGoesOn, PinsConfirmed, chain
<1>3. CASE ReadDomains
  <2>1. \A d \in Domain : walk'[d].pages = 0 /\ walk'[d].offset = 0 /\ walk'[d].all = {}
    BY <1>3 DEF ReadDomains, Unread
  <2>2. WalkGoesOn' /\ ReadIsListed'
    BY <1>3, <2>1, PinsAssumption DEF WalkGoesOn, ReadIsListed
  <2> QED BY <1>3, <2>2 DEF ReadDomains, PInv, Headroom, PinsConfirmed, chain
<1>4. CASE PassFails
  BY <1>4 DEF PassFails, PInv, WalkGoesOn, Headroom, ReadIsListed, PinsConfirmed, chain
<1>5. ASSUME NEW d \in Domain, ReadPage(d)
      PROVE  WalkGoesOn' /\ Headroom' /\ ReadIsListed' /\ PinsConfirmed'
  <2>1. /\ walk' = [walk EXCEPT ![d] = PageRead(d)] /\ walk[d].open /\ at = "paging"
        /\ UNCHANGED <<feed, tip, paginated, at, maxH, pins>>
    BY <1>5 DEF ReadPage, PageRead, chain
  <2>2. walk \in [Domain -> Walk]
    BY DEF PInv, TypeOK
  <2>3. /\ PageRead(d).open => PageRead(d).pages < MaxPages /\ paginated
        /\ PageRead(d).all \subseteq walk[d].all \cup ToSet(feed[d])
    BY <2>1, PageReadOK DEF PInv
  <2>4. WalkGoesOn'
    BY <2>1, <2>2, <2>3 DEF PInv, WalkGoesOn
  <2>5. ReadIsListed'
    BY <2>1, <2>2, <2>3 DEF PInv, ReadIsListed
  <2> QED BY <2>1, <2>4, <2>5 DEF PInv, Headroom, PinsConfirmed
<1>6. ASSUME NEW d \in Domain, PageFails(d)
      PROVE  WalkGoesOn' /\ Headroom' /\ ReadIsListed' /\ PinsConfirmed'
  <2>1. walk \in [Domain -> Walk]
    BY DEF PInv, TypeOK
  <2>2. \A e \in Domain : /\ walk'[e].all = walk[e].all
                          /\ walk'[e].open => walk'[e] = walk[e]
    BY <1>6, <2>1 DEF PageFails, Walk
  <2>3. WalkGoesOn' /\ ReadIsListed'
    BY <1>6, <2>2 DEF PageFails, PInv, WalkGoesOn, ReadIsListed, chain
  <2> QED BY <1>6, <2>3 DEF PageFails, PInv, Headroom, PinsConfirmed, chain
<1>7. CASE Merge
  <2>1. WalkGoesOn' /\ ReadIsListed'
    BY <1>7 DEF Merge, Unread, WalkGoesOn, ReadIsListed
  <2>2. ASSUME NEW h \in pins'
        PROVE  \E d \in Domain : \E p \in ToSet(feed[d]) : p.h = h /\ p.height + Confirmations <= tip
    <3>1. PICK d \in Domain : \E p \in walk[d].all : p.h = h /\ p.height <= maxH
      BY <1>7 DEF Merge
    <3> PICK p \in walk[d].all : p.h = h /\ p.height <= maxH
      BY <3>1
    <3>2. p \in Proposal
      BY DEF PInv, TypeOK, Walk
    <3>3. p.height \in Nat /\ p.height >= 1
      BY ONLY <3>2, PinsAssumption DEF Proposal
    <3>4. tip \in Nat /\ maxH \in Nat
      BY DEF PInv, TypeOK
    <3>5. p.height + Confirmations <= tip
      BY <3>1, <3>3, <3>4, PinsAssumption DEF PInv, Headroom
    <3>6. p \in ToSet(feed[d])
      BY <3>1 DEF PInv, ReadIsListed
    <3> QED BY <3>1, <3>5, <3>6
  <2>3. PinsConfirmed'
    BY <1>7, <2>2 DEF Merge, PinsConfirmed, chain
  <2> QED BY <1>7, <2>1, <2>3 DEF Merge, PInv, Headroom, chain
<1>8. CASE Block
  BY <1>0, <1>8, BlockKeeps, ChainStep DEF Block, PInv
<1>9. CASE Reorg
  BY <1>0, <1>9, ReorgKeeps, ChainStep DEF Reorg, PInv
<1>10. CASE Upgrade
  BY <1>10 DEF Upgrade, PInv, WalkGoesOn, Headroom, ReadIsListed, PinsConfirmed
<1> QED BY <1>1, <1>2, <1>3, <1>4, <1>5, <1>6, <1>7, <1>8, <1>9, <1>10 DEF Next, Pass

THEOREM InvariantHolds == Spec => []PInv
<1>1. PInv /\ [Next]_vars => PInv'
  BY StepPInv
<1> QED BY <1>1, InitPInv, PTL DEF Spec

(* Every variable of Pins holds a value of its kind, whatever the page      *)
(* sizes, and no domain is asked for more than MAX_PAGES pages              *)
(* (src/chain.rs, confirmed_pins).                                          *)
THEOREM PinsTypeCorrect == Spec => []TypeOK
<1>1. PInv => TypeOK
  BY DEF PInv
<1> QED BY <1>1, InvariantHolds, PTL

(* What confirmed_pins (src/chain.rs) returns is confirmed on the chain and *)
(* no branch of at most MaxReorg <= Confirmations blocks undoes it, whatever*)
(* the page size, the pages and the faults.                                 *)
THEOREM PinsAreConfirmed == Spec => []PinsConfirmed
<1>1. PInv => PinsConfirmed
  BY DEF PInv
<1> QED BY <1>1, InvariantHolds, PTL

-----------------------------------------------------------------------------
(* Nothing is skipped. What a domain's walk has passed is read, or is above *)
(* maxH, as long as nothing cut the pass short.                             *)

Passed(d, i) == walk[d].open => i <= walk[d].offset

PassedIsRead ==
  at = "paging" => \A d \in Domain : \A i \in 1..Len(feed[d]) :
    Passed(d, i) => feed[d][i] \in walk[d].all \/ feed[d][i].height > maxH

DueIsListed == at # "idle" => due \subseteq Listed(maxH)

SInv ==
  /\ PInv
  /\ maxH <= tip
  /\ ~cut => PassedIsRead /\ DueIsListed /\ NothingSkipped

(* The step that needs the page size to be within the node's cap: a page    *)
(* shorter than asked for is the last one.                                  *)
LEMMA PageCovers ==
  ASSUME PerDomain <= NodeCap, PInv, PassedIsRead, at = "paging",
         NEW d \in Domain, ReadPage(d), ~cut', NEW i \in 1..Len(feed[d]),
         PageRead(d).open => i <= PageRead(d).offset
  PROVE  feed[d][i] \in PageRead(d).all \/ feed[d][i].height > maxH
<1> DEFINE prev  == walk[d].offset
           page  == Page(d, prev)
           got   == Len(page)
           off   == prev + got
           pages == walk[d].pages + 1
           more  == ~LastPage(d, got, off)
<1>1. /\ walk[d].offset \in Nat /\ walk[d].pages \in Nat /\ walk[d].pages < MaxPages
      /\ walk[d].open /\ (paginated \/ prev = 0)
  BY DEF ReadPage, PInv, TypeOK, Walk, WalkGoesOn
<1>2. /\ got = IF From(prev) < To(d, prev) THEN To(d, prev) - From(prev) ELSE 0
      /\ \A j \in From(prev) + 1..To(d, prev) : feed[d][j] \in ToSet(page)
      /\ got \in Nat
  BY <1>1, PageIsPart DEF PInv
<1>3. PageSize = PerDomain /\ PerDomain \in Nat \ {0} /\ MaxPages \in Nat
  BY PinsAssumption DEF PageSize
<1>4. From(prev) = prev
  BY <1>1 DEF From
<1>5. Len(feed[d]) \in Nat
  BY DEF PInv, TypeOK
<1>6. To(d, prev) = IF prev + PerDomain <= Len(feed[d]) THEN prev + PerDomain ELSE Len(feed[d])
  BY <1>3, <1>4 DEF To
<1>7. PageRead(d) = [open |-> more /\ pages < MaxPages, offset |-> off,
                     pages |-> pages, all |-> walk[d].all \cup ToSet(page)]
  BY DEF PageRead
<1>8. ~(more /\ pages = MaxPages) /\ ~(~paginated /\ got >= PerDomain)
  BY DEF ReadPage
<1>9. LastPage(d, got, off) <=> got < PerDomain \/ ~paginated \/ off >= Len(feed[d])
  BY DEF LastPage
<1>10. prev \in Nat /\ got \in Nat /\ off = prev + got
  BY <1>1, <1>2
<1>11. pages < MaxPages \/ pages = MaxPages
  BY <1>1, <1>3
<1>12. PageRead(d).open <=> (more /\ pages < MaxPages)
  <2> DEFINE on == more /\ pages < MaxPages
  <2>1. PageRead(d).open = on
    <3>1. PageRead(d) = [open |-> on, offset |-> off, pages |-> pages,
                         all |-> walk[d].all \cup ToSet(page)]
      BY <1>7
    <3> HIDE DEF on, off, pages, page
    <3> QED BY <3>1
  <2> QED BY <2>1
<1>13. PageRead(d).offset = off /\ PageRead(d).all = walk[d].all \cup ToSet(page)
  BY <1>7
<1>14. more <=> ~LastPage(d, got, off)
  OBVIOUS
<1> HIDE DEF page, got, off, more, pages, prev
<1>15. CASE i <= prev
  <2>1. Passed(d, i)
    BY <1>15 DEF Passed, prev
  <2>2. feed[d][i] \in walk[d].all \/ feed[d][i].height > maxH
    BY <2>1 DEF PassedIsRead
  <2> QED BY <2>2, <1>13
<1>16. CASE ~(i <= prev)
  <2>1. i <= To(d, prev)
    <3>1. CASE PageRead(d).open
      <4>1. i <= off
        BY <3>1, <1>13
      <4>2. To(d, prev) \in Nat
        BY <1>3, <1>5, <1>6, <1>10
      <4> QED BY <4>1, <4>2, <1>2, <1>4, <1>10, <1>16
    <3>2. CASE ~PageRead(d).open
      <4>1. LastPage(d, got, off)
        BY <3>2, <1>8, <1>11, <1>12, <1>14
      <4>2. got < PerDomain \/ off >= Len(feed[d])
        BY <4>1, <1>3, <1>8, <1>9, <1>10
      <4> QED BY <4>2, <1>2, <1>3, <1>4, <1>5, <1>6, <1>10, <1>16
    <3> QED BY <3>1, <3>2
  <2>2. i \in From(prev) + 1..To(d, prev)
    BY <2>1, <1>4, <1>5, <1>6, <1>3, <1>10, <1>16
  <2> QED BY <2>2, <1>2, <1>13
<1> QED BY <1>15, <1>16

LEMMA StepPassedIsRead ==
  ASSUME PerDomain <= NodeCap, SInv, PInv', [Next]_vars, ~cut'
  PROVE  PassedIsRead'
<1> SUFFICES ASSUME at' = "paging", NEW d \in Domain, NEW i \in 1..Len(feed'[d]), Passed(d, i)'
             PROVE  feed'[d][i] \in walk'[d].all \/ feed'[d][i].height > maxH'
  BY DEF PassedIsRead
<1>0. walk \in [Domain -> Walk] /\ feed \in [Domain -> Seq(Proposal)]
  BY DEF SInv, PInv, TypeOK
<1>1. CASE UNCHANGED vars
  BY <1>1 DEF SInv, PassedIsRead, Passed, vars, chain
<1>2. CASE ReadTip \/ PassFails \/ Merge \/ Reorg
  BY <1>2 DEF ReadTip, PassFails, Merge, Reorg
<1>3. CASE ReadDomains
  <2>1. walk'[d].open = (feed[d] # <<>>) /\ walk'[d].offset = 0 /\ feed' = feed
    BY <1>3 DEF ReadDomains, Unread, chain
  <2>2. feed[d] \in Seq(Proposal) /\ Len(feed[d]) \in Nat
    BY <1>0
  <2>3. feed[d] # <<>> /\ i >= 1
    BY <2>1, <2>2
  <2>4. walk'[d].open
    BY <2>1, <2>3
  <2>5. i <= 0
    BY <2>1, <2>4 DEF Passed
  <2> QED BY <2>3, <2>5, <2>1, <2>2
<1>4. ASSUME NEW e \in Domain, ReadPage(e)
      PROVE  feed'[d][i] \in walk'[d].all \/ feed'[d][i].height > maxH'
  <2>1. /\ walk' = [walk EXCEPT ![e] = PageRead(e)] /\ at = "paging"
        /\ UNCHANGED <<feed, maxH>> /\ ~cut
    BY <1>4 DEF ReadPage, PageRead, chain
  <2>2. PassedIsRead
    BY <2>1 DEF SInv
  <2>3. CASE e = d
    <3>1. walk'[d] = PageRead(d)
      BY <1>0, <2>1, <2>3
    <3>2. PageRead(d).open => i <= PageRead(d).offset
      BY <3>1 DEF Passed
    <3>3. feed[d][i] \in PageRead(d).all \/ feed[d][i].height > maxH
      BY <1>4, <2>1, <2>2, <2>3, <3>2, PageCovers DEF SInv
    <3> QED BY <2>1, <3>1, <3>3
  <2>4. CASE e # d
    <3>1. walk'[d] = walk[d]
      BY <1>0, <2>1, <2>4
    <3> QED BY <2>1, <2>2, <3>1 DEF PassedIsRead, Passed
  <2> QED BY <2>3, <2>4
<1>5. ASSUME NEW e \in Domain, PageFails(e)
      PROVE  feed'[d][i] \in walk'[d].all \/ feed'[d][i].height > maxH'
  BY <1>5 DEF PageFails
<1>6. CASE Block
  <2>1. /\ tip' = tip + 1 /\ ~cut /\ at = "paging" /\ UNCHANGED <<walk, maxH>>
        /\ feed' = feed \/ \E e \in Domain, h \in Hash : feed' = Extend(feed, e, h, tip')
    BY <1>6 DEF Block
  <2>2. PassedIsRead /\ maxH <= tip /\ tip \in Nat /\ maxH \in Nat
    BY <2>1 DEF SInv, PInv, TypeOK
  <2>3. CASE feed'[d] = feed[d]
    BY <2>1, <2>2, <2>3 DEF PassedIsRead, Passed
  <2>4. ASSUME NEW h \in Hash, feed'[d] = <<[h |-> h, height |-> tip']>> \o feed[d]
        PROVE  feed'[d][i] \in walk'[d].all \/ feed'[d][i].height > maxH'
    <3> DEFINE p == [h |-> h, height |-> tip']
    <3>1. p \in Proposal
      <4>1. tip' \in 1..MaxTip
        BY <2>1, <2>2 DEF PInv, TypeOK
      <4> QED BY <4>1 DEF Proposal
    <3>2. p.height > maxH
      BY <2>1, <2>2
    <3> HIDE DEF p
    <3>3. /\ Len(<<p>> \o feed[d]) = Len(feed[d]) + 1
          /\ (<<p>> \o feed[d])[1] = p
          /\ \A j \in 1..Len(feed[d]) : (<<p>> \o feed[d])[j + 1] = feed[d][j]
      BY <1>0, <3>1, PushedFirst
    <3>4. feed'[d] = <<p>> \o feed[d]
      BY <2>4 DEF p
    <3>5. Len(feed[d]) \in Nat
      BY <1>0
    <3>6. CASE i = 1
      BY <2>1, <3>2, <3>3, <3>4, <3>6
    <3>7. CASE i # 1
      <4> DEFINE j == i - 1
      <4>1. j \in 1..Len(feed[d]) /\ i = j + 1 /\ i \in Int
        BY <3>3, <3>4, <3>5, <3>7
      <4> HIDE DEF j
      <4>2. feed'[d][i] = feed[d][j]
        BY <3>3, <3>4, <4>1
      <4>3. Passed(d, j)
        <5>1. walk[d].offset \in Nat
          BY <1>0 DEF Walk
        <5> QED BY <2>1, <4>1, <5>1 DEF Passed
      <4> QED BY <2>1, <2>2, <4>1, <4>2, <4>3 DEF PassedIsRead
    <3> QED BY <3>6, <3>7
  <2>5. feed'[d] = feed[d] \/ \E h \in Hash : feed'[d] = <<[h |-> h, height |-> tip']>> \o feed[d]
    BY <1>0, <2>1 DEF Extend
  <2> QED BY <2>3, <2>4, <2>5
<1>7. CASE Upgrade
  BY <1>7 DEF Upgrade, SInv, PassedIsRead, Passed
<1> QED BY <1>1, <1>2, <1>3, <1>4, <1>5, <1>6, <1>7 DEF Next, Pass

(* What is due stays listed while only blocks arrive.                       *)
LEMMA BlockKeepsListed ==
  ASSUME TypeOK, Block
  PROVE  Listed(maxH) \subseteq Listed(maxH)'
<1>1. feed \in [Domain -> Seq(Proposal)] /\ tip' \in 1..MaxTip /\ UNCHANGED maxH
  BY PinsAssumption DEF TypeOK, Block
<1>2. \A d \in Domain : ToSet(feed[d]) \subseteq ToSet(feed'[d])
  <2>1. CASE feed' = feed
    BY <2>1
  <2>2. ASSUME NEW d \in Domain, NEW h \in Hash, feed' = Extend(feed, d, h, tip')
        PROVE  \A e \in Domain : ToSet(feed[e]) \subseteq ToSet(feed'[e])
    BY <1>1, <2>2, ExtendKeeps
  <2>3. feed' = feed \/ \E d \in Domain, h \in Hash : feed' = Extend(feed, d, h, tip')
    BY DEF Block
  <2> QED BY <2>1, <2>2, <2>3
<1> QED BY <1>1, <1>2 DEF Listed

LEMMA StepDueIsListed ==
  ASSUME SInv, [Next]_vars, ~cut'
  PROVE  DueIsListed'
<1>1. CASE UNCHANGED vars
  BY <1>1 DEF SInv, DueIsListed, Listed, vars, chain
<1>2. CASE ReadTip
  BY <1>2 DEF ReadTip, DueIsListed, Listed, chain
<1>3. CASE ReadDomains
  BY <1>3 DEF ReadDomains, SInv, DueIsListed, Listed, chain
<1>4. CASE PassFails \/ Merge
  BY <1>4 DEF PassFails, Merge, DueIsListed
<1>5. ASSUME NEW d \in Domain, ReadPage(d) \/ PageFails(d) PROVE DueIsListed'
  <2>1. UNCHANGED <<feed, at, maxH, due>> /\ ~cut
    BY <1>5 DEF ReadPage, PageFails, chain
  <2> QED BY <2>1 DEF SInv, DueIsListed, Listed
<1>6. CASE Block
  <2>1. Listed(maxH) \subseteq Listed(maxH)'
    BY <1>6, BlockKeepsListed DEF SInv, PInv
  <2> QED BY <1>6, <2>1 DEF Block, SInv, DueIsListed
<1>7. CASE Reorg
  BY <1>7 DEF Reorg, DueIsListed
<1>8. CASE Upgrade
  BY <1>8 DEF Upgrade, SInv, DueIsListed, Listed
<1> QED BY <1>1, <1>2, <1>3, <1>4, <1>5, <1>6, <1>7, <1>8 DEF Next, Pass

(* The last page of every domain is read when a pass merges, so that what   *)
(* is due and listed has been read.                                         *)
LEMMA MergeReturnsDue ==
  ASSUME SInv, Merge, ~cut
  PROVE  due \subseteq pins'
<1> SUFFICES ASSUME NEW h \in due PROVE h \in pins'
  OBVIOUS
<1>1. PICK d \in Domain : \E p \in ToSet(feed[d]) : p.h = h /\ p.height <= maxH
  BY DEF Merge, SInv, DueIsListed, Listed
<1> PICK p \in ToSet(feed[d]) : p.h = h /\ p.height <= maxH
  BY <1>1
<1>2. feed[d] \in Seq(Proposal) /\ maxH \in Nat
  BY DEF SInv, PInv, TypeOK
<1>3. PICK i \in 1..Len(feed[d]) : p = feed[d][i]
  BY <1>2, InToSet
<1>4. p \in walk[d].all \/ p.height > maxH
  BY <1>3 DEF Merge, SInv, PassedIsRead, Passed
<1>5. p.height \in Nat
  <2>1. p \in Proposal
    BY <1>2, InToSet
  <2> QED BY ONLY <2>1, PinsAssumption DEF Proposal
<1>6. p \in walk[d].all
  BY <1>1, <1>2, <1>4, <1>5
<1> QED BY <1>6 DEF Merge

LEMMA StepNothingSkipped ==
  ASSUME SInv, [Next]_vars, ~cut'
  PROVE  NothingSkipped'
<1>1. CASE UNCHANGED vars
  BY <1>1 DEF SInv, NothingSkipped, vars, chain
<1>2. CASE ReadTip \/ ReadDomains \/ PassFails
  BY <1>2 DEF ReadTip, ReadDomains, PassFails, NothingSkipped
<1>3. ASSUME NEW d \in Domain, ReadPage(d) \/ PageFails(d) PROVE NothingSkipped'
  BY <1>3 DEF ReadPage, PageFails, NothingSkipped
<1>4. CASE Merge
  BY <1>4, MergeReturnsDue DEF Merge, NothingSkipped
<1>5. CASE Block \/ Reorg \/ Upgrade
  BY <1>5 DEF Block, Reorg, Upgrade, SInv, NothingSkipped
<1> QED BY <1>1, <1>2, <1>3, <1>4, <1>5 DEF Next, Pass

LEMMA StepSInv ==
  ASSUME PerDomain <= NodeCap, SInv, [Next]_vars
  PROVE  SInv'
<1>1. PInv'
  BY StepPInv DEF SInv
<1>2. (maxH <= tip)'
  <2>1. tip \in Nat /\ maxH \in Nat /\ maxH <= tip
    BY DEF SInv, PInv, TypeOK
  <2>2. ConfirmedHeight(tip) <= tip
    BY <2>1, PinsAssumption DEF ConfirmedHeight
  <2>3. CASE ReadTip
    BY <2>2, <2>3 DEF ReadTip, chain
  <2>4. CASE Block \/ Reorg
    <3>1. tip' = tip + 1 /\ maxH' = maxH
      BY <2>4 DEF Block, Reorg
    <3> QED BY <2>1, <3>1
  <2>5. ASSUME NEW d \in Domain, ReadPage(d) \/ PageFails(d) PROVE (maxH <= tip)'
    <3>1. UNCHANGED <<tip, maxH>>
      BY <2>5 DEF ReadPage, PageFails, chain
    <3> QED BY <2>1, <3>1
  <2>6. CASE ReadDomains \/ PassFails \/ Merge \/ Upgrade \/ UNCHANGED vars
    <3>1. UNCHANGED <<tip, maxH>>
      BY <2>6 DEF ReadDomains, PassFails, Merge, Upgrade, vars, chain
    <3> QED BY <2>1, <3>1
  <2> QED BY <2>3, <2>4, <2>5, <2>6 DEF Next, Pass
<1>3. ~cut' => PassedIsRead'
  BY <1>1, StepPassedIsRead
<1>4. ~cut' => DueIsListed' /\ NothingSkipped'
  BY StepDueIsListed, StepNothingSkipped
<1> QED BY <1>1, <1>2, <1>3, <1>4 DEF SInv

(* A pass of confirmed_pins (src/chain.rs) that nothing cut short returns   *)
(* every hash confirmed when it began, for any page size the node honours   *)
(* and any blocks between the pages.                                        *)
THEOREM NoPinIsSkipped ==
  ASSUME PerDomain <= NodeCap
  PROVE  Spec => []NothingSkipped
<1>1. Init => SInv
  <2>1. Init => PInv
    BY InitPInv
  <2> QED BY <2>1 DEF SInv, Init, PassedIsRead, DueIsListed, NothingSkipped
<1>2. SInv /\ [Next]_vars => SInv'
  BY StepSInv
<1>3. SInv => NothingSkipped
  BY DEF SInv, NothingSkipped
<1> QED BY <1>1, <1>2, <1>3, PTL DEF Spec
=============================================================================
