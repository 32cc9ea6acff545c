--------------------------- MODULE SequenceProofs ---------------------------
(***************************************************************************)
(* Proofs by induction over a sequence: about Trust, whose walk goes over  *)
(* the links of a chain of any length, for any file, any manifests and any *)
(* number of runs; and about LineScan, which goes over the bytes of a line *)
(* of any number of fields and values nested at will.                      *)
(*                                                                         *)
(* They rest on UpTo, an induction that takes a set where the library's    *)
(* theorems take an operator; by it a recursive function is shown to have  *)
(* the values its definition says.                                         *)
(***************************************************************************)
EXTENDS Integers, Trust, LineScan, SequenceTheorems, WellFoundedInduction, TLAPS

\* Induction up to N, over a set: a least number outside it has one before it.
LEMMA UpTo ==
    ASSUME NEW N \in Nat, NEW S, 0 \in S, \A n \in 0..N : n > 0 /\ n - 1 \in S => n \in S
    PROVE  \A n \in 0..N : n \in S
<1> DEFINE T == (0..N) \ S
           R == OpToRel(<, Nat)
<1>1. SUFFICES ASSUME T # {} PROVE FALSE
  BY Zenon
<1>2. IsWellFoundedOn(R, Nat)
  BY NatLessThanWellFounded
<1>3. T \subseteq Nat
  OBVIOUS
<1> HIDE DEF T, R
<1>4. PICK x \in T : \A y \in T : ~(<<y, x>> \in R)
  BY <1>1, <1>2, <1>3, WFMin, Zenon
<1>5. x \in 0..N /\ x \notin S /\ x # 0
  BY <1>4 DEF T
<1>6. x - 1 \in 0..N /\ x > 0
  BY <1>5
<1>7. x - 1 \in T
  BY <1>5, <1>6 DEF T
<1>8. <<x - 1, x>> \in R
  BY <1>5, <1>6 DEF R, OpToRel
<1> QED
  BY <1>4, <1>7, <1>8

-----------------------------------------------------------------------------
(* Trust: the links of a chain.                                            *)

\* One more link.
OneMore(held, links, f, n) ==
    IF n = 0 THEN [keys |-> held, proving |-> <<>>] ELSE Prove(f[n - 1], links[n])

\* The recursion of walk has a solution, however many links there are.
LEMMA PrefixExists ==
    ASSUME NEW held, NEW links, Len(links) \in Nat
    PROVE  \E f : f = [n \in 0..Len(links) |-> OneMore(held, links, f, n)]
<1> DEFINE S == {n \in Nat : \E f : f = [i \in 0..n |-> OneMore(held, links, f, i)]}
<1>1. 0 \in S
  <2> DEFINE f == [i \in 0..0 |-> [keys |-> held, proving |-> <<>>]]
  <2>1. f = [i \in 0..0 |-> OneMore(held, links, f, i)]
    BY DEF OneMore
  <2> QED
    BY <2>1
<1>2. ASSUME NEW n \in 0..Len(links), n > 0, n - 1 \in S PROVE n \in S
  <2>1. PICK g : g = [i \in 0..(n-1) |-> OneMore(held, links, g, i)]
    BY <1>2
  <2> DEFINE f == [i \in 0..n |-> IF i = n THEN Prove(g[n - 1], links[n]) ELSE g[i]]
  <2>2. ASSUME NEW i \in 0..n PROVE f[i] = OneMore(held, links, f, i)
    <3>1. CASE i = n
      BY <3>1, <1>2 DEF OneMore
    <3>2. CASE i # n
      <4>1. i \in 0..(n-1)
        BY <3>2
      <4>2. g[i] = OneMore(held, links, g, i)
        BY <2>1, <4>1
      <4>3. i # 0 => f[i - 1] = g[i - 1]
        BY <4>1
      <4> QED
        BY <4>1, <4>2, <4>3 DEF OneMore
    <3> QED
      BY <3>1, <3>2
  <2>3. f = [i \in 0..n |-> OneMore(held, links, f, i)]
    BY <2>2
  <2> HIDE DEF f
  <2>4. \E h : h = [i \in 0..n |-> OneMore(held, links, h, i)]
    BY <2>3, Zenon
  <2> QED
    BY <2>4
<1>3. \A n \in 0..Len(links) : n > 0 /\ n - 1 \in S => n \in S
  BY <1>2
<1>4. Len(links) \in S
  <2> HIDE DEF S
  <2>1. \A n \in 0..Len(links) : n \in S
    BY <1>1, <1>3, UpTo, Zenon
  <2> QED
    BY <2>1
<1> QED
  BY <1>4

\* walk is what its definition says.
LEMMA WalkedIs ==
    ASSUME NEW held, NEW links, Len(links) \in Nat
    PROVE  Walked(held, links) = [n \in 0..Len(links) |-> OneMore(held, links, Walked(held, links), n)]
<1> DEFINE P(f) == f = [n \in 0..Len(links) |-> OneMore(held, links, f, n)]
<1>1. \E f : P(f)
  BY PrefixExists
<1>2. Walked(held, links) = CHOOSE f : P(f)
  BY DEF Walked, OneMore
<1> HIDE DEF P
<1>3. P(CHOOSE f : P(f))
  BY <1>1, Zenon
<1>4. P(Walked(held, links))
  BY <1>2, <1>3
<1> QED
  BY <1>4 DEF P

\* The first links of a longer sequence are walked alike.
LEMMA WalkAppend ==
    ASSUME NEW held, NEW links \in Seq(Manifests), NEW m \in Manifests
    PROVE  Walk(held, Append(links, m)) = Prove(Walk(held, links), m)
<1> DEFINE s == Append(links, m)
           S == {n \in Nat : n <= Len(links) => Walked(held, s)[n] = Walked(held, links)[n]}
<1>0. /\ Len(links) \in Nat /\ Len(s) = Len(links) + 1 /\ s[Len(s)] = m
      /\ \A n \in 1..Len(links) : s[n] = links[n]
  BY AppendProperties
<1>1. \A n \in 0..Len(s) : Walked(held, s)[n] = OneMore(held, s, Walked(held, s), n)
  <2> HIDE DEF s
  <2>1. Len(s) \in Nat
    BY <1>0
  <2>2. Walked(held, s) = [n \in 0..Len(s) |-> OneMore(held, s, Walked(held, s), n)]
    BY <2>1, WalkedIs
  <2> QED
    BY <2>2
<1>2. \A n \in 0..Len(links) : Walked(held, links)[n] = OneMore(held, links, Walked(held, links), n)
  <2>1. Walked(held, links) = [n \in 0..Len(links) |-> OneMore(held, links, Walked(held, links), n)]
    BY <1>0, WalkedIs
  <2> QED
    BY <2>1
<1> HIDE DEF s
<1>3. 0 \in S
  BY <1>0, <1>1, <1>2 DEF OneMore
<1>4. ASSUME NEW n \in 0..Len(links), n > 0, n - 1 \in S PROVE n \in S
  <2>1. Walked(held, s)[n - 1] = Walked(held, links)[n - 1] /\ s[n] = links[n]
    BY <1>0, <1>4
  <2>2. /\ Walked(held, s)[n] = Prove(Walked(held, s)[n - 1], s[n])
        /\ Walked(held, links)[n] = Prove(Walked(held, links)[n - 1], links[n])
    BY <1>0, <1>1, <1>2, <1>4 DEF OneMore
  <2> QED
    BY <2>1, <2>2
<1>5. \A n \in 0..Len(links) : n > 0 /\ n - 1 \in S => n \in S
  BY <1>4
<1>6. Len(links) \in S
  <2> HIDE DEF S
  <2>1. \A n \in 0..Len(links) : n \in S
    BY <1>0, <1>3, <1>5, UpTo, Zenon
  <2> QED
    BY <1>0, <2>1
<1>7. Walked(held, s)[Len(links)] = Walked(held, links)[Len(links)]
  BY <1>6, <1>0
<1>8. Walked(held, s)[Len(s)] = Prove(Walked(held, s)[Len(links)], m)
  BY <1>0, <1>1 DEF OneMore
<1> QED
  BY <1>7, <1>8 DEF Walk, s

\* No links prove nothing.
LEMMA WalkNone == ASSUME NEW held PROVE Walk(held, <<>>) = [keys |-> held, proving |-> <<>>]
<1> DEFINE e == <<>>
<1>1. Len(e) = 0 /\ Len(e) \in Nat
  OBVIOUS
<1> HIDE DEF e
<1>2. Walked(held, e) = [n \in 0..Len(e) |-> OneMore(held, e, Walked(held, e), n)]
  BY <1>1, WalkedIs
<1>3. Walked(held, e)[Len(e)] = OneMore(held, e, Walked(held, e), Len(e))
  BY <1>1, <1>2
<1>4. OneMore(held, e, Walked(held, e), Len(e)) = [keys |-> held, proving |-> <<>>]
  BY <1>1 DEF OneMore
<1> QED
  BY <1>3, <1>4 DEF Walk, e

\* What a walk has after n links: keys of a closed set, links that are
\* manifests, and these alone prove the same keys.
Sound(acc, S) ==
    /\ acc = [keys |-> acc.keys, proving |-> acc.proving]
    /\ acc.keys \subseteq S
    /\ acc.proving \in Seq(Manifests)
    /\ \A n \in 1..Len(acc.proving) : acc.proving[n].next \in acc.keys
    /\ Walk({Root}, acc.proving) = acc

\* A link proves no key outside a closed set.
LEMMA ProveSound ==
    ASSUME NEW S, Closed(S), NEW acc, Sound(acc, S), NEW m \in Manifests
    PROVE  Sound(Prove(acc, m), S)
<1> DEFINE k == KeyProvedBy(m, acc.keys)
<1>1. CASE k = NoKey
  BY <1>1 DEF Prove
<1>2. CASE k # NoKey
  <2>1. Prove(acc, m) = [keys |-> acc.keys \cup {k}, proving |-> Append(acc.proving, m)]
    BY <1>2 DEF Prove
  <2>2. k = m.next /\ m.reads /\ m.by \cap acc.keys # {}
    BY <1>2 DEF KeyProvedBy, VerifyUnder
  <2>3. k \in S
    BY <1>2, <2>2 DEF Closed, Sound
  <2>4. Walk({Root}, Append(acc.proving, m)) = Prove(acc, m)
    BY WalkAppend DEF Sound
  <2>5. Append(acc.proving, m) \in Seq(Manifests)
    BY AppendProperties DEF Sound
  <2>6. \A n \in 1..Len(Append(acc.proving, m)) : Append(acc.proving, m)[n].next \in acc.keys \cup {k}
    BY <2>2, AppendProperties DEF Sound
  <2> HIDE DEF k
  <2> QED
    BY <2>1, <2>3, <2>4, <2>5, <2>6 DEF Sound
<1> QED
  BY <1>1, <1>2

\* Whatever the file holds, a walk from the root proves keys of every closed
\* set only, and what it keeps proves the same.
LEMMA WalkSound ==
    ASSUME NEW S, Closed(S), NEW links \in Seq(Manifests)
    PROVE  Sound(Walk({Root}, links), S)
<1> DEFINE f == Walked({Root}, links)
           T == {n \in Nat : Sound(f[n], S)}
<1>0. Len(links) \in Nat /\ \A n \in 1..Len(links) : links[n] \in Manifests
  OBVIOUS
<1>1. \A n \in 0..Len(links) : f[n] = OneMore({Root}, links, f, n)
  <2>1. f = [n \in 0..Len(links) |-> OneMore({Root}, links, f, n)]
    BY <1>0, WalkedIs
  <2> HIDE DEF f
  <2> QED
    BY <2>1
<1> HIDE DEF f
<1>2. 0 \in T
  <2>0. <<>> \in Seq(Manifests) /\ Len(<<>>) = 0
    BY EmptySeq
  <2>1. f[0] = OneMore({Root}, links, f, 0)
    <3>1. 0 \in 0..Len(links)
      BY <1>0
    <3> QED
      BY <1>1, <3>1, Zenon
  <2>2. OneMore({Root}, links, f, 0) = [keys |-> {Root}, proving |-> <<>>]
    BY DEF OneMore
  <2>3. Walk({Root}, <<>>) = [keys |-> {Root}, proving |-> <<>>]
    BY WalkNone
  <2>4. {Root} \subseteq S
    BY DEF Closed
  <2>5. Sound([keys |-> {Root}, proving |-> <<>>], S)
    BY <2>0, <2>3, <2>4 DEF Sound
  <2> QED
    BY <2>1, <2>2, <2>5
<1>3. ASSUME NEW n \in 0..Len(links), n > 0, n - 1 \in T PROVE n \in T
  <2>1. f[n] = Prove(f[n - 1], links[n])
    BY <1>1, <1>3 DEF OneMore
  <2>2. links[n] \in Manifests /\ Sound(f[n - 1], S)
    BY <1>0, <1>3
  <2>3. Sound(Prove(f[n - 1], links[n]), S)
    BY <2>2, ProveSound
  <2> QED
    BY <2>1, <2>3
<1>4. \A n \in 0..Len(links) : n > 0 /\ n - 1 \in T => n \in T
  BY <1>3
<1>5. Len(links) \in T
  <2> HIDE DEF T
  <2>1. \A n \in 0..Len(links) : n \in T
    BY <1>0, <1>2, <1>4, UpTo, Zenon
  <2> QED
    BY <1>0, <2>1
<1> QED
  BY <1>5 DEF Walk, f

\* The keys the root leads to are such a set.
LEMMA EndorsedIsClosed == Closed(Endorsed)
<1>1. Root \in Endorsed
  BY DEF Endorsed, Closed, AllKeys
<1>2. ASSUME NEW m \in Manifests, m.reads, m.next # NoKey, m.by \cap Endorsed # {}
      PROVE  m.next \in Endorsed
  <2>1. m.next \in AllKeys
    BY DEF AllKeys
  <2>2. ASSUME NEW S \in SUBSET AllKeys, Closed(S) PROVE m.next \in S
    <3>1. m.by \cap S # {}
      BY <1>2, <2>2 DEF Endorsed
    <3> QED
      BY <1>2, <2>2, <3>1 DEF Closed
  <2> QED
    BY <2>1, <2>2 DEF Endorsed
<1> QED
  BY <1>1, <1>2 DEF Closed
-----------------------------------------------------------------------------
(* The runs.                                                               *)

\* What is in the file, and what a run is about to add to it.
TrustInv ==
    /\ chain \in Seq(Manifests)
    /\ keys \in [Updaters -> SUBSET Endorsed]
    /\ DOMAIN best = Updaters /\ DOMAIN link = Updaters
    /\ \A u \in Updaters :
          /\ best[u] # None => best[u].by \cap Endorsed # {}
          /\ link[u] # None =>
                /\ link[u].manifest \in Manifests /\ link[u].read \in Seq(Manifests)
                /\ link[u].manifest.reads /\ link[u].manifest.next # NoKey

\* The chain a run leaves is one of manifests.
LEMMA RewrittenIsChain ==
    ASSUME TrustInv, NEW l, l.manifest \in Manifests, l.read \in Seq(Manifests)
    PROVE  Rewritten(l) \subseteq Seq(Manifests)
<1>1. Walk({Root}, l.read).proving \in Seq(Manifests)
  BY EndorsedIsClosed, WalkSound DEF Sound
<1>2. Append(Walk({Root}, l.read).proving, l.manifest) \in Seq(Manifests)
  BY <1>1, AppendProperties
<1> QED
  BY <1>2, Zenon DEF TrustInv, Rewritten

\* Every step keeps TrustInv.
LEMMA TrustStep == ASSUME TrustInv, [TrustNext]_trustVars PROVE TrustInv'
<1>1. ASSUME NEW u \in Updaters, Load(u) PROVE TrustInv'
  <2> DEFINE read == SubSeq(chain, 1, IF Len(chain) < MaxLinks THEN Len(chain) ELSE MaxLinks)
  <2>1. read \in Seq(Manifests)
    BY TrustAssumption, SubSeqProperties DEF TrustInv
  <2>2. Walk({Root}, read).keys \subseteq Endorsed
    <3> HIDE DEF read
    <3> QED
      BY <2>1, EndorsedIsClosed, WalkSound DEF Sound
  <2>3. keys' = [keys EXCEPT ![u] = Walk({Root}, read).keys]
    BY <1>1 DEF Load, KeysFrom
  <2> HIDE DEF read
  <2>4. keys' \in [Updaters -> SUBSET Endorsed]
    BY <2>2, <2>3 DEF TrustInv
  <2> QED
    BY <1>1, <2>4 DEF TrustInv, Load
<1>2. ASSUME NEW u \in Updaters, FetchOne(u) PROVE TrustInv'
  <2>1. CASE \E why \in {Unavailable, NoSignature, BadManifest, BadSignature} : Refuse(u, why)
    BY <2>1 DEF TrustInv, Refuse
  <2>2. ASSUME NEW m \in Manifests, VerifyUnder(keys[u], m), m.reads,
               best' = [best EXCEPT ![u] = Newest(u, m)],
               link' = link \/ (m.next # NoKey /\ link' = [link EXCEPT ![u] = [manifest |-> m, read |-> chain]]),
               UNCHANGED <<chain, keys>>
        PROVE  TrustInv'
    <3>1. m.by \cap Endorsed # {}
      BY <2>2 DEF TrustInv, VerifyUnder
    <3>2. \A v \in Updaters : best'[v] # None => best'[v].by \cap Endorsed # {}
      BY <2>2, <3>1 DEF TrustInv, Newest
    <3>3. \A v \in Updaters : link'[v] = link[v] \/ (v = u /\ m.next # NoKey /\ link'[v] = [manifest |-> m, read |-> chain])
      BY <2>2 DEF TrustInv
    <3> QED
      BY <2>2, <3>2, <3>3 DEF TrustInv
  <2> QED
    BY <1>2, <2>1, <2>2 DEF FetchOne
<1>3. ASSUME NEW u \in Updaters, Remember(u) PROVE TrustInv'
  <2>1. chain' \in Seq(Manifests)
    BY <1>3, RewrittenIsChain DEF Remember, TrustInv
  <2>2. \A v \in Updaters : link'[v] \in {link[v], None}
    BY <1>3 DEF Remember, TrustInv
  <2> QED
    BY <1>3, <2>1, <2>2 DEF Remember, TrustInv
<1>4. CASE UNCHANGED trustVars
  BY <1>4 DEF trustVars, TrustInv
<1> QED
  BY <1>1, <1>2, <1>3, <1>4 DEF TrustNext

\* TrustInv always holds.
LEMMA TrustInvariant == TrustSpec => []TrustInv
<1>1. TrustInit => TrustInv
  <2> SUFFICES ASSUME TrustInit PROVE TrustInv
    OBVIOUS
  <2>1. chain \in Seq(Manifests)
    BY TrustAssumption DEF TrustInit
  <2> QED
    BY <2>1 DEF TrustInit, TrustInv
<1>2. TrustInv /\ [TrustNext]_trustVars => TrustInv'
  BY TrustStep
<1> QED
  BY <1>1, <1>2, PTL DEF TrustSpec

\* Writing the chain's file grants nothing: for any file, any number of runs at
\* once and any manifests, a run believes only keys the root leads to
\* (Trust::rooted_at, fetch_one).
THEOREM NothingIsGranted == TrustSpec => []OnlyEndorsed
<1>1. TrustInv => OnlyEndorsed
  BY DEF TrustInv, OnlyEndorsed
<1> QED
  BY <1>1, TrustInvariant, PTL

\* Whatever else the file holds, and at any length, a run with room can leave
\* one that a later run has every key from, unless the manifest is in the file
\* already (Trust::remember, rooted_at).
THEOREM JunkIsHarmless == TrustSpec => []JunkCrowdsNothingOut
<1>1. TrustInv => JunkCrowdsNothingOut
  <2> SUFFICES ASSUME TrustInv, NEW u \in Updaters, link[u] # None, HasRoom(link[u]),
                      ~Contains(Walk({Root}, link[u].read).proving, link[u].manifest)
               PROVE  CanBeHad(link[u])
    BY DEF JunkCrowdsNothingOut
  <2> DEFINE before == Walk({Root}, link[u].read)
             m == link[u].manifest
             c == Append(before.proving, m)
  <2>0. Len(before.proving) < MaxLinks /\ VerifyUnder(before.keys, m)
    BY DEF HasRoom
  <2>1. Sound(before, Endorsed) /\ m \in Manifests /\ m.reads /\ m.next # NoKey
    BY EndorsedIsClosed, WalkSound DEF TrustInv
  <2>2. Walk({Root}, c) = Prove(before, m)
    BY <2>1, WalkAppend DEF Sound
  <2>3. KeyProvedBy(m, before.keys) = m.next
    BY <2>0, <2>1 DEF KeyProvedBy
  <2>4. Prove(before, m).keys = before.keys \cup {m.next}
    BY <2>1, <2>3 DEF Prove
  <2>5. Len(before.proving) \in Nat /\ c \in Seq(Manifests) /\ Len(c) = Len(before.proving) + 1
    BY <2>1, AppendProperties DEF Sound
  <2>6. c \in Rewritten(link[u])
    <3>1. ~(Len(before.proving) >= MaxLinks)
      BY <2>0, <2>5, TrustAssumption
    <3> QED
      BY <3>1, Zenon DEF Rewritten
  <2> HIDE DEF c
  <2>7. KeysFrom(c) = Walk({Root}, c).keys
    <3>1. (IF Len(c) < MaxLinks THEN Len(c) ELSE MaxLinks) = Len(c)
      BY <2>0, <2>5, TrustAssumption
    <3>2. SubSeq(c, 1, Len(c)) = c
      BY <2>5
    <3> QED
      BY <3>1, <3>2 DEF KeysFrom
  <2> QED
    BY <2>2, <2>4, <2>6, <2>7 DEF CanBeHad
<1> QED
  BY <1>1, TrustInvariant, PTL

-----------------------------------------------------------------------------
(* Recursion, and sequences by their first elements.                       *)

\* f is the solution of a recursion, with values in S.
Recursion(f, N, S, a, G) ==
    f \in [0..N -> S] /\ f[0] = a /\ \A n \in 1..N : f[n] = G[n][f[n - 1]]

\* A recursion over 0..N has a solution, if its step is a function.
LEMMA RecursionExists ==
    ASSUME NEW N \in Nat, NEW S, NEW a \in S, NEW G, \A n \in 1..N : \A s \in S : G[n][s] \in S
    PROVE  \E f : Recursion(f, N, S, a, G)
<1> DEFINE Solves(f, m) == Recursion(f, m, S, a, G)
           T == {m \in Nat : \E f : Solves(f, m)}
<1>1. 0 \in T
  <2> DEFINE f == [n \in 0..0 |-> a]
  <2>1. Solves(f, 0)
    BY DEF Recursion
  <2> HIDE DEF f
  <2> QED
    BY <2>1
<1>2. ASSUME NEW m \in 0..N, m > 0, m - 1 \in T PROVE m \in T
  <2>1. PICK g : Recursion(g, m - 1, S, a, G)
    BY <1>2
  <2> DEFINE x == G[m][g[m - 1]]
             f == [n \in 0..m |-> IF n = m THEN x ELSE g[n]]
  <2>2. m - 1 \in 0..(m - 1) /\ m \in 1..N
    BY <1>2
  <2>3. g[m - 1] \in S /\ x \in S
    BY <2>1, <2>2 DEF Recursion
  <2>4. f \in [0..m -> S] /\ f[0] = a
    BY <2>1, <2>3, <1>2 DEF Recursion
  <2>5. ASSUME NEW n \in 1..m PROVE f[n] = G[n][f[n - 1]]
    <3>1. n - 1 \in 0..m /\ n - 1 # m /\ f[n - 1] = g[n - 1]
      BY <2>5
    <3>2. CASE n = m
      BY <3>1, <3>2
    <3>3. CASE n # m
      <4>1. n \in 1..(m - 1) /\ f[n] = g[n]
        BY <3>3
      <4> QED
        BY <4>1, <3>1, <2>1 DEF Recursion
    <3> QED
      BY <3>2, <3>3
  <2> HIDE DEF f
  <2>6. Solves(f, m)
    BY <2>4, <2>5 DEF Recursion
  <2> QED
    BY <2>6, <1>2
<1>3. \A m \in 0..N : m > 0 /\ m - 1 \in T => m \in T
  BY <1>2
<1> HIDE DEF T
<1>4. \A m \in 0..N : m \in T
  BY <1>1, <1>3, UpTo, Zenon
<1>5. N \in T
  BY <1>4
<1> QED
  BY <1>5 DEF T

\* One token in front of a sequence.
LEMMA InFront ==
    ASSUME NEW S, NEW s \in Seq(S), NEW b \in S
    PROVE  /\ <<b>> \o s \in Seq(S) /\ <<b>> \o s # <<>>
           /\ Head(<<b>> \o s) = b /\ Tail(<<b>> \o s) = s
<1>1. <<b>> \in Seq(S) /\ Len(<<b>>) = 1
  OBVIOUS
<1>2. /\ <<b>> \o s \in Seq(S) /\ Len(<<b>> \o s) = 1 + Len(s)
      /\ \A i \in 1..(1 + Len(s)) : (<<b>> \o s)[i] = IF i <= 1 THEN <<b>>[i] ELSE s[i - 1]
  BY <1>1, ConcatProperties
<1>3. <<b>> \o s # <<>> /\ Head(<<b>> \o s) = b
  BY <1>2
<1>4. /\ Tail(<<b>> \o s) \in Seq(S) /\ Len(Tail(<<b>> \o s)) = Len(s)
      /\ \A i \in 1..Len(s) : Tail(<<b>> \o s)[i] = s[i]
  BY <1>2, <1>3
<1>5. Tail(<<b>> \o s) = s
  BY <1>4, SeqEqual, Zenon
<1> QED
  BY <1>2, <1>3, <1>5

\* The part of v from token n + 1 on, and what follows, is that token in front
\* of the rest.
LEMMA FromNext ==
    ASSUME NEW S, NEW v \in Seq(S), NEW s \in Seq(S), NEW n \in 0..(Len(v) - 1)
    PROVE  SubSeq(v, n + 1, Len(v)) \o s = <<v[n + 1]>> \o (SubSeq(v, n + 2, Len(v)) \o s)
<1>1. /\ SubSeq(v, n + 1, Len(v)) \in Seq(S) /\ SubSeq(v, n + 2, Len(v)) \in Seq(S)
      /\ <<v[n + 1]>> \in Seq(S)
  OBVIOUS
<1>2. SubSeq(v, n + 1, Len(v)) = <<v[n + 1]>> \o SubSeq(v, n + 2, Len(v))
  BY <1>1
<1>3. (<<v[n + 1]>> \o SubSeq(v, n + 2, Len(v))) \o s = <<v[n + 1]>> \o (SubSeq(v, n + 2, Len(v)) \o s)
  <2> DEFINE a == <<v[n + 1]>>
             t == SubSeq(v, n + 2, Len(v))
  <2>1. a \in Seq(S) /\ t \in Seq(S)
    BY <1>1
  <2> HIDE DEF a, t
  <2>2. (a \o t) \o s = a \o (t \o s)
    BY <2>1, ConcatAssociative, SMTT(30)
  <2> QED
    BY <2>2 DEF a, t
<1> QED
  BY <1>2, <1>3

-----------------------------------------------------------------------------
(* LineScan: the values, and the line they are in.                         *)

Tokens == STRING \cup Keys \cup Space \cup {"\"", ":", ",", "{", "}"}
Places == [depth: Int, text: {"none", "string", "escape"}]

\* A value is read on from any place.
LEMMA ReadOnIsPlace == ASSUME NEW s \in Places, NEW b PROVE ReadOn(s, b) \in Places
<1>1. CASE s.text = "escape"
  BY <1>1 DEF Places, ReadOn
<1>2. CASE s.text = "string"
  BY <1>2 DEF Places, ReadOn
<1>3. CASE s.text = "none"
  <2>1. s.depth + 1 \in Int /\ s.depth - 1 \in Int
    BY DEF Places
  <2>2. CASE b = "\""
    BY <1>3, <2>2 DEF Places, ReadOn
  <2>3. CASE b \in {"{", "["}
    BY <1>3, <2>1, <2>3 DEF Places, ReadOn
  <2>4. CASE b \in {"}", "]"}
    BY <1>3, <2>1, <2>4 DEF Places, ReadOn
  <2>5. CASE b \notin {"\"", "{", "[", "}", "]"}
    BY <1>3, <2>5 DEF Places, ReadOn
  <2> QED
    BY <2>2, <2>3, <2>4, <2>5
<1> QED
  BY <1>1, <1>2, <1>3 DEF Places

\* Reading is what its definition says.
LEMMA ReadingIs ==
    ASSUME NEW v, Len(v) \in Nat
    PROVE  /\ Reading(v)[0] = Start
           /\ \A n \in 1..Len(v) : Reading(v)[n] = ReadOn(Reading(v)[n - 1], v[n])
<1> DEFINE P(f) == f = [n \in 0..Len(v) |-> IF n = 0 THEN Start ELSE ReadOn(f[n - 1], v[n])]
<1>1. \E f : P(f)
  <2> DEFINE G == [n \in 1..Len(v) |-> [s \in Places |-> ReadOn(s, v[n])]]
             N == Len(v)
  <2>1. Start \in Places
    BY DEF Start, Places
  <2>3. \A n \in 1..N : \A s \in Places : G[n][s] = ReadOn(s, v[n])
    OBVIOUS
  <2>2. \A n \in 1..N : \A s \in Places : G[n][s] \in Places
    BY <2>3, ReadOnIsPlace
  <2>4. N \in Nat
    OBVIOUS
  <2> HIDE DEF G, N
  <2>5. PICK f : Recursion(f, N, Places, Start, G)
    BY <2>1, <2>2, <2>4, RecursionExists, Zenon
  <2>6. ASSUME NEW n \in 0..N PROVE f[n] = IF n = 0 THEN Start ELSE ReadOn(f[n - 1], v[n])
    <3>1. CASE n = 0
      BY <3>1, <2>5 DEF Recursion
    <3>2. CASE n # 0
      <4>1. n \in 1..N /\ n - 1 \in 0..N
        BY <3>2, <2>4
      <4>2. f[n] = G[n][f[n - 1]] /\ f[n - 1] \in Places
        BY <4>1, <2>5 DEF Recursion
      <4>3. f[n] = ReadOn(f[n - 1], v[n])
        BY <4>1, <4>2, <2>3
      <4> QED
        BY <3>2, <4>3
    <3> QED
      BY <3>1, <3>2
  <2>7. f = [n \in 0..N |-> IF n = 0 THEN Start ELSE ReadOn(f[n - 1], v[n])]
    BY <2>5, <2>6 DEF Recursion
  <2>8. P(f)
    BY <2>7 DEF N
  <2> HIDE DEF P
  <2> QED
    BY <2>8, Zenon
<1>2. Reading(v) = CHOOSE f : P(f)
  BY DEF Reading
<1> HIDE DEF P
<1>3. P(CHOOSE f : P(f))
  BY <1>1, Zenon
<1>4. P(Reading(v))
  BY <1>2, <1>3
<1>5. Reading(v) = [n \in 0..Len(v) |-> IF n = 0 THEN Start ELSE ReadOn(Reading(v)[n - 1], v[n])]
  BY <1>4 DEF P
<1> HIDE DEF P
<1>6. \A n \in 0..Len(v) : Reading(v)[n] = IF n = 0 THEN Start ELSE ReadOn(Reading(v)[n - 1], v[n])
  BY <1>5, Zenon
<1>7. ASSUME NEW n \in 1..Len(v) PROVE Reading(v)[n] = ReadOn(Reading(v)[n - 1], v[n])
  <2>1. n \in 0..Len(v) /\ n # 0
    OBVIOUS
  <2> QED
    BY <1>6, <2>1, Zenon
<1>8. Reading(v)[0] = Start
  <2>1. 0 \in 0..Len(v)
    OBVIOUS
  <2> QED
    BY <1>6, <2>1, Zenon
<1> QED
  BY <1>7, <1>8

\* In a value every bracket that is closed was opened.
LEMMA ReadingInValue ==
    ASSUME NEW v, IsValue(v)
    PROVE  \A n \in 0..Len(v) : Reading(v)[n] \in [depth: Nat, text: {"none", "string", "escape"}]
<1> DEFINE R == [depth: Nat, text: {"none", "string", "escape"}]
           T == {n \in 0..Len(v) : Reading(v)[n] \in R}
<1>0. Len(v) \in Nat
  <2>1. v \in Seq(STRING)
    BY DEF IsValue
  <2> QED
    BY <2>1
<1>1. 0 \in T
  BY <1>0, ReadingIs DEF Start
<1>2. ASSUME NEW n \in 0..Len(v), n > 0, n - 1 \in T PROVE n \in T
  <2>0. PICK s : s = Reading(v)[n - 1]
    OBVIOUS
  <2>1. n \in 1..Len(v) /\ s \in R
    BY <1>0, <1>2, <2>0
  <2>2. s = Start => v[n] \notin {"}", "]"}
    BY <2>0, <2>1 DEF IsValue
  <2>3. Reading(v)[n] = ReadOn(s, v[n])
    BY <1>0, <2>0, <2>1, ReadingIs
  <2>4. s.text = "none" /\ v[n] \in {"}", "]"} => s.depth > 0
    <3>1. s = [depth |-> s.depth, text |-> s.text] /\ s.depth \in Nat
      BY <2>1
    <3>2. s.depth = 0 /\ s.text = "none" => s = Start
      BY <3>1 DEF Start
    <3>3. s.depth \in Nat
      BY <2>1
    <3>4. s.depth # 0 => s.depth > 0
      BY <3>3
    <3> QED
      BY <2>2, <3>2, <3>4, Zenon
  <2>5. ReadOn(s, v[n]) \in R
    <3>4. s.depth \in Nat
      BY <2>1
    <3>1. CASE s.text = "escape"
      BY <2>1, <3>1 DEF ReadOn
    <3>2. CASE s.text = "string"
      BY <2>1, <3>2 DEF ReadOn
    <3>3. CASE s.text = "none"
      <4>1. CASE v[n] = "\""
        BY <2>1, <3>3, <4>1 DEF ReadOn
      <4>2. CASE v[n] \in {"{", "["}
        <5>1. ReadOn(s, v[n]) = [s EXCEPT !.depth = @ + 1]
          BY <3>3, <4>2 DEF ReadOn
        <5>2. s.depth + 1 \in Nat
          BY <3>4
        <5> QED
          BY <2>1, <5>1, <5>2
      <4>3. CASE v[n] \in {"}", "]"}
        <5>1. s.depth - 1 \in Nat
          <6>1. s.depth > 0
            BY <2>4, <3>3, <4>3, Zenon
          <6> QED
            BY <3>4, <6>1
        <5>2. ReadOn(s, v[n]) = [s EXCEPT !.depth = @ - 1]
          BY <3>3, <4>3 DEF ReadOn
        <5> QED
          BY <2>1, <5>1, <5>2
      <4>4. CASE v[n] \notin {"\"", "{", "[", "}", "]"}
        BY <2>1, <3>3, <4>4 DEF ReadOn
      <4> QED
        BY <4>1, <4>2, <4>3, <4>4
    <3> QED
      BY <2>1, <3>1, <3>2, <3>3
  <2> QED
    BY <1>0, <2>3, <2>5
<1>3. \A n \in 0..Len(v) : n > 0 /\ n - 1 \in T => n \in T
  BY <1>2
<1> HIDE DEF T
<1>4. \A n \in 0..Len(v) : n \in T
  BY <1>0, <1>1, <1>3, UpTo, Zenon
<1> QED
  BY <1>4 DEF T

\* What an object is made of.
LEMMA ObjectFacts ==
    ASSUME NEW f \in Objects
    PROVE  /\ Len(f) \in Nat /\ DOMAIN f = 1..Len(f) /\ (Len(f) = 0 <=> f = <<>>)
           /\ \A i \in 1..Len(f) : f[i][1] \in Keys /\ IsValue(f[i][2]) /\ (f[i][1] = "id" => IsId(f[i][2]))
           /\ \A i, j \in 1..Len(f) : f[i][1] = f[j][1] => i = j
           /\ \A i, j \in 1..Len(f) : ~(f[i][1] = "method" /\ f[j][1] \in {"result", "error"})
<1>1. PICK n \in 0..MaxFields : f \in [1..n -> Field]
  BY DEF Objects
<1>2. n \in Nat
  BY ScanAssumption
<1>3. f \in Seq(Field) /\ Len(f) = n
  BY <1>1, <1>2
<1>4. ASSUME NEW i \in 1..Len(f)
      PROVE  f[i][1] \in Keys /\ IsValue(f[i][2]) /\ (f[i][1] = "id" => IsId(f[i][2]))
  <2>1. f[i] \in Field
    BY <1>3
  <2>2. CASE \E k \in Keys \ {"id"}, v \in Values : f[i] = <<k, v>>
    <3>1. PICK k \in Keys \ {"id"}, v \in Values : f[i] = <<k, v>>
      BY <2>2
    <3>2. f[i][1] = k /\ f[i][2] = v
      BY <3>1
    <3>3. IsValue(v)
      BY ScanAssumption
    <3> QED
      BY <3>2, <3>3
  <2>3. CASE \E v \in Ids : f[i] = <<"id", v>>
    <3>1. PICK v \in Ids : f[i] = <<"id", v>>
      BY <2>3
    <3>2. f[i][1] = "id" /\ f[i][2] = v
      BY <3>1
    <3>3. IsId(v) /\ IsValue(v)
      BY ScanAssumption DEF IsId
    <3>4. "id" \in Keys
      BY DEF Keys
    <3> QED
      BY <3>2, <3>3, <3>4
  <2> QED
    BY <2>1, <2>2, <2>3 DEF Field
<1>5. DOMAIN f = 1..Len(f)
  BY <1>3
<1>6. \A i, j \in DOMAIN f :
         (f[i][1] = f[j][1] => i = j) /\ ~(f[i][1] = "method" /\ f[j][1] \in {"result", "error"})
  BY Zenon DEF Objects
<1> HIDE DEF Keys
<1> QED
  BY <1>2, <1>3, <1>4, <1>5, <1>6

\* A value, and a key, are tokens.
LEMMA FieldTokens ==
    ASSUME NEW f \in Objects, NEW i \in 1..Len(f)
    PROVE  f[i][1] \in Tokens /\ f[i][2] \in Seq(Tokens)
<1>1. f[i][1] \in Keys /\ IsValue(f[i][2])
  BY ObjectFacts
<1>2. f[i][1] \in Tokens
  BY <1>1, Zenon DEF Tokens
<1>3. f[i][2] \in Seq(STRING)
  BY <1>1 DEF IsValue
<1>4. STRING \subseteq Tokens
  BY DEF Tokens
<1>5. f[i][2] \in Seq(Tokens)
  BY <1>3, <1>4, SeqMonotonic
<1> QED
  BY <1>2, <1>5

\* The punctuation, too.
LEMMA Punctuation ==
    {"\"", ":", ",", "{", "}", " ", "newline"} \subseteq Tokens
BY DEF Tokens, Space

\* Two tokens are, and four.
LEMMA FewTokens ==
    ASSUME NEW S, NEW a \in S, NEW b \in S, NEW c \in S, NEW d \in S
    PROVE  <<>> \in Seq(S) /\ <<a>> \in Seq(S) /\ <<a, b>> \in Seq(S) /\ <<a, b, c, d>> \in Seq(S)
OBVIOUS

\* A sequence with one token in front, by its elements.
LEMMA InFrontAt ==
    ASSUME NEW S, NEW s \in Seq(S), NEW b \in S
    PROVE  /\ <<b>> \o s \in Seq(S) /\ Len(<<b>> \o s) = Len(s) + 1
           /\ (<<b>> \o s)[1] = b /\ \A i \in 1..Len(s) : (<<b>> \o s)[i + 1] = s[i]
<1>1. <<b>> \in Seq(S) /\ Len(<<b>>) = 1
  OBVIOUS
<1>2. /\ <<b>> \o s \in Seq(S) /\ Len(<<b>> \o s) = 1 + Len(s)
      /\ \A i \in 1..(1 + Len(s)) : (<<b>> \o s)[i] = IF i <= 1 THEN <<b>>[i] ELSE s[i - 1]
  BY <1>1, ConcatProperties
<1> QED
  BY <1>2

\* Few tokens are put together one by one.
LEMMA OneByOne ==
    \A a, b, c, d \in Tokens :
        <<a, b>> = <<a>> \o <<b>> /\ <<a, b, c, d>> = <<a>> \o (<<b>> \o (<<c>> \o <<d>>))
<1> TAKE a, b, c, d \in Tokens
<1> DEFINE S == Tokens
<1>1. /\ <<b>> \in Seq(S) /\ <<d>> \in Seq(S) /\ <<c, d>> \in Seq(S) /\ <<a, b>> \in Seq(S)
      /\ <<b, c, d>> \in Seq(S) /\ <<a, b, c, d>> \in Seq(S)
  OBVIOUS
<1>2. \A x, y \in S : <<x>> \o <<y>> = <<x, y>>
  <2> TAKE x, y \in S
  <2>1. <<y>> \in Seq(S) /\ <<x, y>> \in Seq(S)
    OBVIOUS
  <2> DEFINE s == <<x>> \o <<y>>
  <2>2. s \in Seq(S) /\ Len(s) = 2 /\ s[1] = x /\ s[1 + 1] = y
    BY <2>1, InFrontAt
  <2> HIDE DEF s
  <2>3. Len(s) = Len(<<x, y>>) /\ \A i \in 1..Len(s) : s[i] = <<x, y>>[i]
    BY <2>2
  <2>4. s = <<x, y>>
    BY <2>1, <2>2, <2>3, SeqEqual
  <2> QED
    BY <2>4 DEF s
<1>3. <<b>> \o <<c, d>> = <<b, c, d>>
  <2> DEFINE s == <<b>> \o <<c, d>>
  <2>1. s \in Seq(S) /\ Len(s) = 3 /\ s[1] = b /\ s[1 + 1] = c /\ s[2 + 1] = d
    BY <1>1, InFrontAt
  <2> HIDE DEF s
  <2>2. Len(s) = Len(<<b, c, d>>) /\ \A i \in 1..Len(s) : s[i] = <<b, c, d>>[i]
    BY <2>1
  <2>3. s = <<b, c, d>>
    BY <1>1, <2>1, <2>2, SeqEqual
  <2> QED
    BY <2>3 DEF s
<1>4. <<a>> \o <<b, c, d>> = <<a, b, c, d>>
  <2> DEFINE s == <<a>> \o <<b, c, d>>
  <2>1. s \in Seq(S) /\ Len(s) = 4 /\ s[1] = a /\ s[1 + 1] = b /\ s[2 + 1] = c /\ s[3 + 1] = d
    BY <1>1, InFrontAt
  <2> HIDE DEF s
  <2>2. Len(s) = Len(<<a, b, c, d>>) /\ \A i \in 1..Len(s) : s[i] = <<a, b, c, d>>[i]
    BY <2>1
  <2>3. s = <<a, b, c, d>>
    BY <1>1, <2>1, <2>2, SeqEqual
  <2> QED
    BY <2>3 DEF s
<1>5. <<a>> \o <<b>> = <<a, b>> /\ <<c>> \o <<d>> = <<c, d>>
  BY <1>2, Zenon
<1> QED
  BY <1>3, <1>4, <1>5, Zenon

\* Parts of a line are joined in any grouping.
LEMMA Joined == \A a, b, c \in Seq(Tokens) : (a \o b) \o c = a \o (b \o c)
<1> TAKE a, b, c \in Seq(Tokens)
<1> QED
  BY ConcatAssociative

\* A key, what is on either side of it, and a value.
LEMMA JoinedMember ==
    \A q, n, c, v \in Seq(Tokens) : (q \o (n \o (q \o c))) \o v = q \o (n \o (q \o (c \o v)))
<1> TAKE q, n, c, v \in Seq(Tokens)
<1>1. q \o c \in Seq(Tokens)
  BY ConcatProperties
<1>2. n \o (q \o c) \in Seq(Tokens)
  BY <1>1, ConcatProperties
<1>3. (q \o (n \o (q \o c))) \o v = q \o ((n \o (q \o c)) \o v)
  BY <1>2, Joined, ZenonT(40)
<1>4. (n \o (q \o c)) \o v = n \o ((q \o c) \o v)
  BY <1>1, Joined, ZenonT(40)
<1>5. (q \o c) \o v = q \o (c \o v)
  BY Joined, Zenon
<1> QED
  BY <1>3, <1>4, <1>5, Zenon

\* A member is tokens.
LEMMA MemberIsTokens ==
    ASSUME NEW f \in Objects, NEW i \in 1..Len(f)
    PROVE  Member(f, i) \in Seq(Tokens)
<1>1. f[i][1] \in Tokens /\ f[i][2] \in Seq(Tokens)
  BY FieldTokens
<1> DEFINE sep == IF i = 1 THEN <<>> ELSE <<",">>
           key == <<"\"", f[i][1], "\"", ":">>
<1>2. "," \in Tokens /\ "\"" \in Tokens /\ ":" \in Tokens
  BY Punctuation
<1>3. sep \in Seq(Tokens)
  BY <1>2, FewTokens
<1>4. key \in Seq(Tokens)
  BY <1>1, <1>2, FewTokens
<1> HIDE DEF sep, key
<1>5. sep \o key \in Seq(Tokens)
  BY <1>3, <1>4, ConcatProperties
<1>6. (sep \o key) \o f[i][2] \in Seq(Tokens)
  BY <1>1, <1>5, ConcatProperties
<1> QED
  BY <1>6 DEF Member, sep, key

\* Members is what its definition says.
LEMMA MembersIs ==
    ASSUME NEW f \in Objects
    PROVE  /\ Members(f)[0] = <<>>
           /\ \A n \in 1..Len(f) : Members(f)[n] = Members(f)[n - 1] \o Member(f, n)
<1> DEFINE P(g) == g = [n \in 0..Len(f) |-> IF n = 0 THEN <<>> ELSE g[n - 1] \o Member(f, n)]
<1>0. Len(f) \in Nat
  BY ObjectFacts
<1>1. \E g : P(g)
  <2> DEFINE G == [n \in 1..Len(f) |-> [s \in Seq(Tokens) |-> s \o Member(f, n)]]
             N == Len(f)
             S == Seq(Tokens)
             e == <<>>
  <2>1. e \in S
    OBVIOUS
  <2>2. \A n \in 1..N : \A s \in S : G[n][s] = s \o Member(f, n)
    OBVIOUS
  <2>3. \A n \in 1..N : \A s \in S : s \o Member(f, n) \in S
    BY MemberIsTokens, ConcatProperties
  <2>4. N \in Nat
    BY <1>0
  <2> HIDE DEF G, N, S, e
  <2>5. \A n \in 1..N : \A s \in S : G[n][s] \in S
    BY <2>2, <2>3
  <2>6. PICK g : Recursion(g, N, S, e, G)
    BY <2>1, <2>4, <2>5, RecursionExists, Zenon
  <2>7. ASSUME NEW n \in 0..N PROVE g[n] = IF n = 0 THEN e ELSE g[n - 1] \o Member(f, n)
    <3>1. CASE n = 0
      BY <3>1, <2>6 DEF Recursion
    <3>2. CASE n # 0
      <4>1. n \in 1..N /\ n - 1 \in 0..N
        BY <3>2, <2>4
      <4>2. g[n] = G[n][g[n - 1]] /\ g[n - 1] \in S
        BY <4>1, <2>6 DEF Recursion
      <4>3. g[n] = g[n - 1] \o Member(f, n)
        BY <4>1, <4>2, <2>2
      <4> QED
        BY <3>2, <4>3
    <3> QED
      BY <3>1, <3>2
  <2>8. g = [n \in 0..N |-> IF n = 0 THEN e ELSE g[n - 1] \o Member(f, n)]
    BY <2>6, <2>7 DEF Recursion
  <2>9. P(g)
    BY <2>8 DEF N, e
  <2> HIDE DEF P
  <2> QED
    BY <2>9, Zenon
<1>2. Members(f) = CHOOSE g : P(g)
  BY DEF Members
<1> HIDE DEF P
<1>3. P(CHOOSE g : P(g))
  BY <1>1, Zenon
<1>4. P(Members(f))
  BY <1>2, <1>3
<1>5. Members(f) = [n \in 0..Len(f) |-> IF n = 0 THEN <<>> ELSE Members(f)[n - 1] \o Member(f, n)]
  BY <1>4 DEF P
<1> HIDE DEF P
<1>6. \A n \in 0..Len(f) : Members(f)[n] = IF n = 0 THEN <<>> ELSE Members(f)[n - 1] \o Member(f, n)
  BY <1>5, Zenon
<1>7. ASSUME NEW n \in 1..Len(f) PROVE Members(f)[n] = Members(f)[n - 1] \o Member(f, n)
  <2>1. n \in 0..Len(f) /\ n # 0
    BY <1>0
  <2> QED
    BY <1>6, <2>1, Zenon
<1>8. Members(f)[0] = <<>>
  <2>1. 0 \in 0..Len(f)
    BY <1>0
  <2> QED
    BY <1>6, <2>1, Zenon
<1> QED
  BY <1>7, <1>8

\* And they are tokens.
LEMMA MembersAreTokens ==
    ASSUME NEW f \in Objects
    PROVE  \A n \in 0..Len(f) : Members(f)[n] \in Seq(Tokens)
<1> DEFINE T == {n \in 0..Len(f) : Members(f)[n] \in Seq(Tokens)}
<1>0. Len(f) \in Nat
  BY ObjectFacts
<1>1. 0 \in T
  <2>1. Members(f)[0] = <<>>
    BY MembersIs
  <2>2. <<>> \in Seq(Tokens)
    OBVIOUS
  <2>3. 0 \in 0..Len(f)
    BY <1>0
  <2> QED
    BY <2>1, <2>2, <2>3, Zenon
<1>2. ASSUME NEW n \in 0..Len(f), n > 0, n - 1 \in T PROVE n \in T
  <2>1. n \in 1..Len(f) /\ Members(f)[n - 1] \in Seq(Tokens)
    BY <1>0, <1>2
  <2>2. Member(f, n) \in Seq(Tokens)
    BY <2>1, MemberIsTokens
  <2>3. Members(f)[n] = Members(f)[n - 1] \o Member(f, n)
    BY <2>1, MembersIs
  <2>4. Members(f)[n - 1] \o Member(f, n) \in Seq(Tokens)
    BY <2>1, <2>2, ConcatProperties
  <2> QED
    BY <1>0, <2>3, <2>4
<1>3. \A n \in 0..Len(f) : n > 0 /\ n - 1 \in T => n \in T
  BY <1>2
<1> HIDE DEF T
<1>4. \A n \in 0..Len(f) : n \in T
  BY <1>0, <1>1, <1>3, UpTo, Zenon
<1> QED
  BY <1>4 DEF T

-----------------------------------------------------------------------------
(* LineScan: as long as it reads on, the scan is a function of the place   *)
(* in the line.                                                            *)

Outcome == {"result", "error", "method"}

\* What the first i fields of f say.
HasBy(f, i) == {f[j][1] : j \in 1..i} \cap Outcome
IdBy(f, i) ==
    IF \E j \in 1..i : f[j][1] = "id" THEN f[CHOOSE j \in 1..i : f[j][1] = "id"][2] ELSE <<>>

\* What is held of n bytes of an id.
Cut(v, n) == SubSeq(v, 1, IF n < MaxIdBytes THEN n ELSE MaxIdBytes)

Holds(s, v, n) == s.id = Cut(v, n) /\ (s.tooLong <=> n > MaxIdBytes)

\* The fields of a LineScan.
Parts == {"at", "depth", "inString", "escaped", "key", "readingId", "id", "tooLong", "has"}

\* Where a key is expected, after i fields, and in it, when k of it has passed.
Knows(s, f, i) ==
    /\ DOMAIN s = Parts
    /\ ~s.escaped /\ ~s.readingId /\ s.has = HasBy(f, i) /\ Holds(s, IdBy(f, i), Len(IdBy(f, i)))

BeforeKey(s, f, i) == Knows(s, f, i) /\ s.at = "Key" /\ s.depth = 1 /\ ~s.inString
InKey(s, f, i, k) == Knows(s, f, i) /\ s.at = "Key" /\ s.depth = 1 /\ s.inString /\ s.key = k

\* After the key of field i.
AfterKey(s, f, i) ==
    /\ DOMAIN s = Parts
    /\ s.at = "Colon" /\ s.depth = 1 /\ ~s.inString /\ ~s.escaped
    /\ s.readingId <=> f[i][1] = "id"
    /\ s.has = HasBy(f, i) /\ Holds(s, IdBy(f, i - 1), Len(IdBy(f, i - 1)))

\* After n tokens of the value of field i.
InValue(s, f, i, n) ==
    LET v == f[i][2] IN
    /\ DOMAIN s = Parts
    /\ s.at = "Value" /\ s.depth = 1 + Reading(v)[n].depth
    /\ s.inString <=> Reading(v)[n].text # "none"
    /\ s.escaped <=> Reading(v)[n].text = "escape"
    /\ n # Len(v) => (s.readingId <=> f[i][1] = "id")
    /\ s.has = HasBy(f, i)
    /\ Holds(s, IdBy(f, i), IF f[i][1] = "id" THEN n ELSE Len(IdBy(f, i)))

\* What is left of the line after i fields, and from a place in field i.
After(f, i) == SubSeq(Bytes(f), Len(Members(f)[i]) + 2, Len(Bytes(f)))
FromValue(f, i, n) == SubSeq(f[i][2], n + 1, Len(f[i][2])) \o After(f, i)
FromColon(f, i) == <<":">> \o FromValue(f, i, 0)
FromClose(f, i) == <<"\"">> \o FromColon(f, i)
FromName(f, i) == <<f[i][1]>> \o FromClose(f, i)
FromKey(f, i) == <<"\"">> \o FromName(f, i)

\* A token of JSON is where the value's own reading says, and after some bytes
\* of an id that is plain, and before the others, it is in plain bytes.
Between(l) == l \in {"none", "plain"}
LexedTo(l, f, i, n) ==
    LET v == f[i][2] IN
    /\ IF Reading(v)[n].text = "none" THEN Between(l) ELSE l = Reading(v)[n].text
    /\ f[i][1] = "id" /\ n # 0 /\ n # Len(v) /\ Reading(v)[n].text = "none" => l = "plain"

\* With r of the line f to come, after tokens that end in l, the scan s is where
\* it has to be, and knows what there is to know.
InField(s, l, r, f, i) ==
    \/ r = FromKey(f, i) /\ BeforeKey(s, f, i - 1) /\ Between(l)
    \/ r = FromName(f, i) /\ InKey(s, f, i - 1, <<>>) /\ l = "string"
    \/ r = FromClose(f, i) /\ InKey(s, f, i - 1, <<f[i][1]>>) /\ l = "string"
    \/ r = FromColon(f, i) /\ AfterKey(s, f, i) /\ Between(l)
    \/ \E n \in 0..Len(f[i][2]) : r = FromValue(f, i, n) /\ InValue(s, f, i, n) /\ LexedTo(l, f, i, n)

Tracks(s, l, r, f) ==
    \/ r = Bytes(f) /\ s = NewScan /\ Between(l)
    \/ \E i \in 1..Len(f) : InField(s, l, r, f, i)
    \/ f = <<>> /\ r = After(f, 0) /\ BeforeKey(s, f, 0)
    \/ r = <<"newline">> /\ Knows(s, f, Len(f))

\* What the scan says of the line, if it ends here, and what the line says.
Verdict(s) ==
    IF s.has \cap {"result", "error"} # {} /\ "method" \notin s.has /\ ~s.tooLong
    THEN s.id ELSE <<>>

Truth(f) ==
    LET names == {f[j][1] : j \in 1..Len(f)}
        id == IdBy(f, Len(f))
    IN  IF names \cap {"result", "error"} # {} /\ "method" \notin names /\ Len(id) <= MaxIdBytes
        THEN id ELSE <<>>

\* The line is settled, and rightly.
Settled(s, f) == s.at = "Settled" /\ Verdict(s) = Truth(f)

ScanInv ==
    /\ fields \in Objects
    /\ rest \in Seq(Tokens) /\ (rest # <<>> => rest[Len(rest)] = "newline")
    /\ IF rest = <<>> THEN scan = NewScan /\ lexed = "none" /\ found.answers = Truth(fields)
       ELSE Settled(scan, fields) \/ Tracks(scan, lexed, rest, fields)

\* A line after i members is another member and what follows that.
LEMMA AfterIs ==
    ASSUME NEW f \in Objects
    PROVE  \A i \in 0..Len(f) :
              /\ After(f, i) \in Seq(Tokens)
              /\ Bytes(f) = (<<"{">> \o Members(f)[i]) \o After(f, i)
<1> DEFINE Z(i) == <<"{">> \o Members(f)[i]
           N == Len(f)
           T == {n \in 0..N : \E t \in Seq(Tokens) : Bytes(f) = Z(N - n) \o t}
<1>0. N \in Nat
  BY ObjectFacts
<1>1. \A i \in 0..N : Z(i) \in Seq(Tokens) /\ Len(Z(i)) = 1 + Len(Members(f)[i]) /\ Len(Members(f)[i]) \in Nat
  <2> SUFFICES ASSUME NEW i \in 0..N
               PROVE  Z(i) \in Seq(Tokens) /\ Len(Z(i)) = 1 + Len(Members(f)[i]) /\ Len(Members(f)[i]) \in Nat
    OBVIOUS
  <2>1. Members(f)[i] \in Seq(Tokens)
    BY MembersAreTokens
  <2>2. "{" \in Tokens
    BY Punctuation
  <2>3. <<"{">> \in Seq(Tokens) /\ Len(<<"{">>) = 1
    BY <2>2, FewTokens
  <2> DEFINE b == <<"{">>
             x == Members(f)[i]
  <2>4. b \in Seq(Tokens) /\ Len(b) = 1 /\ x \in Seq(Tokens)
    BY <2>1, <2>3
  <2> HIDE DEF b, x
  <2>5. b \o x \in Seq(Tokens) /\ Len(b \o x) = Len(b) + Len(x)
    BY <2>4, ConcatProperties, Zenon
  <2>6. Len(x) \in Nat
    BY <2>4
  <2> QED
    BY <2>4, <2>5, <2>6 DEF b, x
<1>2. 0 \in T
  <2>1. "}" \in Tokens /\ "newline" \in Tokens
    BY Punctuation
  <2>2. <<"}", "newline">> \in Seq(Tokens)
    BY <2>1, FewTokens
  <2>3. Bytes(f) = Z(N) \o <<"}", "newline">>
    BY DEF Bytes
  <2>4. 0 \in 0..N /\ N - 0 = N
    BY <1>0
  <2> HIDE DEF Z, N
  <2> QED
    BY <2>2, <2>3, <2>4
<1>3. ASSUME NEW n \in 0..N, n > 0, n - 1 \in T PROVE n \in T
  <2> DEFINE i == N - n
             m == Member(f, i + 1)
  <2>1. i \in 0..N /\ i + 1 \in 1..N /\ N - (n - 1) = i + 1 /\ (i + 1) - 1 = i
    <3> HIDE DEF T, N
    <3> QED
      BY <1>0, <1>3
  <2>2. PICK t \in Seq(Tokens) : Bytes(f) = Z(i + 1) \o t
    BY <1>3, <2>1
  <2>3. Members(f)[i + 1] = Members(f)[i] \o m
    BY <2>1, MembersIs
  <2>4. m \in Seq(Tokens) /\ Members(f)[i] \in Seq(Tokens) /\ Z(i) \in Seq(Tokens)
    BY <1>1, <2>1, MemberIsTokens, MembersAreTokens
  <2>5. <<"{">> \in Seq(Tokens)
    <3>1. "{" \in Tokens
      BY Punctuation
    <3> QED
      BY <3>1, FewTokens
  <2>6. Z(i + 1) = Z(i) \o m
    <3> DEFINE b == <<"{">>
               x == Members(f)[i]
    <3>1. b \in Seq(Tokens) /\ x \in Seq(Tokens) /\ m \in Seq(Tokens)
      BY <2>4, <2>5
    <3>2. Z(i + 1) = b \o (x \o m) /\ Z(i) = b \o x
      BY <2>3
    <3> HIDE DEF b, x, m, Z
    <3>3. b \o (x \o m) = (b \o x) \o m
      BY <3>1, Joined, ZenonT(40)
    <3> QED
      BY <3>2, <3>3
  <2> HIDE DEF Z, m
  <2>7. Bytes(f) = Z(i) \o (m \o t)
    <3> DEFINE z == Z(i)
    <3>1. z \in Seq(Tokens) /\ Bytes(f) = (z \o m) \o t
      BY <2>2, <2>4, <2>6
    <3> HIDE DEF z
    <3>2. Bytes(f) = z \o (m \o t)
      BY <2>4, <3>1, Joined, Zenon
    <3> QED
      BY <3>2 DEF z
  <2>8. m \o t \in Seq(Tokens)
    BY <2>4, ConcatProperties
  <2> HIDE DEF N
  <2> QED
    BY <2>7, <2>8
<1>4. \A n \in 0..N : n > 0 /\ n - 1 \in T => n \in T
  BY <1>3
<1>5. \A n \in 0..N : n \in T
  <2> HIDE DEF T, N
  <2> QED
    BY <1>0, <1>2, <1>4, UpTo, Zenon
<1> QED
  <2> SUFFICES ASSUME NEW i \in 0..N
               PROVE  /\ After(f, i) \in Seq(Tokens)
                      /\ Bytes(f) = (<<"{">> \o Members(f)[i]) \o After(f, i)
    OBVIOUS
  <2>1. N - i \in 0..N /\ N - (N - i) = i
    BY <1>0
  <2> HIDE DEF N, Z
  <2>2. PICK t \in Seq(Tokens) : Bytes(f) = Z(i) \o t
    BY <1>5, <2>1
  <2>3. SubSeq(Z(i) \o t, Len(Z(i)) + 1, Len(Z(i) \o t)) = t
    <3> DEFINE z == Z(i)
    <3>1. z \in Seq(Tokens)
      BY <1>1
    <3> HIDE DEF z
    <3>2. SubSeq(z \o t, Len(z) + 1, Len(z \o t)) = t
      BY <3>1
    <3> QED
      BY <3>2 DEF z
  <2>4. Len(Z(i)) + 1 = Len(Members(f)[i]) + 2
    BY <1>1
  <2>5. After(f, i) = t
    BY <2>2, <2>3, <2>4 DEF After
  <2> QED
    BY <2>2, <2>5 DEF Z

\* The tokens of a line, one by one.
LEMMA LineTokens ==
    ASSUME NEW f \in Objects
    PROVE  /\ Bytes(f) = <<"{">> \o After(f, 0)
           /\ After(f, Len(f)) = <<"}">> \o <<"newline">>
           /\ \A i \in 1..Len(f) :
                 After(f, i - 1) = IF i = 1 THEN FromKey(f, i) ELSE <<",">> \o FromKey(f, i)
           /\ \A i \in 1..Len(f) :
                 /\ FromKey(f, i) \in Seq(Tokens) /\ FromName(f, i) \in Seq(Tokens)
                 /\ FromClose(f, i) \in Seq(Tokens) /\ FromColon(f, i) \in Seq(Tokens)
                 /\ FromValue(f, i, Len(f[i][2])) = After(f, i)
                 /\ \A n \in 0..Len(f[i][2]) : FromValue(f, i, n) \in Seq(Tokens)
<1>0. Len(f) \in Nat
  BY ObjectFacts
<1>a. \A i \in 0..Len(f) :
         /\ After(f, i) \in Seq(Tokens) /\ Members(f)[i] \in Seq(Tokens)
         /\ Bytes(f) = (<<"{">> \o Members(f)[i]) \o After(f, i)
  BY AfterIs, MembersAreTokens
<1>b. /\ "{" \in Tokens /\ "\"" \in Tokens /\ ":" \in Tokens /\ "," \in Tokens
      /\ " " \in Tokens /\ "}" \in Tokens /\ "newline" \in Tokens
  BY Punctuation
<1>c. <<"{">> \in Seq(Tokens)
  BY <1>b, FewTokens
<1>1. Bytes(f) = <<"{">> \o After(f, 0)
  <2>1. 0 \in 0..Len(f)
    BY <1>0
  <2>2. Members(f)[0] = <<>>
    BY MembersIs
  <2>3. <<"{">> \o <<>> = <<"{">>
    OBVIOUS
  <2> QED
    BY <1>a, <2>1, <2>2, <2>3, Zenon
<1>2. After(f, Len(f)) = <<"}">> \o <<"newline">>
  <2> DEFINE z == <<"{">> \o Members(f)[Len(f)]
             e == <<"}", "newline">>
             a == After(f, Len(f))
  <2>1. Len(f) \in 0..Len(f)
    BY <1>0
  <2>2. z \in Seq(Tokens) /\ a \in Seq(Tokens)
    BY <1>a, <1>c, <2>1, ConcatProperties
  <2>3. e \in Seq(Tokens)
    BY <1>b, FewTokens
  <2>4. Bytes(f) = z \o a /\ Bytes(f) = z \o e
    BY <1>a, <2>1 DEF Bytes
  <2>5. e = <<"}">> \o <<"newline">>
    BY <1>b, OneByOne
  <2> HIDE DEF z, a, e
  <2>6. a = e
    BY <2>2, <2>3, <2>4, ConcatSimplifications
  <2> QED
    BY <2>5, <2>6 DEF a
<1>3. ASSUME NEW i \in 1..Len(f)
      PROVE  /\ FromKey(f, i) \in Seq(Tokens) /\ FromName(f, i) \in Seq(Tokens)
             /\ FromClose(f, i) \in Seq(Tokens) /\ FromColon(f, i) \in Seq(Tokens)
             /\ FromValue(f, i, Len(f[i][2])) = After(f, i)
             /\ \A n \in 0..Len(f[i][2]) : FromValue(f, i, n) \in Seq(Tokens)
             /\ FromValue(f, i, 0) = f[i][2] \o After(f, i)
  <2>1. i \in 0..Len(f) /\ f[i][1] \in Tokens /\ f[i][2] \in Seq(Tokens)
    BY <1>0, FieldTokens
  <2> DEFINE v == f[i][2]
             a == After(f, i)
  <2>2. v \in Seq(Tokens) /\ a \in Seq(Tokens)
    BY <1>a, <2>1
  <2>3. \A n \in 0..Len(v) : SubSeq(v, n + 1, Len(v)) \in Seq(Tokens)
    <3> HIDE DEF v
    <3> QED
      BY <2>2
  <2>4. SubSeq(v, Len(v) + 1, Len(v)) = <<>> /\ SubSeq(v, 0 + 1, Len(v)) = v /\ Len(v) \in Nat
    <3> HIDE DEF v
    <3> QED
      BY <2>2
  <2>5. <<>> \o a = a
    <3> HIDE DEF a
    <3> QED
      BY <2>2
  <2>6. \A n \in 0..Len(v) : SubSeq(v, n + 1, Len(v)) \o a \in Seq(Tokens)
    <3> HIDE DEF a, v
    <3> QED
      BY <2>2, <2>3, ConcatProperties
  <2>7. \A n \in 0..Len(v) : FromValue(f, i, n) \in Seq(Tokens)
    BY <2>6 DEF FromValue
  <2>8. FromValue(f, i, Len(v)) = a /\ FromValue(f, i, 0) = v \o a
    BY <2>4, <2>5 DEF FromValue
  <2>9. FromValue(f, i, 0) \in Seq(Tokens)
    BY <2>4, <2>7
  <2>10. FromColon(f, i) \in Seq(Tokens)
    BY <1>b, <2>9, InFront DEF FromColon
  <2>11. FromClose(f, i) \in Seq(Tokens)
    BY <1>b, <2>10, InFront DEF FromClose
  <2>12. FromName(f, i) \in Seq(Tokens)
    BY <2>1, <2>11, InFront DEF FromName
  <2>13. FromKey(f, i) \in Seq(Tokens)
    BY <1>b, <2>12, InFront DEF FromKey
  <2> QED
    BY <2>7, <2>8, <2>10, <2>11, <2>12, <2>13
<1>4. ASSUME NEW i \in 1..Len(f)
      PROVE  After(f, i - 1) = IF i = 1 THEN FromKey(f, i) ELSE <<",">> \o FromKey(f, i)
  <2> DEFINE z == <<"{">> \o Members(f)[i - 1]
             m == Member(f, i)
             k == FromKey(f, i)
             a == After(f, i)
             r == IF i = 1 THEN k ELSE <<",">> \o k
  <2>1. i - 1 \in 0..Len(f) /\ i \in 0..Len(f) /\ f[i][1] \in Tokens /\ f[i][2] \in Seq(Tokens)
    BY <1>0, FieldTokens
  <2>2. /\ z \in Seq(Tokens) /\ After(f, i - 1) \in Seq(Tokens) /\ a \in Seq(Tokens)
        /\ Bytes(f) = z \o After(f, i - 1)
    BY <1>a, <1>c, <2>1, ConcatProperties
  <2>3. m \in Seq(Tokens) /\ Members(f)[i] = Members(f)[i - 1] \o m
    BY MemberIsTokens, MembersIs
  <2>4. Bytes(f) = z \o (m \o a)
    <3> DEFINE b == <<"{">>
               x == Members(f)[i - 1]
    <3>1. /\ b \in Seq(Tokens) /\ x \in Seq(Tokens)
          /\ Bytes(f) = (b \o (x \o m)) \o a /\ z = b \o x
      BY <1>a, <1>c, <2>1, <2>3
    <3> HIDE DEF b, x, m, a, z
    <3>2. b \o (x \o m) = z \o m
      BY <2>3, <3>1, Joined, Zenon
    <3>3. (z \o m) \o a = z \o (m \o a)
      BY <2>2, <2>3, Joined, Zenon
    <3> QED
      BY <3>1, <3>2, <3>3
  <2>5. m \o a = r
    <3> DEFINE v == f[i][2]
               q == <<"\"">>
               n == <<f[i][1]>>
               c == <<":">>
               sep == IF i = 1 THEN <<>> ELSE <<",">>
               key == <<"\"", f[i][1], "\"", ":">>
    <3>a. q \in Seq(Tokens) /\ n \in Seq(Tokens) /\ c \in Seq(Tokens)
      BY <1>b, <2>1, FewTokens
    <3>b. sep \in Seq(Tokens)
      BY <1>b, FewTokens, ZenonT(40)
    <3>c. key \in Seq(Tokens)
      BY <1>b, <2>1, FewTokens
    <3>1. /\ v \in Seq(Tokens) /\ q \in Seq(Tokens) /\ n \in Seq(Tokens) /\ c \in Seq(Tokens)
          /\ sep \in Seq(Tokens) /\ key \in Seq(Tokens)
      BY <2>1, <3>a, <3>b, <3>c
    <3>2. m = (sep \o key) \o v
      BY DEF Member
    <3>3. k = q \o (n \o (q \o (c \o (v \o a))))
      BY <1>3 DEF FromKey, FromName, FromClose, FromColon
    <3>4. key = q \o (n \o (q \o c))
      <4> DEFINE x == "\""
                 y == f[i][1]
                 w == ":"
      <4>1. x \in Tokens /\ y \in Tokens /\ w \in Tokens
        BY <1>b, <2>1
      <4> HIDE DEF x, y, w
      <4>2. <<x, y, x, w>> = <<x>> \o (<<y>> \o (<<x>> \o <<w>>))
        BY <4>1, OneByOne, ZenonT(40)
      <4> QED
        BY <4>2 DEF x, y, w
    <3>5. r = sep \o k
      <4>1. CASE i = 1
        BY <4>1, <1>3
      <4>2. CASE i # 1
        BY <4>2
      <4> QED
        BY <4>1, <4>2
    <3> HIDE DEF v, q, n, c, sep, key, k, m, a, r
    <3>6. key \o (v \o a) = k
      <4>1. v \o a \in Seq(Tokens)
        BY <2>2, <3>1, ConcatProperties
      <4> DEFINE w == v \o a
      <4>2. w \in Seq(Tokens) /\ q \in Seq(Tokens) /\ n \in Seq(Tokens) /\ c \in Seq(Tokens)
        BY <3>1, <4>1
      <4> HIDE DEF w
      <4>3. (q \o (n \o (q \o c))) \o w = q \o (n \o (q \o (c \o w)))
        <5>1. \A x \in Seq(Tokens) : (q \o (n \o (q \o c))) \o x = q \o (n \o (q \o (c \o x)))
          BY <4>2, JoinedMember, ZenonT(60)
        <5>2. w \in Seq(Tokens)
          BY <4>2
        <5> QED
          BY <5>1, <5>2, Zenon
      <4> QED
        BY <3>3, <3>4, <4>3, Zenon DEF w
    <3>7. m \o a = sep \o (key \o (v \o a))
      <4>1. sep \o key \in Seq(Tokens)
        BY <3>1, ConcatProperties
      <4>2. v \o a \in Seq(Tokens)
        BY <2>2, <3>1, ConcatProperties
      <4>3. v \in Seq(Tokens) /\ sep \in Seq(Tokens) /\ key \in Seq(Tokens) /\ a \in Seq(Tokens)
        BY <2>2, <3>1
      <4>4. ((sep \o key) \o v) \o a = (sep \o key) \o (v \o a)
        BY <4>1, <4>3, Joined, Zenon
      <4>5. (sep \o key) \o (v \o a) = sep \o (key \o (v \o a))
        BY <4>2, <4>3, Joined, Zenon
      <4> QED
        BY <3>2, <4>4, <4>5, Zenon
    <3> QED
      BY <3>5, <3>6, <3>7, Zenon
  <2>6. After(f, i - 1) = m \o a
    <3> DEFINE y == After(f, i - 1)
               t == m \o a
    <3>1. y \in Seq(Tokens) /\ t \in Seq(Tokens) /\ z \o y = z \o t
      BY <2>2, <2>3, <2>4, ConcatProperties
    <3> HIDE DEF y, t, z
    <3>2. y = t
      BY <2>2, <3>1, ConcatSimplifications
    <3> QED
      BY <3>2 DEF y, t
  <2> QED
    BY <2>5, <2>6
<1> QED
  BY <1>1, <1>2, <1>3, <1>4

-----------------------------------------------------------------------------
(* What the first fields say.                                              *)

\* One more field.
LEMMA SaidBy ==
    ASSUME NEW f \in Objects
    PROVE  /\ HasBy(f, 0) = {} /\ IdBy(f, 0) = <<>>
           /\ \A i \in 1..Len(f) :
                 /\ HasBy(f, i) = HasBy(f, i - 1) \cup ({f[i][1]} \cap Outcome)
                 /\ f[i][1] = "id" => IdBy(f, i - 1) = <<>> /\ IdBy(f, i) = f[i][2]
                 /\ f[i][1] # "id" => IdBy(f, i) = IdBy(f, i - 1)
<1>0. Len(f) \in Nat
  BY ObjectFacts
<1>1. HasBy(f, 0) = {} /\ IdBy(f, 0) = <<>>
  <2>1. 1..0 = {}
    OBVIOUS
  <2> QED
    BY <2>1 DEF HasBy, IdBy
<1>2. ASSUME NEW i \in 1..Len(f)
      PROVE  /\ HasBy(f, i) = HasBy(f, i - 1) \cup ({f[i][1]} \cap Outcome)
             /\ f[i][1] = "id" => IdBy(f, i - 1) = <<>> /\ IdBy(f, i) = f[i][2]
             /\ f[i][1] # "id" => IdBy(f, i) = IdBy(f, i - 1)
  <2>1. 1..i = (1..(i - 1)) \cup {i} /\ i \notin 1..(i - 1) /\ 1..i \subseteq 1..Len(f)
    BY <1>0
  <2>2. \A j \in 1..i : f[j][1] = f[i][1] => j = i
    BY <2>1, ObjectFacts
  <2>3. HasBy(f, i) = HasBy(f, i - 1) \cup ({f[i][1]} \cap Outcome)
    BY <2>1, Zenon DEF HasBy
  <2>4. CASE f[i][1] = "id"
    <3>1. ~\E j \in 1..(i - 1) : f[j][1] = "id"
      BY <2>1, <2>2, <2>4, Zenon
    <3>2. IdBy(f, i - 1) = <<>>
      BY <3>1, Zenon DEF IdBy
    <3>3. i \in 1..i /\ \A j \in 1..i : f[j][1] = "id" => j = i
      BY <2>1, <2>2, <2>4, Zenon
    <3>4. (CHOOSE j \in 1..i : f[j][1] = "id") = i
      <4> DEFINE Q(j) == j \in 1..i /\ f[j][1] = "id"
      <4>1. Q(i) /\ \A j : Q(j) => j = i
        BY <2>4, <3>3, Zenon
      <4>2. (CHOOSE j \in 1..i : f[j][1] = "id") = CHOOSE j : Q(j)
        OBVIOUS
      <4> HIDE DEF Q
      <4>3. (CHOOSE j : Q(j)) = i
        BY <4>1, Zenon
      <4> QED
        BY <4>2, <4>3
    <3>5. \E j \in 1..i : f[j][1] = "id"
      BY <2>4, <3>3
    <3>6. IdBy(f, i) = f[i][2]
      BY <3>4, <3>5, Zenon DEF IdBy
    <3> QED
      BY <2>3, <2>4, <3>2, <3>6
  <2>5. CASE f[i][1] # "id"
    <3>1. \A j : (j \in 1..i /\ f[j][1] = "id") <=> (j \in 1..(i - 1) /\ f[j][1] = "id")
      BY <2>1, <2>5, Zenon
    <3>2. (CHOOSE j : j \in 1..i /\ f[j][1] = "id") = (CHOOSE j : j \in 1..(i - 1) /\ f[j][1] = "id")
      BY <3>1, Zenon
    <3>3. IdBy(f, i) = IdBy(f, i - 1)
      BY <3>1, <3>2, Zenon DEF IdBy
    <3> QED
      BY <2>3, <2>5, <3>3
  <2> QED
    BY <2>4, <2>5
<1> QED
  BY <1>1, <1>2

\* The id the first fields have is one of theirs, or none, and later fields
\* have no other.
LEMMA IdByIs ==
    ASSUME NEW f \in Objects, NEW i \in 0..Len(f)
    PROVE  /\ IdBy(f, i) \in Seq(Tokens)
           /\ IdBy(f, i) # <<>> => \E j \in 1..i : f[j][1] = "id" /\ IdBy(f, i) = f[j][2]
           /\ IdBy(f, i) # <<>> => IdBy(f, i) = IdBy(f, Len(f))
<1>0. Len(f) \in Nat /\ i \in Nat /\ 1..i \subseteq 1..Len(f)
  BY ObjectFacts
<1>1. CASE ~\E j \in 1..i : f[j][1] = "id"
  <2>1. IdBy(f, i) = <<>>
    BY <1>1, Zenon DEF IdBy
  <2> QED
    BY <2>1
<1>2. CASE \E j \in 1..i : f[j][1] = "id"
  <2>1. PICK j \in 1..i : f[j][1] = "id" /\ IdBy(f, i) = f[j][2]
    BY <1>2, Zenon DEF IdBy
  <2>2. \E k \in 1..Len(f) : f[k][1] = "id"
    BY <1>0, <2>1
  <2>3. PICK k \in 1..Len(f) : f[k][1] = "id" /\ IdBy(f, Len(f)) = f[k][2]
    BY <2>2, Zenon DEF IdBy
  <2>4. j \in 1..Len(f) /\ j = k
    <3>1. \A x, y \in 1..Len(f) : f[x][1] = f[y][1] => x = y
      BY ObjectFacts
    <3> QED
      BY <1>0, <2>1, <2>3, <3>1
  <2>5. f[j][2] \in Seq(Tokens)
    BY <2>4, FieldTokens
  <2> QED
    BY <2>1, <2>3, <2>4, <2>5
<1> QED
  BY <1>1, <1>2

\* Holding one more byte.
LEMMA CutIs ==
    ASSUME NEW v \in Seq(Tokens), NEW n \in 0..Len(v)
    PROVE  /\ Cut(v, n) \in Seq(Tokens) /\ Len(Cut(v, n)) = IF n < MaxIdBytes THEN n ELSE MaxIdBytes
           /\ n = Len(v) /\ n <= MaxIdBytes => Cut(v, n) = v
           /\ n >= MaxIdBytes /\ n < Len(v) => Cut(v, n + 1) = Cut(v, n)
           /\ n < MaxIdBytes /\ n < Len(v) => Cut(v, n + 1) = Append(Cut(v, n), v[n + 1])
<1>0. MaxIdBytes \in Nat
  BY ScanAssumption
<1>1. /\ Cut(v, n) \in Seq(Tokens) /\ Len(Cut(v, n)) = IF n < MaxIdBytes THEN n ELSE MaxIdBytes
  BY <1>0 DEF Cut
<1>2. n = Len(v) /\ n <= MaxIdBytes => Cut(v, n) = v
  <2>1. n = Len(v) /\ n <= MaxIdBytes => Cut(v, n) = SubSeq(v, 1, Len(v))
    BY <1>0 DEF Cut
  <2>2. SubSeq(v, 1, Len(v)) = v
    OBVIOUS
  <2> QED
    BY <2>1, <2>2
<1>3. n >= MaxIdBytes /\ n < Len(v) => Cut(v, n + 1) = Cut(v, n)
  BY <1>0 DEF Cut
<1>4. n < MaxIdBytes /\ n < Len(v) => Cut(v, n + 1) = Append(Cut(v, n), v[n + 1])
  <2> SUFFICES ASSUME n < MaxIdBytes, n < Len(v) PROVE Cut(v, n + 1) = Append(Cut(v, n), v[n + 1])
    OBVIOUS
  <2>1. Cut(v, n) = SubSeq(v, 1, n) /\ Cut(v, n + 1) = SubSeq(v, 1, n + 1)
    <3>1. n + 1 < MaxIdBytes \/ n + 1 = MaxIdBytes
      BY <1>0
    <3> QED
      BY <1>0, <3>1 DEF Cut
  <2>2. SubSeq(v, 1, n + 1) = Append(SubSeq(v, 1, n), v[n + 1])
    OBVIOUS
  <2> QED
    BY <2>1, <2>2
<1> QED
  BY <1>1, <1>2, <1>3, <1>4

\* Once a method is seen, or an id that has ended and an outcome, or all of it,
\* the verdict is the truth.
LEMMA VerdictIsTrue ==
    ASSUME NEW f \in Objects, NEW i \in 0..Len(f), NEW s, s.has = HasBy(f, i),
           \/ "method" \in s.has
           \/ /\ Holds(s, IdBy(f, i), Len(IdBy(f, i)))
              /\ i = Len(f) \/ (s.id # <<>> /\ s.has \cap {"result", "error"} # {})
    PROVE  Verdict(s) = Truth(f)
<1> DEFINE names == {f[j][1] : j \in 1..Len(f)}
           id == IdBy(f, i)
<1>0. Len(f) \in Nat /\ 1..i \subseteq 1..Len(f) /\ MaxIdBytes \in Nat
  BY ObjectFacts, ScanAssumption
<1>1. s.has \subseteq names
  BY <1>0 DEF HasBy
<1>2. "method" \in names => names \cap {"result", "error"} = {}
  BY ObjectFacts
<1>3. CASE "method" \in s.has
  BY <1>1, <1>3 DEF Verdict, Truth
<1>4. CASE /\ Holds(s, id, Len(id))
           /\ i = Len(f) \/ (s.id # <<>> /\ s.has \cap {"result", "error"} # {})
  <2>1. id \in Seq(Tokens) /\ (id # <<>> => id = IdBy(f, Len(f)))
    BY IdByIs
  <2>2. Len(id) \in Nat /\ Len(id) \in 0..Len(id)
    BY <2>1
  <2>3. id = <<>> => Len(id) = 0
    OBVIOUS
  <2>4. Len(id) <= MaxIdBytes => s.id = id
    <3> HIDE DEF id
    <3> QED
      BY <1>4, <2>1, <2>2, CutIs DEF Holds
  <2>5. id = <<>> => s.id = <<>>
    BY <1>0, <2>3, <2>4
  <2>6. i # Len(f) => id = IdBy(f, Len(f))
    BY <1>4, <2>1, <2>5
  <2>7. id = IdBy(f, Len(f))
    BY <2>6
  <2>8. names \cap {"result", "error"} # {} /\ "method" \notin names
        <=> s.has \cap {"result", "error"} # {} /\ "method" \notin s.has
    <3>1. CASE i = Len(f)
      BY <3>1 DEF HasBy, Outcome
    <3>2. CASE i # Len(f)
      BY <1>1, <1>2, <1>4, <3>2
    <3> QED
      BY <3>1, <3>2
  <2>9. ~s.tooLong <=> Len(id) <= MaxIdBytes
    <3> HIDE DEF id
    <3>1. (Len(id) > MaxIdBytes) <=> ~(Len(id) <= MaxIdBytes)
      BY <1>0, <2>2
    <3> QED
      BY <1>4, <3>1, Zenon DEF Holds
  <2> HIDE DEF id, names
  <2>10. Truth(f) = IF names \cap {"result", "error"} # {} /\ "method" \notin names /\ Len(id) <= MaxIdBytes
                    THEN id ELSE <<>>
    BY <2>7 DEF Truth, names
  <2> QED
    BY <2>4, <2>8, <2>9, <2>10, Zenon DEF Verdict
<1> QED
  BY <1>3, <1>4

-----------------------------------------------------------------------------
(* One token.                                                              *)

\* The bracket that opens the line.
LEMMA StepOpen == ASSUME NEW f \in Objects PROVE BeforeKey(Step(NewScan, "{"), f, 0)
<1>0. MaxIdBytes \in Nat
  BY ScanAssumption
<1>1. HasBy(f, 0) = {} /\ IdBy(f, 0) = <<>>
  BY SaidBy
<1>2. Cut(<<>>, Len(<<>>)) = <<>> /\ Len(<<>>) = 0
  <2>1. Cut(<<>>, 0) \in Seq(Tokens) /\ Len(Cut(<<>>, 0)) = 0
    BY <1>0 DEF Cut
  <2> QED
    BY <2>1
<1>3. Step(NewScan, "{") = [NewScan EXCEPT !.depth = 1, !.at = "Key", !.key = <<>>]
  BY DEF Step, NewScan, StructuralByte, Space
<1>4. DOMAIN NewScan = Parts
  BY DEF NewScan, Parts
<1> DEFINE s == NewScan
           t == [s EXCEPT !.depth = 1, !.at = "Key", !.key = <<>>]
<1>5. ~s.inString /\ ~s.escaped /\ ~s.readingId /\ s.id = <<>> /\ ~s.tooLong /\ s.has = {}
  BY DEF NewScan
<1> HIDE DEF s
<1>6. /\ DOMAIN t = Parts /\ t.depth = 1 /\ t.at = "Key"
      /\ ~t.inString /\ ~t.escaped /\ ~t.readingId /\ t.id = <<>> /\ ~t.tooLong /\ t.has = {}
  <2>1. DOMAIN s = Parts
    BY <1>4 DEF s
  <2> QED
    BY <1>5, <2>1 DEF Parts
<1>7. ~(Len(<<>>) > MaxIdBytes)
  BY <1>0, <1>2
<1> HIDE DEF t
<1>8. BeforeKey(t, f, 0)
  BY <1>1, <1>2, <1>6, <1>7, Zenon DEF BeforeKey, Knows, Holds
<1> QED
  BY <1>3, <1>8 DEF s, t

\* White space before a key.
LEMMA StepSpace ==
    ASSUME NEW s, NEW f, NEW i, BeforeKey(s, f, i) PROVE Step(s, " ") = s
BY DEF Step, BeforeKey, Knows, StructuralByte, Space

\* The quote that opens a key.
LEMMA StepQuote ==
    ASSUME NEW s, NEW f, NEW i, BeforeKey(s, f, i) PROVE InKey(Step(s, "\""), f, i, <<>>)
<1>1. Step(s, "\"") = [s EXCEPT !.inString = TRUE, !.key = <<>>]
  BY DEF Step, BeforeKey, StructuralByte, Space
<1> QED
  BY <1>1 DEF BeforeKey, InKey, Knows, Holds, Parts

\* A key, which is none of what closes or escapes.
LEMMA StepName ==
    ASSUME NEW s, NEW f, NEW i, NEW k \in Keys, InKey(s, f, i, <<>>) PROVE InKey(Step(s, k), f, i, <<k>>)
<1>1. k # "\"" /\ k # "\\"
  BY DEF Keys
<1>2. Append(<<>>, k) = <<k>>
  OBVIOUS
<1> DEFINE t == [s EXCEPT !.escaped = ~s.escaped /\ k = "\\", !.inString = ~(~s.escaped /\ k = "\"")]
<1>3. /\ DOMAIN t = Parts /\ ~t.escaped /\ t.inString /\ t.at = s.at /\ t.depth = s.depth /\ t.key = s.key
      /\ t.readingId = s.readingId /\ t.id = s.id /\ t.tooLong = s.tooLong /\ t.has = s.has
  BY <1>1 DEF InKey, Knows, Parts
<1>4. Step(s, k) = [t EXCEPT !.key = Append(@, k)]
  BY <1>1 DEF Step, InKey, Knows, InStringByte, Parts
<1> HIDE DEF t
<1> QED
  BY <1>2, <1>3, <1>4 DEF InKey, Knows, Holds, Parts

\* The quote that closes it.
LEMMA StepClose ==
    ASSUME NEW f \in Objects, NEW i \in 1..Len(f), NEW s, InKey(s, f, i - 1, <<f[i][1]>>)
    PROVE  AfterKey(Step(s, "\""), f, i)
<1> DEFINE k == f[i][1]
           t == [s EXCEPT !.escaped = ~s.escaped /\ "\"" = "\\", !.inString = ~(~s.escaped /\ "\"" = "\"")]
           u == [t EXCEPT !.at = "Colon"]
<1>1. HasBy(f, i) = HasBy(f, i - 1) \cup ({k} \cap Outcome)
  BY SaidBy
<1>2. Step(s, "\"") = KeyEnded(u)
  BY DEF Step, InKey, Knows, InStringByte, Parts
<1>3. /\ DOMAIN u = Parts /\ ~u.escaped /\ ~u.inString /\ u.at = "Colon" /\ u.depth = 1 /\ u.key = <<k>>
      /\ ~u.readingId /\ u.id = s.id /\ u.tooLong = s.tooLong /\ u.has = s.has
  BY DEF InKey, Knows, Parts
<1>4. u.has = HasBy(f, i - 1) /\ Holds(u, IdBy(f, i - 1), Len(IdBy(f, i - 1)))
  <2> HIDE DEF u
  <2> QED
    BY <1>3 DEF InKey, Knows, Holds
<1> HIDE DEF u, t
<1>5. CASE k = "id"
  <2>1. HasBy(f, i) = HasBy(f, i - 1)
    BY <1>1, <1>5 DEF Outcome
  <2>2. KeyEnded(u) = [u EXCEPT !.readingId = TRUE]
    BY <1>3, <1>5 DEF KeyEnded
  <2> QED
    BY <1>2, <1>3, <1>4, <1>5, <2>1, <2>2, ZenonT(40) DEF AfterKey, Parts, Holds
<1>6. CASE k \in Outcome
  <2>1. HasBy(f, i) = HasBy(f, i - 1) \cup {k} /\ k # "id"
    BY <1>1, <1>6 DEF Outcome
  <2>2. <<k>> # <<"id">> /\ Len(<<k>>) = 1 /\ <<k>>[1] = k
    BY <2>1
  <2>3. KeyEnded(u) = [u EXCEPT !.has = @ \cup {k}]
    BY <1>3, <1>6, <2>2 DEF KeyEnded, Outcome
  <2> QED
    BY <1>2, <1>3, <1>4, <2>1, <2>3 DEF AfterKey, Parts, Holds
<1>7. CASE k # "id" /\ k \notin Outcome
  <2>1. HasBy(f, i) = HasBy(f, i - 1)
    BY <1>1, <1>7
  <2>2. <<k>> # <<"id">> /\ <<k>>[1] = k
    BY <1>7
  <2>3. KeyEnded(u) = u
    BY <1>3, <1>7, <2>2 DEF KeyEnded, Outcome
  <2> QED
    BY <1>2, <1>3, <1>4, <1>7, <2>1, <2>3 DEF AfterKey
<1> QED
  BY <1>5, <1>6, <1>7

\* What is known after i fields is right, if it settles the line.
LEMMA SettlesRight ==
    ASSUME NEW f \in Objects, NEW i \in 0..Len(f), NEW s, DOMAIN s = Parts, s.has = HasBy(f, i),
           ~s.readingId => Holds(s, IdBy(f, i), Len(IdBy(f, i)))
    PROVE  SettleIfKnown(s) = s \/ Settled(SettleIfKnown(s), f)
<1> DEFINE t == [s EXCEPT !.at = "Settled"]
<1>1. CASE SettleIfKnown(s) = s
  BY <1>1
<1>2. CASE SettleIfKnown(s) # s
  <2>1. /\ SettleIfKnown(s) = t
        /\ \/ "method" \in s.has
           \/ s.id # <<>> /\ ~s.readingId /\ s.has \cap {"result", "error"} # {}
    BY <1>2, Zenon DEF SettleIfKnown
  <2>2. t.at = "Settled" /\ t.has = s.has /\ t.id = s.id /\ t.tooLong = s.tooLong
    BY DEF Parts
  <2> HIDE DEF t
  <2>3. Holds(s, IdBy(f, i), Len(IdBy(f, i))) => Holds(t, IdBy(f, i), Len(IdBy(f, i)))
    BY <2>2, Zenon DEF Holds
  <2>4. /\ t.has = HasBy(f, i)
        /\ \/ "method" \in t.has
           \/ /\ Holds(t, IdBy(f, i), Len(IdBy(f, i)))
              /\ i = Len(f) \/ (t.id # <<>> /\ t.has \cap {"result", "error"} # {})
    BY <2>1, <2>2, <2>3, Zenon
  <2>5. Verdict(t) = Truth(f)
    BY <2>4, VerdictIsTrue, Zenon
  <2> QED
    BY <2>1, <2>2, <2>5 DEF Settled
<1> QED
  BY <1>1, <1>2

\* What is read of a field that ends after n more or fewer tokens.
LEMMA InFieldIs ==
    ASSUME NEW f \in Objects, NEW i \in 1..Len(f)
    PROVE  /\ i \in 0..Len(f) /\ i - 1 \in 0..Len(f)
           /\ IsValue(f[i][2]) /\ Len(f[i][2]) \in Nat /\ f[i][2] \in Seq(Tokens)
           /\ IdBy(f, i) \in Seq(Tokens) /\ Len(IdBy(f, i)) \in Nat /\ MaxIdBytes \in Nat
           /\ f[i][1] = "id" => IsId(f[i][2]) /\ IdBy(f, i) = f[i][2] /\ Len(f[i][2]) > 0
<1>1. i \in 0..Len(f) /\ i - 1 \in 0..Len(f)
  BY ObjectFacts
<1>2. IsValue(f[i][2]) /\ f[i][2] \in Seq(Tokens) /\ (f[i][1] = "id" => IsId(f[i][2]))
  BY ObjectFacts, FieldTokens
<1>3. IdBy(f, i) \in Seq(Tokens)
  BY <1>1, IdByIs
<1>4. f[i][1] = "id" => IdBy(f, i) = f[i][2]
  BY SaidBy
<1>5. f[i][1] = "id" => f[i][2] # <<>>
  BY <1>2 DEF IsId
<1>6. Len(f[i][2]) \in Nat /\ Len(IdBy(f, i)) \in Nat /\ (f[i][2] # <<>> => Len(f[i][2]) > 0)
  BY <1>2, <1>3
<1> QED
  BY <1>1, <1>2, <1>3, <1>4, <1>5, <1>6, ScanAssumption

\* The colon.
LEMMA StepColon ==
    ASSUME NEW f \in Objects, NEW i \in 1..Len(f), NEW s, AfterKey(s, f, i)
    PROVE  InValue(Step(s, ":"), f, i, 0) \/ Settled(Step(s, ":"), f)
<1> DEFINE t == [s EXCEPT !.at = "Value"]
           v == f[i][2]
<1>0. /\ i \in 0..Len(f) /\ Len(v) \in Nat /\ MaxIdBytes \in Nat
      /\ f[i][1] = "id" => IdBy(f, i) = v /\ Len(v) > 0
  BY InFieldIs
<1>1. Step(s, ":") = SettleIfKnown(t)
  BY DEF Step, AfterKey, StructuralByte, Space
<1>2. /\ DOMAIN t = Parts /\ t.at = "Value" /\ t.depth = 1 /\ ~t.inString /\ ~t.escaped
      /\ t.readingId = s.readingId /\ t.id = s.id /\ t.tooLong = s.tooLong /\ t.has = s.has
  BY DEF AfterKey, Parts
<1> HIDE DEF t
<1>3. t.has = HasBy(f, i) /\ (t.readingId <=> f[i][1] = "id")
  BY <1>2, Zenon DEF AfterKey
<1>4. Holds(t, IdBy(f, i - 1), Len(IdBy(f, i - 1)))
  BY <1>2, Zenon DEF AfterKey, Holds
<1>5. Holds(t, IdBy(f, i), IF f[i][1] = "id" THEN 0 ELSE Len(IdBy(f, i)))
  <2>1. CASE f[i][1] = "id"
    <3>1. IdBy(f, i - 1) = <<>>
      BY <2>1, SaidBy
    <3>2. t.id = Cut(<<>>, Len(<<>>)) /\ (t.tooLong <=> Len(<<>>) > MaxIdBytes)
      BY <1>4, <3>1, Zenon DEF Holds
    <3>3. Len(<<>>) = 0 /\ ~(0 > MaxIdBytes)
      BY <1>0
    <3>4. Cut(<<>>, 0) = <<>> /\ Cut(v, 0) = <<>>
      <4>1. \A w \in Seq(Tokens) : Cut(w, 0) = <<>>
        <5> TAKE w \in Seq(Tokens)
        <5>1. Cut(w, 0) \in Seq(Tokens) /\ Len(Cut(w, 0)) = 0
          BY <1>0, CutIs
        <5> QED
          BY <5>1
      <4>2. <<>> \in Seq(Tokens) /\ v \in Seq(Tokens)
        BY FieldTokens
      <4> QED
        BY <4>1, <4>2
    <3>5. t.id = Cut(v, 0) /\ ~t.tooLong
      BY <3>2, <3>3, <3>4
    <3> QED
      BY <1>0, <2>1, <3>3, <3>5 DEF Holds
  <2>2. CASE f[i][1] # "id"
    <3>1. IdBy(f, i) = IdBy(f, i - 1)
      BY <2>2, SaidBy
    <3> QED
      BY <1>4, <2>2, <3>1
  <2> QED
    BY <2>1, <2>2
<1>6. Reading(v)[0] = [depth |-> 0, text |-> "none"]
  BY <1>0, ReadingIs DEF Start
<1>7. InValue(t, f, i, 0)
  <2>1. /\ t.depth = 1 + Reading(v)[0].depth
        /\ t.inString <=> Reading(v)[0].text # "none"
        /\ t.escaped <=> Reading(v)[0].text = "escape"
    BY <1>2, <1>6
  <2>2. 0 # Len(v) => (t.readingId <=> f[i][1] = "id")
    BY <1>3
  <2> QED
    BY <1>2, <1>3, <1>5, <2>1, <2>2, Zenon DEF InValue
<1>8. ~t.readingId => Holds(t, IdBy(f, i), Len(IdBy(f, i)))
  BY <1>3, <1>5
<1>9. SettleIfKnown(t) = t \/ Settled(SettleIfKnown(t), f)
  BY <1>0, <1>2, <1>3, <1>8, SettlesRight, Zenon
<1> QED
  BY <1>1, <1>7, <1>9

\* Whatever ends the reading of a value's id leaves what is known after i fields.
LEMMA EndsRight ==
    ASSUME NEW f \in Objects, NEW i \in 1..Len(f), NEW s, DOMAIN s = Parts, s.has = HasBy(f, i),
           ~s.escaped, Holds(s, IdBy(f, i), Len(IdBy(f, i)))
    PROVE  \/ Settled(IdEnded(s), f)
           \/ /\ Knows(IdEnded(s), f, i)
              /\ IdEnded(s).at = s.at /\ IdEnded(s).depth = s.depth /\ IdEnded(s).inString = s.inString
              /\ IdEnded(s).key = s.key
<1>0. i \in 0..Len(f)
  BY InFieldIs
<1>1. CASE ~s.readingId
  <2>1. IdEnded(s) = s
    BY <1>1 DEF IdEnded
  <2> QED
    BY <1>1, <2>1 DEF Knows
<1>2. CASE s.readingId
  <2> DEFINE t == [s EXCEPT !.readingId = FALSE]
  <2>1. IdEnded(s) = SettleIfKnown(t)
    BY <1>2 DEF IdEnded
  <2>2. /\ DOMAIN t = Parts /\ t.at = s.at /\ t.depth = s.depth /\ t.inString = s.inString
        /\ ~t.escaped /\ ~t.readingId /\ t.id = s.id /\ t.tooLong = s.tooLong /\ t.has = s.has /\ t.key = s.key
    BY DEF Parts
  <2> HIDE DEF t
  <2>3. Holds(t, IdBy(f, i), Len(IdBy(f, i)))
    BY <2>2, Zenon DEF Holds
  <2>4. t.has = HasBy(f, i)
    BY <2>2
  <2>5. SettleIfKnown(t) = t \/ Settled(SettleIfKnown(t), f)
    BY <1>0, <2>2, <2>3, <2>4, SettlesRight, Zenon
  <2>6. Knows(t, f, i)
    BY <2>2, <2>3, <2>4 DEF Knows
  <2> QED
    BY <2>1, <2>2, <2>5, <2>6
<1> QED
  BY <1>1, <1>2

\* A scan that holds n bytes of an id and is what it was apart from that.
Took(s, t, v, n) ==
    /\ DOMAIN t = Parts /\ Holds(t, v, n) /\ t.at = s.at /\ t.depth = s.depth /\ t.key = s.key
    /\ t.inString = s.inString /\ t.escaped = s.escaped /\ t.readingId = s.readingId /\ t.has = s.has

\* One more byte of an id is held, or counted.
LEMMA TakesRight ==
    ASSUME NEW v \in Seq(Tokens), NEW n \in 0..(Len(v) - 1), NEW s, DOMAIN s = Parts, Holds(s, v, n)
    PROVE  Took(s, TakeIdByte(s, v[n + 1]), v, n + 1)
<1> DEFINE t == TakeIdByte(s, v[n + 1])
<1>0. MaxIdBytes \in Nat /\ n \in 0..Len(v) /\ n < Len(v)
  BY ScanAssumption
<1>1. s.id = Cut(v, n) /\ (s.tooLong <=> n > MaxIdBytes)
  BY DEF Holds
<1>2. Len(Cut(v, n)) = IF n < MaxIdBytes THEN n ELSE MaxIdBytes
  BY <1>0, CutIs
<1>3. CASE n < MaxIdBytes
  <2>1. t = [s EXCEPT !.id = Append(s.id, v[n + 1])]
    BY <1>1, <1>2, <1>3 DEF TakeIdByte
  <2>2. Cut(v, n + 1) = Append(Cut(v, n), v[n + 1])
    BY <1>0, <1>3, CutIs
  <2>3. ~(n > MaxIdBytes) /\ ~(n + 1 > MaxIdBytes)
    BY <1>0, <1>3
  <2> HIDE DEF t
  <2>4. /\ DOMAIN t = Parts /\ t.at = s.at /\ t.depth = s.depth /\ t.key = s.key
        /\ t.inString = s.inString /\ t.escaped = s.escaped /\ t.readingId = s.readingId /\ t.has = s.has
        /\ t.id = Append(s.id, v[n + 1]) /\ t.tooLong = s.tooLong
    BY <2>1 DEF Parts
  <2>5. Holds(t, v, n + 1)
    BY <1>1, <2>2, <2>3, <2>4, Zenon DEF Holds
  <2> QED
    BY <2>4, <2>5 DEF t, Took
<1>4. CASE ~(n < MaxIdBytes)
  <2>1. t = [s EXCEPT !.tooLong = TRUE]
    <3>1. ~(Len(s.id) < MaxIdBytes)
      BY <1>0, <1>1, <1>2, <1>4
    <3> QED
      BY <3>1, Zenon DEF TakeIdByte
  <2>2. Cut(v, n + 1) = Cut(v, n)
    BY <1>0, <1>4, CutIs
  <2>3. n + 1 > MaxIdBytes
    BY <1>0, <1>4
  <2> HIDE DEF t
  <2>4. /\ DOMAIN t = Parts /\ t.at = s.at /\ t.depth = s.depth /\ t.key = s.key
        /\ t.inString = s.inString /\ t.escaped = s.escaped /\ t.readingId = s.readingId /\ t.has = s.has
        /\ t.id = s.id /\ t.tooLong
    BY <2>1 DEF Parts
  <2>5. Holds(t, v, n + 1)
    BY <1>1, <2>2, <2>3, <2>4, Zenon DEF Holds
  <2> QED
    BY <2>4, <2>5 DEF t, Took
<1> QED
  BY <1>3, <1>4

\* The place after n + 1 tokens of a value, from the place after n.
NextPlace(v, n) ==
    LET p == Reading(v)[n]
        q == Reading(v)[n + 1]
        b == v[n + 1]
    IN  /\ p.depth \in Nat /\ p.text \in {"none", "string", "escape"} /\ b # "newline"
        /\ p.text = "escape" => q.text = "string" /\ q.depth = p.depth
        /\ p.text = "string" =>
              /\ q.depth = p.depth
              /\ q.text = IF b = "\\" THEN "escape" ELSE IF b = "\"" THEN "none" ELSE "string"
        /\ p.text = "none" =>
              /\ q.text = IF b = "\"" THEN "string" ELSE "none"
              /\ q.depth = IF b \in {"{", "["} THEN p.depth + 1
                           ELSE IF b \in {"}", "]"} THEN p.depth - 1 ELSE p.depth
              /\ b \in {",", "}", "]"} => p.depth > 0

\* The place after one more token of a value.
LEMMA PlaceAfter ==
    ASSUME NEW v, IsValue(v), NEW n \in 0..(Len(v) - 1)
    PROVE  NextPlace(v, n)
<1>0. Len(v) \in Nat
  <2>1. v \in Seq(STRING)
    BY DEF IsValue
  <2> QED
    BY <2>1
<1>1. n \in 0..Len(v) /\ n + 1 \in 1..Len(v) /\ (n + 1) - 1 = n
  BY <1>0
<1>2. PICK p : p = Reading(v)[n]
  OBVIOUS
<1>3. PICK b : b = v[n + 1]
  OBVIOUS
<1>4. PICK q : q = Reading(v)[n + 1]
  OBVIOUS
<1>5. q = ReadOn(p, b)
  BY <1>0, <1>1, <1>2, <1>3, <1>4, ReadingIs
<1>6. p \in [depth: Nat, text: {"none", "string", "escape"}]
  BY <1>1, <1>2, ReadingInValue
<1>7. b # "newline" /\ (p = Start => b \notin {",", "}", "]"})
  BY <1>1, <1>2, <1>3 DEF IsValue
<1>8. p = [depth |-> p.depth, text |-> p.text] /\ p.depth \in Nat /\ p.text \in {"none", "string", "escape"}
  BY <1>6
<1>9. p.depth = 0 /\ p.text = "none" => p = Start
  BY <1>8 DEF Start
<1>10. p.depth # 0 => p.depth > 0
  BY <1>8
<1>11. p.text = "none" /\ b \in {",", "}", "]"} => p.depth > 0
  BY <1>7, <1>9, <1>10, Zenon
<1>12. p.text = "escape" => q.text = "string" /\ q.depth = p.depth
  BY <1>5, <1>6 DEF ReadOn
<1>13. p.text = "string" => /\ q.depth = p.depth
                            /\ q.text = IF b = "\\" THEN "escape" ELSE IF b = "\"" THEN "none" ELSE "string"
  <2>1. CASE b = "\\"
    BY <2>1, <1>5, <1>6 DEF ReadOn
  <2>2. CASE b = "\""
    BY <2>2, <1>5, <1>6 DEF ReadOn
  <2>3. CASE b # "\"" /\ b # "\\"
    BY <2>3, <1>5, <1>6 DEF ReadOn
  <2> QED
    BY <2>1, <2>2, <2>3
<1>14. p.text = "none" => /\ q.text = IF b = "\"" THEN "string" ELSE "none"
                          /\ q.depth = IF b \in {"{", "["} THEN p.depth + 1
                                       ELSE IF b \in {"}", "]"} THEN p.depth - 1 ELSE p.depth
  <2>1. CASE b = "\""
    BY <2>1, <1>5, <1>6 DEF ReadOn
  <2>2. CASE b \in {"{", "["}
    BY <2>2, <1>5, <1>6 DEF ReadOn
  <2>3. CASE b \in {"}", "]"}
    BY <2>3, <1>5, <1>6 DEF ReadOn
  <2>4. CASE b \notin {"\"", "{", "[", "}", "]"}
    BY <2>4, <1>5, <1>6 DEF ReadOn
  <2> QED
    BY <2>1, <2>2, <2>3, <2>4
<1> QED
  BY <1>2, <1>3, <1>4, <1>7, <1>8, <1>11, <1>12, <1>13, <1>14, Zenon DEF NextPlace

\* One more token of an id.
LEMMA StepIdByte ==
    ASSUME NEW f \in Objects, NEW i \in 1..Len(f), f[i][1] = "id", NEW n \in 0..(Len(f[i][2]) - 1),
           NEW s, InValue(s, f, i, n)
    PROVE  InValue(Step(s, f[i][2][n + 1]), f, i, n + 1) \/ Settled(Step(s, f[i][2][n + 1]), f)
<1> DEFINE v == f[i][2]
           b == v[n + 1]
           p == Reading(v)[n]
           q == Reading(v)[n + 1]
<1>0. /\ IsValue(v) /\ IsId(v) /\ Len(v) \in Nat /\ v \in Seq(Tokens) /\ IdBy(f, i) = v /\ Len(v) > 0
      /\ i \in 0..Len(f) /\ n \in 0..(Len(v) - 1)
  BY InFieldIs
<1> HIDE DEF v
<1>1. /\ DOMAIN s = Parts /\ s.at = "Value" /\ s.depth = 1 + p.depth
      /\ s.inString <=> p.text # "none"
      /\ s.escaped <=> p.text = "escape"
      /\ s.has = HasBy(f, i)
      /\ Holds(s, v, n)
  BY <1>0 DEF InValue, v
<1>2. s.readingId
  <2>1. n # Len(v)
    BY <1>0
  <2> QED
    BY <2>1 DEF InValue, v
<1>3. /\ p.depth \in Nat /\ p.text \in {"none", "string", "escape"} /\ b # "newline"
      /\ p.text = "escape" => q.text = "string" /\ q.depth = p.depth
      /\ p.text = "string" => /\ q.depth = p.depth
                              /\ q.text = IF b = "\\" THEN "escape" ELSE IF b = "\"" THEN "none" ELSE "string"
      /\ p.text = "none" => /\ q.text = IF b = "\"" THEN "string" ELSE "none"
                            /\ q.depth = IF b \in {"{", "["} THEN p.depth + 1
                                         ELSE IF b \in {"}", "]"} THEN p.depth - 1 ELSE p.depth
  <2>1. NextPlace(v, n)
    BY <1>0, PlaceAfter, Zenon
  <2> QED
    BY <2>1, Zenon DEF NextPlace
<1>4. Reading(v)[Len(v)].text = "none"
  <2>1. Reading(v)[Len(v)] = Start
    BY <1>0 DEF IsValue
  <2> QED
    BY <2>1 DEF Start
<1>5. q.text # "none" => n + 1 # Len(v)
  BY <1>4
<1>6. \/ \A x \in 1..Len(v) : v[x] \notin Structure \cup {"\""}
      \/ (v[1] = "\"" /\ \A y \in 1..(Len(v) - 1) : Reading(v)[y].text # "none")
  BY <1>0 DEF IsId
<1>7. n + 1 \in 1..Len(v) /\ (n = 0 \/ n \in 1..(Len(v) - 1)) /\ (n + 1 = Len(v) \/ n + 1 \in 1..(Len(v) - 1))
      /\ 1 \in 1..Len(v)
  BY <1>0
\* A scan that holds one byte more, in the place after it.
<1>8. ASSUME NEW t, DOMAIN t = Parts, t.at = "Value", t.depth = 1 + q.depth, t.has = HasBy(f, i),
             t.inString <=> q.text # "none", t.escaped <=> q.text = "escape", Holds(t, v, n + 1),
             t.readingId <=> ~(n + 1 = Len(v) /\ v[1] = "\"")
      PROVE  InValue(t, f, i, n + 1)
  <2>1. Holds(t, IdBy(f, i), IF f[i][1] = "id" THEN n + 1 ELSE Len(IdBy(f, i)))
    BY <1>0, <1>8
  <2> HIDE DEF p, q, b
  <2> QED
    BY <1>8, <2>1, Zenon DEF InValue, q, v
<1>9. CASE p.text # "none"
  <2> DEFINE t == [s EXCEPT !.escaped = ~s.escaped /\ b = "\\", !.inString = ~(~s.escaped /\ b = "\"")]
             u == TakeIdByte(t, b)
  <2>1. /\ DOMAIN t = Parts /\ t.at = "Value" /\ t.depth = s.depth /\ t.readingId /\ t.has = s.has
        /\ t.id = s.id /\ t.tooLong = s.tooLong
        /\ t.escaped <=> (~s.escaped /\ b = "\\")
        /\ t.inString <=> ~(~s.escaped /\ b = "\"")
    <3> HIDE DEF b, p, q
    <3> QED
      BY <1>1, <1>2 DEF Parts
  <2>2. Step(s, b) = IF ~s.escaped /\ b = "\"" THEN IdEnded(u) ELSE u
    <3> HIDE DEF b, p, q
    <3>1. Step(s, b) = InStringByte(s, b)
      BY <1>1, <1>9 DEF Step
    <3>2. ~(t.depth = 1 /\ t.at = "Key")
      BY <2>1
    <3> HIDE DEF t
    <3>3. InStringByte(s, b) = IF ~s.escaped /\ b = "\"" THEN IdEnded(u) ELSE u
      BY <2>1, <3>2, Zenon DEF InStringByte, t, u
    <3> QED
      BY <3>1, <3>3
  <2>3. Holds(t, v, n)
    BY <1>1, <2>1 DEF Holds
  <2> HIDE DEF t
  <2>4. /\ DOMAIN u = Parts /\ Holds(u, v, n + 1) /\ u.at = t.at /\ u.depth = t.depth
        /\ u.inString = t.inString /\ u.escaped = t.escaped /\ u.readingId = t.readingId /\ u.has = t.has
    <3>1. Took(t, u, v, n + 1)
      BY <1>0, <2>1, <2>3, TakesRight, Zenon DEF b
    <3> QED
      BY <3>1, Zenon DEF Took
  <2> HIDE DEF u, p, q, b
  <2>5. q.depth = p.depth /\ (u.escaped <=> q.text = "escape") /\ (u.inString <=> q.text # "none")
    BY <1>1, <1>3, <1>9, <2>1, <2>4
  <2>6. u.depth = 1 + q.depth /\ u.at = "Value" /\ u.has = HasBy(f, i) /\ u.readingId
    BY <1>1, <2>1, <2>4, <2>5
  <2>7. CASE ~(~s.escaped /\ b = "\"")
    <3>1. q.text # "none"
      BY <2>1, <2>4, <2>5, <2>7
    <3>2. u.readingId <=> ~(n + 1 = Len(v) /\ v[1] = "\"")
      BY <1>5, <2>6, <3>1
    <3>3. InValue(u, f, i, n + 1)
      BY <1>8, <2>4, <2>5, <2>6, <3>2, Zenon
    <3> QED
      BY <2>2, <2>7, <3>3 DEF b, v
  <2>8. CASE ~s.escaped /\ b = "\""
    <3>1. q.text = "none" /\ ~u.inString /\ ~u.escaped
      BY <2>1, <2>4, <2>5, <2>8
    <3>2. v[1] = "\"" /\ n + 1 = Len(v)
      <4>1. b \in {"\""}
        BY <2>8
      <4>2. v[1] = "\"" /\ \A y \in 1..(Len(v) - 1) : Reading(v)[y].text # "none"
        BY <1>6, <1>7, <4>1 DEF b
      <4> QED
        BY <1>7, <3>1, <4>2 DEF q
    <3>3. Holds(u, IdBy(f, i), Len(IdBy(f, i)))
      BY <1>0, <2>4, <3>2
    <3>4. \/ Settled(IdEnded(u), f)
          \/ /\ Knows(IdEnded(u), f, i)
             /\ IdEnded(u).at = u.at /\ IdEnded(u).depth = u.depth /\ IdEnded(u).inString = u.inString
      BY <2>4, <2>6, <3>1, <3>3, EndsRight, Zenon
    <3>5. CASE Settled(IdEnded(u), f)
      BY <2>2, <2>8, <3>5 DEF b, v
    <3>6. CASE /\ Knows(IdEnded(u), f, i)
               /\ IdEnded(u).at = u.at /\ IdEnded(u).depth = u.depth /\ IdEnded(u).inString = u.inString
      <4>1. PICK w : w = IdEnded(u)
        OBVIOUS
      <4>2. /\ DOMAIN w = Parts /\ ~w.escaped /\ ~w.readingId /\ w.has = HasBy(f, i) /\ Holds(w, v, n + 1)
            /\ w.at = "Value" /\ w.depth = 1 + q.depth /\ ~w.inString
        BY <1>0, <2>6, <3>1, <3>2, <3>6, <4>1 DEF Knows
      <4>3. /\ w.inString <=> q.text # "none"
            /\ w.escaped <=> q.text = "escape"
            /\ w.readingId <=> ~(n + 1 = Len(v) /\ v[1] = "\"")
        BY <3>1, <3>2, <4>2
      <4>4. InValue(w, f, i, n + 1)
        BY <1>8, <4>2, <4>3, Zenon
      <4> QED
        BY <2>2, <2>8, <4>1, <4>4 DEF b, v
    <3> QED
      BY <3>4, <3>5, <3>6
  <2> QED
    BY <2>7, <2>8
<1>10. CASE p.text = "none"
  <2>1. ~s.inString /\ ~s.escaped
    BY <1>1, <1>10
  <2>2. CASE b = "\""
    <3> DEFINE t == [s EXCEPT !.inString = TRUE]
               u == TakeIdByte(t, b)
    <3>1. Step(s, b) = u
      <4> HIDE DEF b, p, q
      <4> QED
        BY <1>1, <1>2, <2>1, <2>2 DEF Step, StructuralByte, Space
    <3>2. /\ DOMAIN t = Parts /\ t.at = "Value" /\ t.depth = s.depth /\ t.readingId /\ t.has = s.has
          /\ t.id = s.id /\ t.tooLong = s.tooLong /\ ~t.escaped /\ t.inString
      <4> HIDE DEF b, p, q
      <4> QED
        BY <1>1, <1>2, <2>1 DEF Parts
    <3>3. Holds(t, v, n)
      BY <1>1, <3>2 DEF Holds
    <3> HIDE DEF t
    <3>4. /\ DOMAIN u = Parts /\ Holds(u, v, n + 1) /\ u.at = t.at /\ u.depth = t.depth
          /\ u.inString = t.inString /\ u.escaped = t.escaped /\ u.readingId = t.readingId /\ u.has = t.has
      <4>1. Took(t, u, v, n + 1)
        BY <1>0, <3>2, <3>3, TakesRight, Zenon DEF b
      <4> QED
        BY <4>1, Zenon DEF Took
    <3> HIDE DEF u, p, q, b
    <3>5. q.depth = p.depth /\ q.text = "string"
      BY <1>3, <1>10, <2>2
    <3>6. /\ u.inString <=> q.text # "none"
          /\ u.escaped <=> q.text = "escape"
      BY <3>2, <3>4, <3>5
    <3>7. u.depth = 1 + q.depth /\ u.at = "Value" /\ u.has = HasBy(f, i) /\ u.readingId
      BY <1>1, <3>2, <3>4, <3>5
    <3>8. u.readingId <=> ~(n + 1 = Len(v) /\ v[1] = "\"")
      BY <1>5, <3>5, <3>7
    <3>9. InValue(u, f, i, n + 1)
      BY <1>8, <3>4, <3>6, <3>7, <3>8, Zenon
    <3> QED
      BY <3>1, <3>9 DEF b, v
  <2>3. CASE b # "\""
    <3> DEFINE u == TakeIdByte(s, b)
    <3>1. \A x \in 1..Len(v) : v[x] \notin Structure \cup {"\""}
      <4> HIDE DEF p
      <4>1. ASSUME v[1] = "\"", \A y \in 1..(Len(v) - 1) : Reading(v)[y].text # "none" PROVE FALSE
        <5>1. n = 0 => b = v[1]
          BY <1>0 DEF b
        <5>2. n # 0
          BY <2>3, <4>1, <5>1
        <5>3. n \in 1..(Len(v) - 1)
          BY <1>7, <5>2
        <5> QED
          BY <1>10, <4>1, <5>3 DEF p
      <4> QED
        BY <1>6, <4>1
    <3>2. b \notin Structure \cup {"\""} /\ v[1] # "\""
      BY <1>7, <3>1
    <3>3. Step(s, b) = u
      <4> HIDE DEF b, p, q
      <4> QED
        BY <1>1, <1>2, <2>1, <3>2 DEF Step, StructuralByte, Structure
    <3>4. /\ DOMAIN u = Parts /\ Holds(u, v, n + 1) /\ u.at = s.at /\ u.depth = s.depth
          /\ u.inString = s.inString /\ u.escaped = s.escaped /\ u.readingId = s.readingId /\ u.has = s.has
      <4>1. Took(s, u, v, n + 1)
        BY <1>0, <1>1, TakesRight, Zenon DEF b
      <4> QED
        BY <4>1, Zenon DEF Took
    <3> HIDE DEF u, p, q, b
    <3>5. q.depth = p.depth /\ q.text = "none"
      BY <1>3, <1>10, <3>2 DEF Structure
    <3>6. /\ u.inString <=> q.text # "none"
          /\ u.escaped <=> q.text = "escape"
      BY <2>1, <3>4, <3>5
    <3>7. u.depth = 1 + q.depth /\ u.at = "Value" /\ u.has = HasBy(f, i) /\ u.readingId
      BY <1>1, <1>2, <3>4, <3>5
    <3>8. u.readingId <=> ~(n + 1 = Len(v) /\ v[1] = "\"")
      BY <3>2, <3>7
    <3>9. InValue(u, f, i, n + 1)
      BY <1>8, <3>4, <3>6, <3>7, <3>8, Zenon
    <3> QED
      BY <3>3, <3>9 DEF b, v
  <2> QED
    BY <2>2, <2>3
<1> QED
  BY <1>9, <1>10

\* One more token of any other value: only the place in it changes.
LEMMA StepValueByte ==
    ASSUME NEW f \in Objects, NEW i \in 1..Len(f), f[i][1] # "id", NEW n \in 0..(Len(f[i][2]) - 1),
           NEW s, InValue(s, f, i, n)
    PROVE  InValue(Step(s, f[i][2][n + 1]), f, i, n + 1)
<1> DEFINE v == f[i][2]
           b == v[n + 1]
           p == Reading(v)[n]
           q == Reading(v)[n + 1]
<1>0. IsValue(v) /\ n \in 0..(Len(v) - 1)
  BY InFieldIs
<1> HIDE DEF v
<1>1. /\ DOMAIN s = Parts /\ s.at = "Value" /\ s.depth = 1 + p.depth
      /\ s.inString <=> p.text # "none"
      /\ s.escaped <=> p.text = "escape"
      /\ ~s.readingId /\ s.has = HasBy(f, i)
      /\ Holds(s, IdBy(f, i), Len(IdBy(f, i)))
  <2>1. n # Len(v)
    BY InFieldIs DEF v
  <2> QED
    BY <2>1 DEF InValue, v
<1>2. NextPlace(v, n)
  BY <1>0, PlaceAfter, Zenon
<1>3. /\ p.depth \in Nat /\ p.text \in {"none", "string", "escape"} /\ b # "newline"
      /\ p.text = "escape" => q.text = "string" /\ q.depth = p.depth
      /\ p.text = "string" => /\ q.depth = p.depth
                              /\ q.text = IF b = "\\" THEN "escape" ELSE IF b = "\"" THEN "none" ELSE "string"
      /\ p.text = "none" => /\ q.text = IF b = "\"" THEN "string" ELSE "none"
                            /\ q.depth = IF b \in {"{", "["} THEN p.depth + 1
                                         ELSE IF b \in {"}", "]"} THEN p.depth - 1 ELSE p.depth
                            /\ b \in {",", "}", "]"} => p.depth > 0
  BY <1>2, Zenon DEF NextPlace
\* A scan that is what it was, in the place after the token.
<1>4. ASSUME NEW t, DOMAIN t = Parts, t.at = s.at, t.depth = 1 + q.depth, t.has = s.has, t.id = s.id,
             t.tooLong <=> s.tooLong, ~t.readingId, t.inString <=> q.text # "none", t.escaped <=> q.text = "escape"
      PROVE  InValue(t, f, i, n + 1)
  <2>1. Holds(t, IdBy(f, i), Len(IdBy(f, i)))
    BY <1>1, <1>4, Zenon DEF Holds
  <2> HIDE DEF p, q, b
  <2>2. t.at = "Value" /\ t.has = HasBy(f, i)
    BY <1>1, <1>4, Zenon
  <2> QED
    BY <1>4, <2>1, <2>2, Zenon DEF InValue, q, v
<1> HIDE DEF p, q, b
<1>7. p.depth \in Nat /\ s.depth = 1 + p.depth
  BY <1>1, <1>3
<1>5. CASE p.text # "none"
  <2> DEFINE t == [s EXCEPT !.escaped = ~s.escaped /\ b = "\\", !.inString = ~(~s.escaped /\ b = "\"")]
  <2>1. /\ DOMAIN t = Parts /\ t.at = s.at /\ t.depth = s.depth /\ t.has = s.has
        /\ t.id = s.id /\ t.tooLong = s.tooLong /\ t.readingId = s.readingId
        /\ t.escaped <=> (~s.escaped /\ b = "\\")
        /\ t.inString <=> ~(~s.escaped /\ b = "\"")
    BY <1>1 DEF Parts
  <2>2. Step(s, b) = InStringByte(s, b)
    BY <1>1, <1>5 DEF Step
  <2>3. ~(t.depth = 1 /\ t.at = "Key") /\ ~t.readingId
    BY <1>1, <2>1
  <2> HIDE DEF t
  <2>4. InStringByte(s, b) = t
    BY <2>3, Zenon DEF InStringByte, t
  <2>5. q.depth = p.depth /\ (t.escaped <=> q.text = "escape") /\ (t.inString <=> q.text # "none")
    BY <1>1, <1>3, <1>5, <2>1
  <2>6. t.depth = 1 + q.depth
    BY <1>1, <2>1, <2>5
  <2>7. InValue(t, f, i, n + 1)
    BY <1>4, <2>1, <2>3, <2>5, <2>6, Zenon
  <2> QED
    BY <2>2, <2>4, <2>7 DEF b, v
<1>6. CASE p.text = "none"
  <2>1. ~s.inString /\ ~s.escaped /\ s.at # "Settled" /\ s.at # "LineStart" /\ s.at # "Key" /\ s.at # "Colon"
    BY <1>1, <1>6
  <2>2. Step(s, b) = StructuralByte(s, b)
    BY <2>1 DEF Step
  <2>3. CASE b = "\""
    <3> DEFINE t == [s EXCEPT !.inString = TRUE]
    <3>1. StructuralByte(s, b) = t
      BY <1>1, <2>1, <2>3 DEF StructuralByte, Space
    <3>2. /\ DOMAIN t = Parts /\ t.at = s.at /\ t.depth = s.depth /\ t.has = s.has /\ t.escaped = s.escaped
          /\ t.id = s.id /\ t.tooLong = s.tooLong /\ t.readingId = s.readingId /\ t.inString
      BY <1>1 DEF Parts
    <3> HIDE DEF t
    <3>3. q.depth = p.depth /\ q.text = "string"
      BY <1>3, <1>6, <2>3
    <3>4. t.depth = 1 + q.depth /\ ~t.readingId
      BY <1>1, <3>2, <3>3
    <3>5. (t.inString <=> q.text # "none") /\ (t.escaped <=> q.text = "escape")
      BY <2>1, <3>2, <3>3
    <3>6. InValue(t, f, i, n + 1)
      BY <1>4, <3>2, <3>4, <3>5, Zenon
    <3> QED
      BY <2>2, <3>1, <3>6 DEF b, v
  <2>4. CASE b \in {"{", "["}
    <3> DEFINE t == [s EXCEPT !.readingId = FALSE, !.depth = s.depth + 1]
    <3>1. StructuralByte(s, b) = t
      BY <1>1, <2>1, <2>4 DEF StructuralByte, Space
    <3>2. /\ DOMAIN t = Parts /\ t.at = s.at /\ t.depth = s.depth + 1 /\ t.has = s.has /\ t.escaped = s.escaped
          /\ t.id = s.id /\ t.tooLong = s.tooLong /\ ~t.readingId /\ t.inString = s.inString
      BY <1>1 DEF Parts
    <3> HIDE DEF t
    <3>3. q.depth = p.depth + 1 /\ q.text = "none"
      BY <1>3, <1>6, <2>4
    <3>4. t.depth = 1 + q.depth
      BY <1>7, <3>2, <3>3
    <3>5. (t.inString <=> q.text # "none") /\ (t.escaped <=> q.text = "escape")
      BY <2>1, <3>2, <3>3
    <3>6. InValue(t, f, i, n + 1)
      BY <1>4, <3>2, <3>4, <3>5, Zenon
    <3> QED
      BY <2>2, <3>1, <3>6 DEF b, v
  <2>5. CASE b \in {"}", "]"}
    <3> DEFINE t == [s EXCEPT !.depth = IF s.depth = 0 THEN 0 ELSE s.depth - 1]
    <3>1. StructuralByte(s, b) = IdEnded(t)
      BY <1>1, <2>1, <2>5 DEF StructuralByte, Space
    <3>2. s.depth # 0
      BY <1>7
    <3>3. /\ DOMAIN t = Parts /\ t.at = s.at /\ t.depth = s.depth - 1 /\ t.has = s.has /\ t.escaped = s.escaped
          /\ t.id = s.id /\ t.tooLong = s.tooLong /\ t.readingId = s.readingId /\ t.inString = s.inString
      BY <1>1, <3>2 DEF Parts
    <3> HIDE DEF t
    <3>4. IdEnded(t) = t /\ ~t.readingId
      BY <1>1, <3>3 DEF IdEnded
    <3>5. q.depth = p.depth - 1 /\ q.text = "none"
      BY <1>3, <1>6, <2>5
    <3>6. t.depth = 1 + q.depth
      BY <1>7, <3>3, <3>5
    <3>7. (t.inString <=> q.text # "none") /\ (t.escaped <=> q.text = "escape")
      BY <2>1, <3>3, <3>5
    <3>8. InValue(t, f, i, n + 1)
      BY <1>4, <3>3, <3>4, <3>6, <3>7, Zenon
    <3> QED
      BY <2>2, <3>1, <3>4, <3>8 DEF b, v
  <2>6. CASE b \notin {"\"", "{", "[", "}", "]"}
    <3>1. StructuralByte(s, b) = s
      <4>1. CASE b \in Space
        <5>1. b = " "
          BY <1>3, <4>1 DEF Space
        <5> QED
          BY <1>1, <5>1 DEF StructuralByte, Space
      <4>2. CASE b = ","
        <5>1. IdEnded(s) = s
          BY <1>1 DEF IdEnded
        <5>2. p.depth > 0
          BY <1>3, <1>6, <4>2
        <5>3. s.depth # 1
          BY <1>7, <5>2
        <5> QED
          BY <2>1, <4>2, <5>1, <5>3 DEF StructuralByte, Space
      <4>3. CASE b \notin Space /\ b # ","
        BY <1>1, <2>1, <2>6, <4>3 DEF StructuralByte
      <4> QED
        BY <4>1, <4>2, <4>3
    <3>2. q.depth = p.depth /\ q.text = "none"
      BY <1>3, <1>6, <2>6
    <3>3. s.depth = 1 + q.depth /\ (s.inString <=> q.text # "none") /\ (s.escaped <=> q.text = "escape")
      BY <1>1, <2>1, <3>2
    <3>4. InValue(s, f, i, n + 1)
      BY <1>1, <1>4, <3>3, Zenon
    <3> QED
      BY <2>2, <3>1, <3>4 DEF b, v
  <2> QED
    BY <2>3, <2>4, <2>5, <2>6
<1> QED
  BY <1>5, <1>6

\* After all of a value, of whatever field: not in a string, in the line's own
\* bracket, with all its id.
LEMMA ValueEnds ==
    ASSUME NEW f \in Objects, NEW i \in 1..Len(f), NEW s, InValue(s, f, i, Len(f[i][2]))
    PROVE  /\ DOMAIN s = Parts /\ s.at = "Value" /\ s.depth = 1 /\ ~s.inString /\ ~s.escaped
           /\ s.has = HasBy(f, i) /\ Holds(s, IdBy(f, i), Len(IdBy(f, i)))
<1> DEFINE v == f[i][2]
<1>1. IsValue(v) /\ (f[i][1] = "id" => IdBy(f, i) = v)
  BY InFieldIs
<1>2. Reading(v)[Len(v)] = Start
  BY <1>1 DEF IsValue
<1>3. Reading(v)[Len(v)].depth = 0 /\ Reading(v)[Len(v)].text = "none"
  BY <1>2 DEF Start
<1>4. /\ DOMAIN s = Parts /\ s.at = "Value" /\ s.depth = 1 + Reading(v)[Len(v)].depth
      /\ s.inString <=> Reading(v)[Len(v)].text # "none"
      /\ s.escaped <=> Reading(v)[Len(v)].text = "escape"
      /\ s.has = HasBy(f, i)
      /\ Holds(s, IdBy(f, i), IF f[i][1] = "id" THEN Len(v) ELSE Len(IdBy(f, i)))
  BY DEF InValue
<1> HIDE DEF v
<1>5. Holds(s, IdBy(f, i), Len(IdBy(f, i)))
  BY <1>1, <1>4
<1> QED
  BY <1>3, <1>4, <1>5

\* The comma after a value.
LEMMA StepComma ==
    ASSUME NEW f \in Objects, NEW i \in 1..Len(f), NEW s, InValue(s, f, i, Len(f[i][2]))
    PROVE  BeforeKey(Step(s, ","), f, i) \/ Settled(Step(s, ","), f)
<1>1. /\ DOMAIN s = Parts /\ s.at = "Value" /\ s.depth = 1 /\ ~s.inString /\ ~s.escaped
      /\ s.has = HasBy(f, i) /\ Holds(s, IdBy(f, i), Len(IdBy(f, i)))
  BY ValueEnds
<1>2. PICK t : t = IdEnded(s)
  OBVIOUS
<1>3. Step(s, ",") = IF t.depth = 1 /\ t.at # "Settled" THEN [t EXCEPT !.at = "Key", !.key = <<>>] ELSE t
  BY <1>1, <1>2 DEF Step, StructuralByte, Space
<1>4. \/ Settled(t, f)
      \/ Knows(t, f, i) /\ t.at = s.at /\ t.depth = s.depth /\ t.inString = s.inString
  BY <1>1, <1>2, EndsRight, Zenon
<1>5. CASE Settled(t, f)
  BY <1>3, <1>5 DEF Settled
<1>6. CASE Knows(t, f, i) /\ t.at = s.at /\ t.depth = s.depth /\ t.inString = s.inString
  <2> DEFINE u == [t EXCEPT !.at = "Key", !.key = <<>>]
  <2>1. Step(s, ",") = u
    BY <1>1, <1>3, <1>6
  <2>2. /\ DOMAIN u = Parts /\ u.at = "Key" /\ u.depth = 1 /\ ~u.inString /\ ~u.escaped /\ ~u.readingId
        /\ u.has = t.has /\ u.id = t.id /\ u.tooLong = t.tooLong
    BY <1>1, <1>6 DEF Knows, Parts
  <2> HIDE DEF u
  <2>3. BeforeKey(u, f, i)
    BY <1>6, <2>2, Zenon DEF BeforeKey, Knows, Holds
  <2> QED
    BY <2>1, <2>3
<1> QED
  BY <1>4, <1>5, <1>6

\* The bracket that closes the line, after the last value.
LEMMA StepEnd ==
    ASSUME NEW f \in Objects, NEW i \in 1..Len(f), NEW s, InValue(s, f, i, Len(f[i][2]))
    PROVE  Knows(Step(s, "}"), f, i) \/ Settled(Step(s, "}"), f)
<1>1. /\ DOMAIN s = Parts /\ s.at = "Value" /\ s.depth = 1 /\ ~s.inString /\ ~s.escaped
      /\ s.has = HasBy(f, i) /\ Holds(s, IdBy(f, i), Len(IdBy(f, i)))
  BY ValueEnds
<1> DEFINE t == [s EXCEPT !.depth = IF s.depth = 0 THEN 0 ELSE s.depth - 1]
<1>2. Step(s, "}") = IdEnded(t)
  BY <1>1 DEF Step, StructuralByte, Space
<1>3. /\ DOMAIN t = Parts /\ ~t.escaped /\ t.has = s.has /\ t.id = s.id /\ t.tooLong = s.tooLong
  BY <1>1 DEF Parts
<1> HIDE DEF t
<1>4. t.has = HasBy(f, i) /\ Holds(t, IdBy(f, i), Len(IdBy(f, i)))
  BY <1>1, <1>3, Zenon DEF Holds
<1>5. Settled(IdEnded(t), f) \/ Knows(IdEnded(t), f, i)
  BY <1>3, <1>4, EndsRight, Zenon
<1> QED
  BY <1>2, <1>5

\* The same, of an object without fields.
LEMMA StepEmpty ==
    ASSUME NEW s, NEW f, NEW i, BeforeKey(s, f, i) PROVE Knows(Step(s, "}"), f, i)
<1> DEFINE t == [s EXCEPT !.depth = IF s.depth = 0 THEN 0 ELSE s.depth - 1]
<1>1. Step(s, "}") = IdEnded(t)
  BY DEF BeforeKey, Step, StructuralByte, Space
<1>2. DOMAIN t = Parts /\ ~t.escaped /\ ~t.readingId /\ t.has = s.has /\ t.id = s.id /\ t.tooLong = s.tooLong
  BY DEF BeforeKey, Knows, Parts
<1> HIDE DEF t
<1>3. IdEnded(t) = t
  BY <1>2 DEF IdEnded
<1>4. Knows(t, f, i)
  BY <1>2, Zenon DEF BeforeKey, Knows, Holds
<1> QED
  BY <1>1, <1>3, <1>4

-----------------------------------------------------------------------------
(* The whole line.                                                         *)

\* A value ends outside its brackets and strings.
LEMMA ValueIsClosed ==
    ASSUME NEW v, IsValue(v)
    PROVE  Reading(v)[Len(v)].text = "none" /\ Reading(v)[Len(v)].depth = 0
<1>1. Reading(v)[Len(v)] = Start
  BY DEF IsValue
<1>2. Start.text = "none" /\ Start.depth = 0
  BY DEF Start
<1> QED
  BY <1>1, <1>2

\* Where JSON is after one more token of a value.
LEMMA LexesRight ==
    ASSUME NEW f \in Objects, NEW i \in 1..Len(f), NEW n \in 0..(Len(f[i][2]) - 1), NEW l, LexedTo(l, f, i, n)
    PROVE  LexedTo(LexOn(l, f[i][2][n + 1]), f, i, n + 1)
<1> DEFINE v == f[i][2]
           b == v[n + 1]
           p == Reading(v)[n]
           q == Reading(v)[n + 1]
<1>0. IsValue(v) /\ Len(v) \in Nat /\ (f[i][1] = "id" => IsId(v)) /\ n \in 0..(Len(v) - 1)
  BY InFieldIs
<1> HIDE DEF v
<1>1. /\ p.text \in {"none", "string", "escape"}
      /\ p.text = "escape" => q.text = "string"
      /\ p.text = "string" => q.text = IF b = "\\" THEN "escape" ELSE IF b = "\"" THEN "none" ELSE "string"
      /\ p.text = "none" => q.text = IF b = "\"" THEN "string" ELSE "none"
  <2>1. NextPlace(v, n)
    BY <1>0, PlaceAfter, Zenon
  <2> QED
    BY <2>1, Zenon DEF NextPlace
<1>2. IF p.text = "none" THEN Between(l) ELSE l = p.text
  BY DEF LexedTo, v
<1>3. IF q.text = "none" THEN Between(LexOn(l, b)) ELSE LexOn(l, b) = q.text
  <2> HIDE DEF p, q, b
  <2>1. CASE p.text = "none"
    BY <1>1, <1>2, <2>1 DEF LexOn, Between, Structure, Space
  <2>2. CASE p.text = "string"
    BY <1>1, <1>2, <2>2 DEF LexOn, Between
  <2>3. CASE p.text = "escape"
    BY <1>1, <1>2, <2>3 DEF LexOn, Between
  <2> QED
    BY <1>1, <2>1, <2>2, <2>3
<1>4. ASSUME f[i][1] = "id", n + 1 # Len(v), q.text = "none" PROVE LexOn(l, b) = "plain"
  <2>1. n + 1 \in 1..(Len(v) - 1) /\ n + 1 \in 1..Len(v)
    BY <1>0, <1>4
  <2>2. \A x \in 1..Len(v) : v[x] \notin Structure \cup {"\""}
    BY <1>0, <1>4, <2>1 DEF IsId, q
  <2>3. b \notin Structure \cup {"\""}
    BY <2>1, <2>2
  <2> HIDE DEF p, q, b
  <2>4. p.text = "none"
    BY <1>1, <1>4, <2>3
  <2> QED
    BY <1>2, <2>3, <2>4 DEF LexOn, Between
<1> HIDE DEF p, q, b
<1> QED
  BY <1>3, <1>4 DEF LexedTo, v, q, b

\* Feeding one token of a value.
LEMMA FeedsValue ==
    ASSUME NEW f \in Objects, NEW i \in 1..Len(f), NEW s, NEW n \in 0..Len(f[i][2]), InValue(s, f, i, n),
           NEW l, LexedTo(l, f, i, n), NEW r, r = FromValue(f, i, n)
    PROVE  Settled(Step(s, Head(r)), f) \/ Tracks(Step(s, Head(r)), LexOn(l, Head(r)), Tail(r), f)
<1> DEFINE v == f[i][2]
<1>0. /\ Len(f) \in Nat /\ i \in 0..Len(f) /\ v \in Seq(Tokens) /\ Len(v) \in Nat
      /\ After(f, i) \in Seq(Tokens)
  BY InFieldIs, ObjectFacts, AfterIs
<1>1. CASE n # Len(v)
  <2>1. n \in 0..(Len(v) - 1) /\ n + 1 \in 0..Len(v) /\ n + 1 \in 1..Len(v) /\ (n + 1) + 1 = n + 2
    BY <1>0, <1>1
  <2>2. FromValue(f, i, n + 1) \in Seq(Tokens)
    BY <2>1, LineTokens
  <2>3. r = <<v[n + 1]>> \o FromValue(f, i, n + 1)
    <3> DEFINE a == After(f, i)
    <3>1. r = SubSeq(v, n + 1, Len(v)) \o a
      BY DEF FromValue
    <3>2. FromValue(f, i, n + 1) = SubSeq(v, n + 2, Len(v)) \o a
      BY <2>1 DEF FromValue
    <3>3. a \in Seq(Tokens)
      BY <1>0
    <3> HIDE DEF v, a
    <3>4. SubSeq(v, n + 1, Len(v)) \o a = <<v[n + 1]>> \o (SubSeq(v, n + 2, Len(v)) \o a)
      BY <1>0, <2>1, <3>3, FromNext, Zenon
    <3> QED
      BY <3>1, <3>2, <3>4
  <2>4. v[n + 1] \in Tokens
    <3> HIDE DEF v
    <3> QED
      BY <1>0, <2>1
  <2>5. Head(r) = v[n + 1] /\ Tail(r) = FromValue(f, i, n + 1)
    <3> HIDE DEF v
    <3> QED
      BY <2>2, <2>3, <2>4, InFront
  <2>6. InValue(Step(s, v[n + 1]), f, i, n + 1) \/ Settled(Step(s, v[n + 1]), f)
    <3>1. CASE f[i][1] = "id"
      BY <2>1, <3>1, StepIdByte
    <3>2. CASE f[i][1] # "id"
      BY <2>1, <3>2, StepValueByte
    <3> QED
      BY <3>1, <3>2
  <2>7. CASE InValue(Step(s, v[n + 1]), f, i, n + 1)
    <3>0. LexedTo(LexOn(l, v[n + 1]), f, i, n + 1)
      BY <2>1, LexesRight
    <3>1. InField(Step(s, Head(r)), LexOn(l, Head(r)), Tail(r), f, i)
      BY <2>1, <2>5, <2>7, <3>0, Zenon DEF InField
    <3> QED
      BY <3>1 DEF Tracks
  <2> QED
    BY <2>5, <2>6, <2>7
<1>2. CASE n = Len(v)
  <2>1. r = After(f, i) /\ InValue(s, f, i, Len(f[i][2]))
    BY <1>2, LineTokens
  <2>2. CASE i # Len(f)
    <3>1. i + 1 \in 1..Len(f) /\ (i + 1) - 1 = i /\ i + 1 # 1 /\ i + 1 > 1
      BY <1>0, <2>2
    <3> DEFINE t == FromKey(f, i + 1)
    <3>2. After(f, (i + 1) - 1) = <<",">> \o t /\ FromKey(f, i + 1) \in Seq(Tokens)
      BY <3>1, LineTokens
    <3>3. "," \in Tokens
      BY Punctuation
    <3>4. t \in Seq(Tokens)
      BY <3>2
    <3>5. r = <<",">> \o t
      BY <2>1, <3>1, <3>2
    <3> HIDE DEF t
    <3>6. Head(r) = "," /\ Tail(r) = t
      BY <3>3, <3>4, <3>5, InFront
    <3>7. BeforeKey(Step(s, ","), f, i) \/ Settled(Step(s, ","), f)
      BY <2>1, StepComma
    <3>8. CASE BeforeKey(Step(s, ","), f, i)
      <4>1. BeforeKey(Step(s, ","), f, (i + 1) - 1)
        BY <3>1, <3>8
      <4>2. Between(LexOn(l, ","))
        <5>1. Reading(v)[Len(v)].text = "none"
          BY InFieldIs, ValueIsClosed
        <5>2. Between(l)
          BY <1>2, <5>1 DEF LexedTo
        <5> QED
          BY <5>2 DEF Between, LexOn, Structure
      <4>3. InField(Step(s, Head(r)), LexOn(l, Head(r)), Tail(r), f, i + 1)
        BY <3>1, <3>6, <4>1, <4>2, Zenon DEF InField, t
      <4> QED
        BY <3>1, <4>3 DEF Tracks
    <3> QED
      BY <3>6, <3>7, <3>8
  <2>3. CASE i = Len(f)
    <3>1. r = <<"}">> \o <<"newline">>
      BY <2>1, <2>3, LineTokens
    <3>2. "}" \in Tokens /\ "newline" \in Tokens
      BY Punctuation
    <3>3. <<"newline">> \in Seq(Tokens)
      BY <3>2, FewTokens
    <3>4. Head(r) = "}" /\ Tail(r) = <<"newline">>
      BY <3>1, <3>2, <3>3, InFront
    <3>5. Knows(Step(s, "}"), f, i) \/ Settled(Step(s, "}"), f)
      BY <2>1, StepEnd
    <3> QED
      BY <2>3, <3>4, <3>5 DEF Tracks
  <2> QED
    BY <2>2, <2>3
<1> QED
  BY <1>1, <1>2

\* Feeding one token, wherever it is.
LEMMA FeedsRight ==
    ASSUME NEW f \in Objects, NEW s, NEW l, NEW r, Tracks(s, l, r, f), Head(r) # "newline"
    PROVE  Settled(Step(s, Head(r)), f) \/ Tracks(Step(s, Head(r)), LexOn(l, Head(r)), Tail(r), f)
<1>0. Len(f) \in Nat /\ (f # <<>> => 1 \in 1..Len(f)) /\ 0 \in 0..Len(f)
  BY ObjectFacts
<1>a. /\ "{" \in Tokens /\ "\"" \in Tokens /\ ":" \in Tokens /\ "," \in Tokens
      /\ " " \in Tokens /\ "}" \in Tokens /\ "newline" \in Tokens
  BY Punctuation
<1>b. /\ Between(l) => LexOn(l, "\"") = "string" /\ \A c \in {"{", ":"} : Between(LexOn(l, c))
      /\ l = "string" => Between(LexOn(l, "\"")) /\ \A k \in Keys : LexOn(l, k) = "string"
  BY DEF Between, LexOn, Structure, Space, Keys
<1>1. CASE r = Bytes(f) /\ s = NewScan /\ Between(l)
  <2>1. r = <<"{">> \o After(f, 0) /\ After(f, 0) \in Seq(Tokens)
    BY <1>0, <1>1, LineTokens, AfterIs
  <2>2. Head(r) = "{" /\ Tail(r) = After(f, 0)
    BY <1>a, <2>1, InFront
  <2>3. BeforeKey(Step(s, "{"), f, 0)
    BY <1>1, StepOpen
  <2>4. CASE f = <<>>
    BY <2>2, <2>3, <2>4 DEF Tracks
  <2>5. CASE f # <<>>
    <3>1. 1 \in 1..Len(f) /\ 1 - 1 = 0
      BY <1>0, <2>5
    <3>2. After(f, 0) = FromKey(f, 1)
      BY <3>1, LineTokens
    <3>3. BeforeKey(Step(s, "{"), f, 1 - 1)
      BY <2>3, <3>1
    <3>4. InField(Step(s, Head(r)), LexOn(l, Head(r)), Tail(r), f, 1)
      <4>1. Between(LexOn(l, "{"))
        BY <1>1, <1>b
      <4> QED
        BY <2>2, <3>2, <3>3, <4>1, Zenon DEF InField
    <3> QED
      BY <3>1, <3>4 DEF Tracks
  <2> QED
    BY <2>4, <2>5
<1>2. ASSUME NEW i \in 1..Len(f), InField(s, l, r, f, i)
      PROVE  Settled(Step(s, Head(r)), f) \/ Tracks(Step(s, Head(r)), LexOn(l, Head(r)), Tail(r), f)
  <2>0. /\ FromKey(f, i) \in Seq(Tokens) /\ FromName(f, i) \in Seq(Tokens)
        /\ FromClose(f, i) \in Seq(Tokens) /\ FromColon(f, i) \in Seq(Tokens)
        /\ FromValue(f, i, 0) \in Seq(Tokens) /\ 0 \in 0..Len(f[i][2])
        /\ f[i][1] \in Keys /\ f[i][1] \in Tokens
    <3>1. 0 \in 0..Len(f[i][2])
      BY InFieldIs
    <3> QED
      BY <3>1, LineTokens, FieldTokens, ObjectFacts
  <2>a. InField(Step(s, Head(r)), LexOn(l, Head(r)), Tail(r), f, i)
           => Tracks(Step(s, Head(r)), LexOn(l, Head(r)), Tail(r), f)
    BY DEF Tracks
  <2>2. CASE r = FromKey(f, i) /\ BeforeKey(s, f, i - 1) /\ Between(l)
    <3>1. Head(r) = "\"" /\ Tail(r) = FromName(f, i)
      BY <1>a, <2>0, <2>2, InFront DEF FromKey
    <3>2. InKey(Step(s, "\""), f, i - 1, <<>>)
      BY <2>2, StepQuote
    <3>3. LexOn(l, "\"") = "string"
      BY <1>b, <2>0, <2>2
    <3> QED
      BY <2>a, <3>1, <3>2, <3>3, Zenon DEF InField
  <2>3. CASE r = FromName(f, i) /\ InKey(s, f, i - 1, <<>>) /\ l = "string"
    <3>1. Head(r) = f[i][1] /\ Tail(r) = FromClose(f, i)
      BY <2>0, <2>3, InFront DEF FromName
    <3>2. InKey(Step(s, f[i][1]), f, i - 1, <<f[i][1]>>)
      BY <2>0, <2>3, StepName
    <3>3. LexOn(l, f[i][1]) = "string"
      BY <1>b, <2>0, <2>3
    <3> QED
      BY <2>a, <3>1, <3>2, <3>3, Zenon DEF InField
  <2>4. CASE r = FromClose(f, i) /\ InKey(s, f, i - 1, <<f[i][1]>>) /\ l = "string"
    <3>1. Head(r) = "\"" /\ Tail(r) = FromColon(f, i)
      BY <1>a, <2>0, <2>4, InFront DEF FromClose
    <3>2. AfterKey(Step(s, "\""), f, i)
      BY <2>4, StepClose
    <3>3. Between(LexOn(l, "\""))
      BY <1>b, <2>4
    <3> QED
      BY <2>a, <3>1, <3>2, <3>3, Zenon DEF InField
  <2>5. CASE r = FromColon(f, i) /\ AfterKey(s, f, i) /\ Between(l)
    <3>1. Head(r) = ":" /\ Tail(r) = FromValue(f, i, 0)
      BY <1>a, <2>0, <2>5, InFront DEF FromColon
    <3>2. InValue(Step(s, ":"), f, i, 0) \/ Settled(Step(s, ":"), f)
      BY <2>5, StepColon
    <3>3. LexedTo(LexOn(l, ":"), f, i, 0)
      <4>1. Between(LexOn(l, ":"))
        BY <1>b, <2>5
      <4>2. Reading(f[i][2])[0].text = "none"
        BY InFieldIs, ReadingIs DEF Start
      <4> QED
        BY <4>1, <4>2 DEF LexedTo
    <3> QED
      BY <2>0, <2>a, <3>1, <3>2, <3>3, Zenon DEF InField
  <2>6. CASE \E n \in 0..Len(f[i][2]) : r = FromValue(f, i, n) /\ InValue(s, f, i, n) /\ LexedTo(l, f, i, n)
    BY <2>6, FeedsValue
  <2> QED
    BY <1>2, <2>2, <2>3, <2>4, <2>5, <2>6, Zenon DEF InField
<1>3. CASE f = <<>> /\ r = After(f, 0) /\ BeforeKey(s, f, 0)
  <2>1. Len(f) = 0
    BY <1>3
  <2>2. r = <<"}">> \o <<"newline">>
    BY <1>3, <2>1, LineTokens
  <2>3. <<"newline">> \in Seq(Tokens)
    BY <1>a, FewTokens
  <2>4. Head(r) = "}" /\ Tail(r) = <<"newline">>
    BY <1>a, <2>2, <2>3, InFront
  <2>5. Knows(Step(s, "}"), f, Len(f))
    BY <1>3, <2>1, StepEmpty
  <2> QED
    BY <2>4, <2>5 DEF Tracks
<1>4. CASE r = <<"newline">>
  BY <1>4
<1> QED
  BY <1>1, <1>2, <1>3, <1>4, Zenon DEF Tracks

\* White space in a value, where JSON has it: it ends an id that is plain, and
\* is nothing to anything else.
LEMMA SpaceInValue ==
    ASSUME NEW f \in Objects, NEW i \in 1..Len(f), NEW s, NEW n \in 0..Len(f[i][2]), InValue(s, f, i, n),
           NEW l, LexedTo(l, f, i, n), NEW r, r = FromValue(f, i, n),
           l = "none" \/ (l = "plain" /\ Head(r) \in Structure)
    PROVE  Settled(Step(s, " "), f) \/ (InValue(Step(s, " "), f, i, n) /\ LexedTo("none", f, i, n))
<1> DEFINE v == f[i][2]
<1>0. /\ IsValue(v) /\ v \in Seq(Tokens) /\ Len(v) \in Nat /\ After(f, i) \in Seq(Tokens) /\ MaxIdBytes \in Nat
      /\ (f[i][1] = "id" => IsId(v) /\ IdBy(f, i) = v)
  BY InFieldIs, AfterIs
<1>1. Reading(v)[n].text = "none"
  <2>1. CASE n = Len(v)
    BY <1>0, <2>1, ValueIsClosed
  <2>2. CASE n # Len(v)
    <3>1. n \in 0..(Len(v) - 1)
      BY <1>0, <2>2
    <3>2. NextPlace(v, n)
      BY <1>0, <3>1, PlaceAfter, Zenon
    <3>3. Reading(v)[n].text \in {"none", "string", "escape"}
      BY <3>2, Zenon DEF NextPlace
    <3> QED
      BY <3>3 DEF LexedTo
  <2> QED
    BY <2>1, <2>2
<1>2. /\ DOMAIN s = Parts /\ s.at = "Value" /\ ~s.inString /\ ~s.escaped
  BY <1>1 DEF InValue
<1>3. Step(s, " ") = IF s.readingId /\ s.id # <<>> THEN IdEnded(s) ELSE s
  BY <1>2 DEF Step, StructuralByte, Space
<1>4. CASE n # Len(v)
  <2>1. ~(f[i][1] = "id" /\ n # 0)
    <3> SUFFICES ASSUME f[i][1] = "id", n # 0 PROVE FALSE
      OBVIOUS
    <3>1. l = "plain" /\ Head(r) \in Structure
      BY <1>1, <1>4 DEF LexedTo
    <3>2. n \in 0..(Len(v) - 1) /\ n \in 1..(Len(v) - 1) /\ n + 1 \in 1..Len(v)
      BY <1>0, <1>4
    <3>3. \A x \in 1..Len(v) : v[x] \notin Structure \cup {"\""}
      BY <1>0, <1>1, <3>2 DEF IsId
    <3>4. Head(r) = v[n + 1]
      <4> DEFINE a == After(f, i)
      <4>0. a \in Seq(Tokens)
        BY <1>0
      <4>1. r = SubSeq(v, n + 1, Len(v)) \o a
        BY DEF FromValue
      <4> HIDE DEF v, a
      <4>2. SubSeq(v, n + 1, Len(v)) \o a = <<v[n + 1]>> \o (SubSeq(v, n + 2, Len(v)) \o a)
        BY <1>0, <3>2, <4>0, FromNext, Zenon
      <4>3. v[n + 1] \in Tokens /\ SubSeq(v, n + 2, Len(v)) \in Seq(Tokens)
        BY <1>0, <3>2
      <4>4. SubSeq(v, n + 2, Len(v)) \o a \in Seq(Tokens)
        BY <4>0, <4>3, ConcatProperties
      <4> QED
        BY <4>1, <4>2, <4>3, <4>4, InFront
    <3> QED
      BY <3>1, <3>2, <3>3, <3>4
  <2>2. ~(s.readingId /\ s.id # <<>>)
    <3> SUFFICES ASSUME s.readingId PROVE s.id = <<>>
      OBVIOUS
    <3>1. f[i][1] = "id" /\ n = 0
      BY <1>4, <2>1 DEF InValue
    <3>2. s.id = Cut(v, 0)
      BY <1>0, <3>1 DEF InValue, Holds
    <3>3. Cut(v, 0) \in Seq(Tokens) /\ Len(Cut(v, 0)) = 0
      <4>1. 0 \in 0..Len(v)
        BY <1>0
      <4>2. /\ Cut(v, 0) \in Seq(Tokens)
            /\ Len(Cut(v, 0)) = IF 0 < MaxIdBytes THEN 0 ELSE MaxIdBytes
        BY <1>0, <4>1, CutIs
      <4> QED
        BY <1>0, <4>2
    <3> QED
      BY <3>2, <3>3
  <2>3. LexedTo("none", f, i, n)
    BY <1>1, <2>1 DEF LexedTo, Between
  <2> QED
    BY <1>3, <2>2, <2>3
<1>5. CASE n = Len(v)
  <2>1. LexedTo("none", f, i, n)
    BY <1>1, <1>5 DEF LexedTo, Between
  <2>2. /\ s.depth = 1 /\ s.has = HasBy(f, i) /\ Holds(s, IdBy(f, i), Len(IdBy(f, i)))
    BY <1>5, ValueEnds
  <2>3. \/ Settled(IdEnded(s), f)
        \/ /\ Knows(IdEnded(s), f, i)
           /\ IdEnded(s).at = s.at /\ IdEnded(s).depth = s.depth /\ IdEnded(s).inString = s.inString
    BY <1>2, <2>2, EndsRight, Zenon
  <2>4. CASE /\ Knows(IdEnded(s), f, i)
             /\ IdEnded(s).at = s.at /\ IdEnded(s).depth = s.depth /\ IdEnded(s).inString = s.inString
    <3>1. PICK w : w = IdEnded(s)
      OBVIOUS
    <3>2. Reading(v)[n].depth = 0
      BY <1>0, <1>5, ValueIsClosed
    <3>3. /\ DOMAIN w = Parts /\ w.at = "Value" /\ w.depth = 1 + Reading(v)[n].depth /\ ~w.inString /\ ~w.escaped
          /\ w.has = HasBy(f, i) /\ Holds(w, IdBy(f, i), Len(IdBy(f, i)))
      BY <1>2, <2>2, <2>4, <3>1, <3>2 DEF Knows
    <3>4. Holds(w, IdBy(f, i), IF f[i][1] = "id" THEN n ELSE Len(IdBy(f, i)))
      BY <1>0, <1>5, <3>3
    <3>5. InValue(w, f, i, n)
      BY <1>1, <1>5, <3>3, <3>4 DEF InValue
    <3> QED
      BY <1>3, <2>1, <3>1, <3>5
  <2> QED
    BY <1>3, <2>1, <2>3, <2>4
<1> QED
  BY <1>4, <1>5

\* White space is nothing, wherever JSON has it.
LEMMA SpaceIsNothing ==
    ASSUME NEW f \in Objects, NEW s, NEW l, NEW r, Tracks(s, l, r, f),
           l = "none" \/ (l = "plain" /\ Head(r) \in Structure)
    PROVE  Settled(Step(s, " "), f) \/ Tracks(Step(s, " "), "none", r, f)
<1>0. Between("none") /\ l # "string"
  BY DEF Between
<1>1. CASE r = Bytes(f) /\ s = NewScan
  <2>1. Step(s, " ") = s
    BY <1>1 DEF Step, NewScan, StructuralByte, Space
  <2> QED
    BY <1>0, <1>1, <2>1 DEF Tracks
<1>2. ASSUME NEW i \in 1..Len(f), InField(s, l, r, f, i)
      PROVE  Settled(Step(s, " "), f) \/ InField(Step(s, " "), "none", r, f, i)
  <2>1. CASE r = FromKey(f, i) /\ BeforeKey(s, f, i - 1)
    BY <1>0, <2>1, StepSpace, Zenon DEF InField
  <2>2. CASE r = FromColon(f, i) /\ AfterKey(s, f, i)
    <3>1. s.readingId => s.id = <<>>
      <4> SUFFICES ASSUME s.readingId PROVE s.id = <<>>
        OBVIOUS
      <4>1. IdBy(f, i - 1) = <<>>
        BY <2>2, SaidBy DEF AfterKey
      <4>2. s.id = Cut(<<>>, Len(<<>>))
        BY <2>2, <4>1, Zenon DEF AfterKey, Holds
      <4>3. MaxIdBytes \in Nat /\ <<>> \in Seq(Tokens) /\ Len(<<>>) = 0
        BY ScanAssumption
      <4>4. Cut(<<>>, 0) \in Seq(Tokens) /\ Len(Cut(<<>>, 0)) = 0
        BY <4>3 DEF Cut
      <4> QED
        BY <4>2, <4>3, <4>4
    <3>2. Step(s, " ") = s
      BY <2>2, <3>1 DEF Step, AfterKey, StructuralByte, Space
    <3> QED
      BY <1>0, <2>2, <3>2, Zenon DEF InField
  <2>3. CASE \E n \in 0..Len(f[i][2]) : r = FromValue(f, i, n) /\ InValue(s, f, i, n) /\ LexedTo(l, f, i, n)
    <3>1. PICK n \in 0..Len(f[i][2]) : r = FromValue(f, i, n) /\ InValue(s, f, i, n) /\ LexedTo(l, f, i, n)
      BY <2>3
    <3>2. Settled(Step(s, " "), f) \/ (InValue(Step(s, " "), f, i, n) /\ LexedTo("none", f, i, n))
      BY <3>1, SpaceInValue
    <3> QED
      BY <3>1, <3>2, Zenon DEF InField
  <2> QED
    BY <1>0, <1>2, <2>1, <2>2, <2>3, Zenon DEF InField
<1>3. CASE f = <<>> /\ r = After(f, 0) /\ BeforeKey(s, f, 0)
  BY <1>3, StepSpace DEF Tracks
<1>4. CASE r = <<"newline">> /\ Knows(s, f, Len(f))
  <2>1. Knows(Step(s, " "), f, Len(f))
    <3>1. CASE s.at = "Settled" \/ ~s.inString
      <4>1. Step(s, " ") = s
        BY <1>4, <3>1 DEF Step, Knows, StructuralByte, Space
      <4> QED
        BY <1>4, <4>1
    <3>2. CASE s.at # "Settled" /\ s.inString
      <4> DEFINE t == [s EXCEPT !.escaped = ~s.escaped /\ " " = "\\", !.inString = ~(~s.escaped /\ " " = "\"")]
                 u == [t EXCEPT !.key = Append(@, " ")]
      <4>1. Step(s, " ") = t \/ Step(s, " ") = u
        BY <1>4, <3>2 DEF Step, Knows, InStringByte, Parts
      <4>2. /\ DOMAIN t = Parts /\ ~t.escaped /\ ~t.readingId /\ t.has = s.has /\ t.id = s.id /\ t.tooLong = s.tooLong
        BY <1>4 DEF Knows, Parts
      <4>3. /\ DOMAIN u = Parts /\ ~u.escaped /\ ~u.readingId /\ u.has = s.has /\ u.id = s.id /\ u.tooLong = s.tooLong
        <5> HIDE DEF t
        <5> QED
          BY <4>2 DEF Parts
      <4> HIDE DEF t, u
      <4> QED
        BY <1>4, <4>1, <4>2, <4>3 DEF Knows, Holds
    <3> QED
      BY <3>1, <3>2
  <2> QED
    BY <1>4, <2>1 DEF Tracks
<1> QED
  BY <1>1, <1>2, <1>3, <1>4, Zenon DEF Tracks

\* A line ends in a newline, whatever of it is left.
LEMMA LineEnds ==
    ASSUME NEW r \in Seq(Tokens), r # <<>>, r[Len(r)] = "newline"
    PROVE  /\ Tail(r) \in Seq(Tokens)
           /\ Tail(r) # <<>> => Tail(r)[Len(Tail(r))] = "newline"
           /\ Head(r) # "newline" => Tail(r) # <<>>
<1>1. Len(r) \in Nat /\ Len(r) > 0 /\ Head(r) = r[1]
  OBVIOUS
<1>2. Tail(r) \in Seq(Tokens) /\ Len(Tail(r)) = Len(r) - 1 /\ \A i \in 1..(Len(r) - 1) : Tail(r)[i] = r[i + 1]
  OBVIOUS
<1>3. Tail(r) # <<>> => Tail(r)[Len(Tail(r))] = "newline"
  <2> SUFFICES ASSUME Tail(r) # <<>> PROVE Tail(r)[Len(Tail(r))] = "newline"
    OBVIOUS
  <2>1. Len(Tail(r)) \in 1..(Len(r) - 1) /\ Len(Tail(r)) + 1 = Len(r)
    BY <1>1, <1>2
  <2> QED
    BY <1>2, <2>1
<1>4. Tail(r) = <<>> => Len(r) = 1
  <2> SUFFICES ASSUME Tail(r) = <<>> PROVE Len(r) = 1
    OBVIOUS
  <2>1. Len(<<>>) = 0
    OBVIOUS
  <2>2. Len(Tail(r)) = 0
    BY <2>1, Zenon
  <2> QED
    BY <1>1, <1>2, <2>2
<1> QED
  BY <1>1, <1>2, <1>3, <1>4

\* And so does a whole one.
LEMMA WholeLine ==
    ASSUME NEW f \in Objects
    PROVE  Bytes(f) \in Seq(Tokens) /\ Bytes(f) # <<>> /\ Bytes(f)[Len(Bytes(f))] = "newline"
<1> DEFINE z == <<"{">> \o Members(f)[Len(f)]
           e == <<"}", "newline">>
<1>1. Len(f) \in 0..Len(f)
  BY ObjectFacts
<1>2. Members(f)[Len(f)] \in Seq(Tokens)
  BY <1>1, MembersAreTokens
<1>3. "{" \in Tokens /\ "}" \in Tokens /\ "newline" \in Tokens
  BY Punctuation
<1>4. z \in Seq(Tokens)
  BY <1>2, <1>3, InFront
<1>5. e \in Seq(Tokens) /\ Len(e) = 2 /\ e[2] = "newline"
  BY <1>3, FewTokens
<1>6. Bytes(f) = z \o e
  BY DEF Bytes
<1> HIDE DEF z, e
<1>7. z \o e \in Seq(Tokens) /\ Len(z \o e) = Len(z) + 2 /\ (z \o e)[Len(z) + 2] = "newline" /\ z \o e # <<>>
  <2>1. /\ z \o e \in Seq(Tokens) /\ Len(z \o e) = Len(z) + Len(e)
        /\ \A j \in 1..(Len(z) + Len(e)) : (z \o e)[j] = IF j <= Len(z) THEN z[j] ELSE e[j - Len(z)]
    BY <1>4, <1>5, ConcatProperties
  <2>2. Len(z) \in Nat
    BY <1>4
  <2>3. Len(z) + 2 \in 1..(Len(z) + Len(e)) /\ ~(Len(z) + 2 <= Len(z)) /\ (Len(z) + 2) - Len(z) = 2
    BY <1>5, <2>2
  <2> QED
    BY <1>5, <2>1, <2>2, <2>3
<1> QED
  BY <1>6, <1>7

\* What the line says, in terms of its fields, is what ScanIsExact asks for.
LEMMA TruthIs ==
    ASSUME fields \in Objects
    PROVE  Truth(fields) = IF SaysResponse /\ FieldOf("id") # {} /\ \A v \in FieldOf("id") : Len(v) <= MaxIdBytes
                           THEN CHOOSE v \in FieldOf("id") : TRUE ELSE <<>>
<1> DEFINE f == fields
           names == {f[j][1] : j \in 1..Len(f)}
           id == IdBy(f, Len(f))
<1>0. DOMAIN f = 1..Len(f)
  BY ObjectFacts
<1>1. \A k : FieldOf(k) # {} <=> k \in names
  BY <1>0 DEF FieldOf
<1>2. SaysResponse <=> names \cap {"result", "error"} # {} /\ "method" \notin names
  <2>1. /\ FieldOf("result") # {} <=> "result" \in names
        /\ FieldOf("error") # {} <=> "error" \in names
        /\ FieldOf("method") # {} <=> "method" \in names
    BY <1>1
  <2> HIDE DEF names
  <2> QED
    BY <2>1 DEF SaysResponse
<1>3. Truth(f) = IF SaysResponse /\ Len(id) <= MaxIdBytes THEN id ELSE <<>>
  <2> HIDE DEF id
  <2>1. Truth(f) = IF names \cap {"result", "error"} # {} /\ "method" \notin names /\ Len(id) <= MaxIdBytes
                   THEN id ELSE <<>>
    BY DEF Truth, id
  <2> HIDE DEF names
  <2> QED
    BY <1>2, <2>1
<1>4. CASE ~\E j \in 1..Len(f) : f[j][1] = "id"
  <2>1. id = <<>>
    BY <1>4, Zenon DEF IdBy
  <2>2. FieldOf("id") = {}
    BY <1>1, <1>4
  <2> HIDE DEF id, names
  <2> QED
    BY <1>3, <2>1, <2>2
<1>5. CASE \E j \in 1..Len(f) : f[j][1] = "id"
  <2>1. PICK k \in 1..Len(f) : f[k][1] = "id" /\ id = f[k][2]
    BY <1>5, Zenon DEF IdBy
  <2>2. \A j \in 1..Len(f) : f[j][1] = "id" => j = k
    <3>1. \A x, y \in 1..Len(f) : f[x][1] = f[y][1] => x = y
      BY ObjectFacts
    <3> QED
      BY <2>1, <3>1
  <2>3. FieldOf("id") = {id}
    <3> HIDE DEF id
    <3> QED
      BY <1>0, <2>1, <2>2 DEF FieldOf
  <2> HIDE DEF id, names
  <2>4. (CHOOSE v \in {id} : TRUE) = id
    OBVIOUS
  <2>5. (\A v \in {id} : Len(v) <= MaxIdBytes) <=> Len(id) <= MaxIdBytes
    OBVIOUS
  <2> QED
    BY <1>3, <2>3, <2>4, <2>5
<1> QED
  BY <1>4, <1>5

\* The whole line, to a scan that knows nothing, is tracked.
LEMMA LineStarts ==
    ASSUME NEW f \in Objects PROVE Tracks(NewScan, "none", Bytes(f), f)
BY DEF Tracks, Between

\* At a newline the scan's verdict is the truth: it is settled, or it has seen
\* every field.
LEMMA VerdictAtEnd ==
    ASSUME NEW f \in Objects, NEW s, NEW l, NEW r, Settled(s, f) \/ Tracks(s, l, r, f), Head(r) = "newline"
    PROVE  Verdict(s) = Truth(f)
<1>a. /\ "{" \in Tokens /\ "\"" \in Tokens /\ ":" \in Tokens /\ "," \in Tokens
      /\ " " \in Tokens /\ "}" \in Tokens /\ "newline" \in Tokens
  BY Punctuation
<1>0. Len(f) \in Nat /\ 0 \in 0..Len(f) /\ Len(f) \in 0..Len(f)
  BY ObjectFacts
<1>1. CASE Settled(s, f)
  BY <1>1 DEF Settled
<1>2. CASE r = <<"newline">> /\ Knows(s, f, Len(f))
  BY <1>0, <1>2, VerdictIsTrue, Zenon DEF Knows
<1>3. CASE r = Bytes(f)
  <2>1. r = <<"{">> \o After(f, 0) /\ After(f, 0) \in Seq(Tokens)
    BY <1>0, <1>3, LineTokens, AfterIs
  <2>2. Head(r) = "{"
    BY <1>a, <2>1, InFront
  <2> QED
    BY <2>2
<1>4. CASE f = <<>> /\ r = After(f, 0)
  <2>1. Len(f) = 0
    BY <1>4
  <2>2. r = <<"}">> \o <<"newline">>
    BY <1>4, <2>1, LineTokens
  <2>3. <<"newline">> \in Seq(Tokens)
    BY <1>a, FewTokens
  <2>4. Head(r) = "}"
    BY <1>a, <2>2, <2>3, InFront
  <2> QED
    BY <2>4
<1>5. ASSUME NEW i \in 1..Len(f), InField(s, l, r, f, i) PROVE FALSE
  <2>0. /\ FromKey(f, i) \in Seq(Tokens) /\ FromName(f, i) \in Seq(Tokens)
        /\ FromClose(f, i) \in Seq(Tokens) /\ FromColon(f, i) \in Seq(Tokens)
        /\ FromValue(f, i, 0) \in Seq(Tokens)
        /\ f[i][1] \in Keys /\ f[i][1] \in Tokens /\ f[i][1] # "newline"
    <3>1. 0 \in 0..Len(f[i][2])
      BY InFieldIs
    <3>2. f[i][1] \in Keys
      BY ObjectFacts
    <3>3. f[i][1] # "newline"
      BY <3>2 DEF Keys
    <3> QED
      BY <3>1, <3>2, <3>3, LineTokens, FieldTokens
  <2>2. CASE r = FromKey(f, i)
    BY <1>a, <2>0, <2>2, InFront, ZenonT(40) DEF FromKey
  <2>3. CASE r = FromName(f, i)
    BY <2>0, <2>3, InFront DEF FromName
  <2>4. CASE r = FromClose(f, i)
    <3>1. Head(r) = "\""
      BY <1>a, <2>0, <2>4, InFront DEF FromClose
    <3> QED
      BY <3>1
  <2>5. CASE r = FromColon(f, i)
    <3>1. Head(r) = ":"
      BY <1>a, <2>0, <2>5, InFront DEF FromColon
    <3> QED
      BY <3>1
  <2>6. ASSUME NEW n \in 0..Len(f[i][2]), r = FromValue(f, i, n) PROVE FALSE
    <3> DEFINE v == f[i][2]
               a == After(f, i)
    <3>0. IsValue(v) /\ v \in Seq(Tokens) /\ Len(v) \in Nat /\ i \in 0..Len(f) /\ a \in Seq(Tokens)
      BY InFieldIs, AfterIs
    <3>1. CASE n # Len(v)
      <4>1. n \in 0..(Len(v) - 1) /\ n + 1 \in 1..Len(v)
        BY <3>0, <3>1
      <4>2. r = SubSeq(v, n + 1, Len(v)) \o a
        BY <2>6 DEF FromValue
      <4> HIDE DEF v, a
      <4>3. SubSeq(v, n + 1, Len(v)) \o a = <<v[n + 1]>> \o (SubSeq(v, n + 2, Len(v)) \o a)
        BY <3>0, <4>1, FromNext, Zenon
      <4>4. v[n + 1] \in Tokens /\ SubSeq(v, n + 2, Len(v)) \in Seq(Tokens)
        BY <3>0, <4>1
      <4>5. SubSeq(v, n + 2, Len(v)) \o a \in Seq(Tokens)
        BY <3>0, <4>4, ConcatProperties
      <4>6. Head(r) = v[n + 1]
        BY <4>2, <4>3, <4>4, <4>5, InFront
      <4>7. v[n + 1] # "newline"
        BY <3>0, <4>1 DEF IsValue
      <4> QED
        BY <4>6, <4>7
    <3>2. CASE n = Len(v)
      <4>1. r = a
        BY <2>6, <3>2, LineTokens
      <4>2. CASE i # Len(f)
        <5>1. i + 1 \in 1..Len(f) /\ (i + 1) - 1 = i /\ i + 1 # 1
          BY <1>0, <4>2
        <5> DEFINE t == FromKey(f, i + 1)
        <5>2. After(f, (i + 1) - 1) = <<",">> \o t /\ FromKey(f, i + 1) \in Seq(Tokens)
          BY <5>1, LineTokens
        <5>3. t \in Seq(Tokens)
          BY <5>2
        <5>4. r = <<",">> \o t
          BY <4>1, <5>1, <5>2
        <5> HIDE DEF t
        <5>5. Head(r) = ","
          BY <1>a, <5>3, <5>4, InFront
        <5> QED
          BY <5>5
      <4>3. CASE i = Len(f)
        <5>1. r = <<"}">> \o <<"newline">>
          BY <4>1, <4>3, LineTokens
        <5>2. <<"newline">> \in Seq(Tokens)
          BY <1>a, FewTokens
        <5>3. Head(r) = "}"
          BY <1>a, <5>1, <5>2, InFront
        <5> QED
          BY <5>3
      <4> QED
        BY <4>2, <4>3
    <3> QED
      BY <3>1, <3>2
  <2> QED
    BY <1>5, <2>2, <2>3, <2>4, <2>5, <2>6, Zenon DEF InField
<1> QED
  BY <1>1, <1>2, <1>3, <1>4, <1>5, Zenon DEF Tracks

\* Every step of the scan keeps it where it has to be.
LEMMA ScanStep == ScanInv /\ [ScanNext]_scanVars => ScanInv'
<1> SUFFICES ASSUME ScanInv, [ScanNext]_scanVars PROVE ScanInv'
  OBVIOUS
<1>0. /\ fields \in Objects
      /\ rest \in Seq(Tokens) /\ (rest # <<>> => rest[Len(rest)] = "newline")
      /\ rest = <<>> => scan = NewScan /\ lexed = "none" /\ found.answers = Truth(fields)
      /\ rest # <<>> => Settled(scan, fields) \/ Tracks(scan, lexed, rest, fields)
  BY Zenon DEF ScanInv
<1>1. CASE Feed
  <2>1. rest # <<>> /\ Head(rest) # "newline" /\ rest' = Tail(rest) /\ fields' = fields
        /\ lexed' = LexOn(lexed, Head(rest))
    BY <1>1 DEF Feed
  <2>2. scan' = Step(scan, Head(rest))
    BY <1>1 DEF Feed
  <2>3. /\ rest' \in Seq(Tokens) /\ rest' # <<>> /\ rest'[Len(rest')] = "newline"
    BY <1>0, <2>1, LineEnds
  <2>4. Settled(scan', fields) \/ Tracks(scan', lexed', rest', fields)
    <3>1. CASE Settled(scan, fields)
      <4>1. scan' = scan
        BY <2>2, <3>1 DEF Step, Settled
      <4> QED
        BY <3>1, <4>1
    <3>2. CASE Tracks(scan, lexed, rest, fields)
      BY <1>0, <2>1, <2>2, <3>2, FeedsRight, Zenon
    <3> QED
      BY <1>0, <2>1, <3>1, <3>2
  <2> QED
    BY <1>0, <2>1, <2>3, <2>4, Zenon DEF ScanInv
<1>2. CASE Finish
  <2>1. rest # <<>> /\ Head(rest) = "newline" /\ rest' = <<>> /\ fields' = fields /\ scan' = NewScan /\ lexed' = "none"
    BY <1>2 DEF Finish
  <2>2. found'.answers = Verdict(scan)
    BY <1>2 DEF Finish, Verdict
  <2>3. Verdict(scan) = Truth(fields)
    BY <1>0, <2>1, VerdictAtEnd, Zenon
  <2>4. rest' \in Seq(Tokens)
    BY <2>1
  <2> QED
    BY <1>0, <2>1, <2>2, <2>3, <2>4, Zenon DEF ScanInv
<1>3. CASE NextLine
  <2>1. rest = <<>> /\ fields' \in Objects /\ rest' = Bytes(fields') /\ scan' = scan /\ lexed' = lexed
    BY <1>3 DEF NextLine
  <2>2. rest' \in Seq(Tokens) /\ rest' # <<>> /\ rest'[Len(rest')] = "newline"
    BY <2>1, WholeLine
  <2>3. Tracks(scan', lexed', rest', fields')
    BY <1>0, <2>1, LineStarts
  <2> QED
    BY <2>1, <2>2, <2>3, Zenon DEF ScanInv
<1>4. CASE FeedSpace
  <2>1. /\ rest # <<>> /\ rest' = rest /\ fields' = fields /\ lexed' = "none" /\ scan' = Step(scan, " ")
        /\ lexed = "none" \/ (lexed = "plain" /\ Head(rest) \in Structure)
    BY <1>4 DEF FeedSpace
  <2>2. Settled(scan', fields) \/ Tracks(scan', lexed', rest', fields)
    <3>1. CASE Settled(scan, fields)
      <4>1. scan' = scan
        BY <2>1, <3>1 DEF Step, Settled
      <4> QED
        BY <3>1, <4>1
    <3>2. CASE Tracks(scan, lexed, rest, fields)
      BY <1>0, <2>1, <3>2, SpaceIsNothing, Zenon
    <3> QED
      BY <1>0, <2>1, <3>1, <3>2
  <2> QED
    BY <1>0, <2>1, <2>2, Zenon DEF ScanInv
<1>5. CASE UNCHANGED scanVars
  BY <1>0, <1>5, Zenon DEF ScanInv, scanVars
<1> QED
  BY <1>1, <1>2, <1>3, <1>4, <1>5 DEF ScanNext

\* A worker's line is taken for the answer to a request if and only if it is one,
\* for lines of any number of fields in any order, any values and any bound on
\* the bytes of an id that is held.  While the line passes, LineScan::feed keeps
\* no more of it than ScanInv says: the outcomes seen, the id or what fits of
\* it, and the place it is in.
THEOREM ScanFindsTheAnswer == ScanSpec => []ScanIsExact
<1>1. ScanInit => ScanInv
  <2> SUFFICES ASSUME ScanInit PROVE ScanInv
    OBVIOUS
  <2>1. fields \in Objects /\ rest = Bytes(fields) /\ scan = NewScan /\ lexed = "none"
    BY DEF ScanInit
  <2>2. rest \in Seq(Tokens) /\ rest # <<>> /\ rest[Len(rest)] = "newline"
    BY <2>1, WholeLine
  <2>3. Tracks(scan, lexed, rest, fields)
    BY <2>1, LineStarts
  <2> QED
    BY <2>1, <2>2, <2>3, Zenon DEF ScanInv
<1>2. ScanInv => ScanIsExact
  <2> SUFFICES ASSUME ScanInv, rest = <<>>
               PROVE  found.answers = IF SaysResponse /\ FieldOf("id") # {}
                                           /\ \A v \in FieldOf("id") : Len(v) <= MaxIdBytes
                                      THEN CHOOSE v \in FieldOf("id") : TRUE ELSE <<>>
    BY Zenon DEF ScanIsExact
  <2>1. fields \in Objects /\ found.answers = Truth(fields)
    BY Zenon DEF ScanInv
  <2> QED
    BY <2>1, TruthIs
<1> QED
  BY <1>1, <1>2, ScanStep, PTL DEF ScanSpec
=============================================================================
