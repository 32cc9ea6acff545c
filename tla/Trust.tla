------------------------------- MODULE Trust --------------------------------
(***************************************************************************)
(* Which keys a run of the updater believes, and which manifest it takes   *)
(* (n0xis-update: trust.rs, lib.rs, manifest.rs).  A manifest may name the *)
(* next key; it is kept, whole and with its signature, as a link of a      *)
(* chain in the user's directory, and a later run proves the key from it.  *)
(* Anything may be in that file, and other runs of the updater read and    *)
(* write it at the same time, without a lock.                              *)
(*                                                                         *)
(* A signature is the set of keys that made one over these very bytes, so  *)
(* that a link is a manifest.  What a server sends is any manifest at all. *)
(***************************************************************************)
EXTENDS Naturals, SequencesExt

CONSTANTS
    Root,       \* the key in the binary
    Manifests,  \* [version, by, next, reads]: by signs it; reads: it parses
    NoKey,      \* a manifest that names no key
    None,       \* no manifest
    Addresses,  \* where a manifest is asked for, in order
    MaxLinks,   \* CHAIN_MAX_LINKS
    Updaters    \* the runs

ASSUME TrustAssumption == MaxLinks \in Nat

VARIABLES
    chain,    \* the file: a sequence of manifests
    step,     \* run -> 0 before it starts, then the address it is at
    keys,     \* run -> the keys its Trust holds
    link,     \* run -> the manifest it is about to remember, and what it read
    best,     \* run -> the manifest it would take, if any
    worst     \* run -> the most serious refusal so far

trustVars == <<chain, step, keys, link, best, worst>>

\* Why, in the order of seriousness.
Unavailable == 1
NoSignature == 2
BadManifest == 3
BadSignature == 4

\* verify_under: any line verifying under any key held is enough.
VerifyUnder(held, m) == m.by \cap held # {}

\* Mutant: a link is believed for what it says.
ProvedUnseen(m, held) == IF m.reads THEN m.next ELSE NoKey

\* key_proved_by: the next key this link names, if it verifies and names one.
KeyProvedBy(m, held) ==
    IF VerifyUnder(held, m) /\ m.reads THEN m.next ELSE NoKey

\* One link of a walk: it proves a key or is skipped.
Prove(acc, m) ==
    LET k == KeyProvedBy(m, acc.keys)
    IN  IF k = NoKey THEN acc
        ELSE [keys |-> acc.keys \cup {k}, proving |-> Append(acc.proving, m)]

\* walk: the keys these links prove, and the links that proved one; after each
\* link, and after them all.
Walked(held, links) ==
    LET after[n \in 0..Len(links)] ==
            IF n = 0 THEN [keys |-> held, proving |-> <<>>] ELSE Prove(after[n - 1], links[n])
    IN  after

Walk(held, links) == Walked(held, links)[Len(links)]

\* The keys a run has from a file: at most CHAIN_MAX_LINKS links of it count.
KeysFrom(links) ==
    Walk({Root}, SubSeq(links, 1, IF Len(links) < MaxLinks THEN Len(links) ELSE MaxLinks)).keys

TrustInit ==
    /\ chain \in UNION {[1..n -> Manifests] : n \in 0..MaxLinks + 1}
    /\ step = [u \in Updaters |-> 0]
    /\ keys = [u \in Updaters |-> {}]
    /\ link = [u \in Updaters |-> None]
    /\ best = [u \in Updaters |-> None]
    /\ worst = [u \in Updaters |-> 0]

\* Trust::rooted_at.
Load(u) ==
    /\ step[u] = 0
    /\ keys' = [keys EXCEPT ![u] = KeysFrom(chain)]
    /\ step' = [step EXCEPT ![u] = 1]
    /\ UNCHANGED <<chain, link, best, worst>>

Refuse(u, why) ==
    /\ worst' = [worst EXCEPT ![u] = IF why > @ THEN why ELSE @]
    /\ step' = [step EXCEPT ![u] = @ + 1]
    /\ UNCHANGED <<chain, keys, link, best>>

\* The newest so far, the earlier address's if there are two.
Newest(u, m) ==
    IF best[u] = None \/ m.version > best[u].version THEN m ELSE best[u]

\* fetch_one: nothing that does not verify is looked at.  A manifest that
\* names a key not held is remembered first, from the file as it is now.
FetchOne(u) ==
    /\ step[u] \in 1..Len(Addresses) /\ link[u] = None
    /\ \/ Refuse(u, Unavailable)
       \/ Refuse(u, NoSignature)
       \/ \E m \in Manifests :
             IF ~VerifyUnder(keys[u], m) THEN Refuse(u, BadSignature)
             ELSE IF ~m.reads THEN Refuse(u, BadManifest)
             ELSE /\ best' = [best EXCEPT ![u] = Newest(u, m)]
                  /\ IF m.next = NoKey \/ m.next \in keys[u]
                     THEN step' = [step EXCEPT ![u] = @ + 1] /\ UNCHANGED link
                     ELSE link' = [link EXCEPT ![u] = [manifest |-> m, read |-> chain]]
                          /\ UNCHANGED step
                  /\ UNCHANGED <<chain, keys, worst>>

\* Mutant: the file is written back as it was, with the link added.
RewrittenAll(l) ==
    {chain, IF Len(l.read) >= MaxLinks \/ Contains(l.read, l.manifest)
            THEN chain ELSE Append(l.read, l.manifest)}

\* remember: what the file proves from the root, and this, unless it is full or
\* has this already.  The write may fail.
Rewritten(l) ==
    LET kept == Walk({Root}, l.read).proving
    IN  {chain, IF Len(kept) >= MaxLinks \/ Contains(kept, l.manifest)
                THEN chain ELSE Append(kept, l.manifest)}

\* Another run may have written since this one read.
Remember(u) ==
    /\ link[u] # None
    /\ chain' \in Rewritten(link[u])
    /\ link' = [link EXCEPT ![u] = None]
    /\ step' = [step EXCEPT ![u] = @ + 1]
    /\ UNCHANGED <<keys, best, worst>>

TrustNext == \E u \in Updaters : Load(u) \/ FetchOne(u) \/ Remember(u)
TrustSpec == TrustInit /\ [][TrustNext]_trustVars
-----------------------------------------------------------------------------
\* The keys that a run is right to believe: the root, and what a manifest that
\* a key believed signed has named, and no more.
AllKeys == {Root} \cup {m.next : m \in Manifests}

Closed(S) ==
    /\ Root \in S
    /\ \A m \in Manifests : m.reads /\ m.next # NoKey /\ m.by \cap S # {} => m.next \in S

Endorsed == {k \in AllKeys : \A S \in SUBSET AllKeys : Closed(S) => k \in S}

\* "writing this file grants nothing": whatever the file holds, a run believes
\* no key that the root's own signatures do not lead to, and takes no manifest
\* that no such key signed.
OnlyEndorsed ==
    \A u \in Updaters :
        /\ keys[u] \subseteq Endorsed
        /\ best[u] # None => best[u].by \cap Endorsed # {}

\* A run that remembers m has room for it: what it read proves the key that
\* signed m, by fewer links than the bound, however many links it holds.
HasRoom(l) ==
    LET before == Walk({Root}, l.read)
    IN  Len(before.proving) < MaxLinks /\ VerifyUnder(before.keys, l.manifest)

\* A run of tomorrow has all that today's file proves, read to its end, and the
\* key that the manifest names, unless the write fails.
CanBeHad(l) ==
    \E c \in Rewritten(l) : Walk({Root}, l.read).keys \cup {l.manifest.next} \subseteq KeysFrom(c)

\* "Only what verifies is written back, so junk cannot crowd out a real key, as
\* 32 planted records once did": whatever the file holds and how long it is, a
\* run with room leaves one that a later run, which reads no further than the
\* bound, has every key from (trust.rs remember).
JunkNeverCrowdsOut == \A u \in Updaters : link[u] # None /\ HasRoom(link[u]) => CanBeHad(link[u])

\* What the code keeps of it: so it is unless the file has that very manifest
\* already, among the links that prove, where remember returns before it writes
\* and the file stays as long as it is (trust.rs:109).
JunkCrowdsNothingOut ==
    \A u \in Updaters :
        /\ link[u] # None /\ HasRoom(link[u])
        /\ ~Contains(Walk({Root}, link[u].read).proving, link[u].manifest)
        => CanBeHad(link[u])
=============================================================================
