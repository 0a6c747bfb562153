---------------------------- MODULE ConfigProofs -----------------------------
(***************************************************************************)
(* The configuration, whatever keys are watched together: LiveAgrees,      *)
(* NothingHeld and EnablesWhole.                                           *)
(*                                                                         *)
(* LiveInv says of every moment what LiveAgrees says when no handler runs: *)
(* at each place where a failed write may break the script off, or where   *)
(* it goes on then (Cuts), what is left in NVS and in the globals agrees   *)
(* (Leaves, Agrees), or the rest arms the restart timer before it can be   *)
(* broken off (Restarting).  HeldInv says where everything that is held is *)
(* going to be released: before each place where the handler may return    *)
(* (Leaving); a write that fails skips no release (Guarded).               *)
(*                                                                         *)
(* No step depends on which handler it is: the effects keep the invariant  *)
(* for every script, and a handler may begin with every script that is     *)
(* Sound.  A form (Form) changes settings, and holds and sends nothing; a  *)
(* page (Page) holds and sends, and changes nothing.  Forms after forms    *)
(* are forms, pages after pages are pages, and a form that is wrapped into *)
(* buffers and followed by a page is sound; so it remains to see that      *)
(* every command and every page is composed that way, which is where the   *)
(* keys, the ranges and the order of the source's calls matter.            *)
(*                                                                         *)
(* EnableInv says, of the import of a VPN file, that no place is left      *)
(* where the tunnel is enabled before a mandatory value is stored.         *)
(***************************************************************************)
EXTENDS Management, FiniteSetTheorems, SequenceTheorems, TLAPS

\* What scripts are made of
Values  == 0..Bad \cup {Missing}
Kinds   == {"save", "put", "live", "wipe", "alloc", "free", "send", "arm", "end", "skip"}
Buffers == {"buf", "ap_ip", "ap_list", "acl_lock", "scan_page", "plain", "enc", "body", "decrypted"}
Names   == Keys \cup Buffers \cup {"*"}
Effects == Kinds \X Names \X Values
Scripts == Seq(Effects)

Writes == {"save", "put"}
Lives  == {"live"}

On(e, kinds, k) == e[1] \in kinds /\ e[2] = k

\* From its place p on and before its place q, the script leaves v where there was c.
Leaves(s, p, q, kinds, k, c, v) ==
    \/ \E i \in DOMAIN s : /\ p <= i /\ i < q /\ On(s[i], kinds, k) /\ s[i][3] = v
                           /\ \A j \in DOMAIN s : i < j /\ j < q => ~On(s[j], kinds, k)
    \/ v = c /\ \A i \in DOMAIN s : p <= i /\ i < q => ~On(s[i], kinds, k)

\* d is what app_main() makes of c.
InForce(k, c, d) == d = Loaded(k, c) \/ (k = "ap_channel" /\ c = Bad)

Agrees(s, p, q, k, c, d) ==
    \E v, w \in Values :
      Leaves(s, p, q, Writes, k, c, v) /\ Leaves(s, p, q, Lives, k, d, w) /\ InForce(k, v, w)

\* Where the script begins, may be broken off, goes on after that, and ends
Cuts(s) == {1, Len(s) + 1} \cup {i \in DOMAIN s : s[i][1] = "save" \/ s[i] = End}

\* What agrees at one of them agrees at the next.
Settled(s) ==
    \A k \in LiveKeys : \A p, q \in Cuts(s) : p <= q =>
      \A c, d \in Values : InForce(k, c, d) => Agrees(s, p, q, k, c, d)

\* The script arms the timer before anything can make the handler return or break it off.
Restarting(s, p) ==
    \E j \in DOMAIN s : /\ j >= p /\ s[j][1] = "arm"
                        /\ \A i \in DOMAIN s : p <= i /\ i <= j => s[i][1] \notin {"send", "save"}

\* Nothing is wiped, and nothing changed once the answer is sent.
Lasting(s) ==
    \A i \in DOMAIN s :
      /\ s[i][1] # "wipe"
      /\ s[i][1] = "send" => \A j \in DOMAIN s : j > i => s[j][1] \notin Writes \cup Lives

WillAgree ==
    \A k \in LiveKeys \cap Settings, q \in Cuts(job) :
      at <= q => Agrees(job, at, q, k, nvs[k], run[k])

LiveInv ==
    failed \/ timer \/ Restarting(job, at) \/ (Lasting(job) /\ Settled(job) /\ WillAgree)

\* Where the handler may return
Leaving(s) == {i \in DOMAIN s : s[i][1] = "send"} \cup {Len(s) + 1}

FreedIn(s, b, p, j) == \E l \in DOMAIN s : p <= l /\ l < j /\ On(s[l], {"free"}, b)

Tidy(s) ==
    \A i \in DOMAIN s, j \in Leaving(s) :
      s[i][1] = "alloc" /\ i < j => FreedIn(s, s[i][2], i + 1, j)

\* A failed write skips no release.
Guarded(s) ==
    \A i, l \in DOMAIN s :
      s[i][1] = "save" /\ i < l /\ s[l][1] = "free" => \E e \in i..l : s[e] = End

HeldInv ==
    /\ job = <<>> => held = {}
    /\ Tidy(job) /\ Guarded(job)
    /\ held # {} => "heap" \in watch
    /\ \A b \in held, j \in Leaving(job) : at <= j => FreedIn(job, b, at, j)

Types ==
    /\ watch \subseteq Keys \cup {"heap"}
    /\ nvs \in [Settings -> Values] /\ run \in [Settings -> Values]
    /\ timer \in BOOLEAN /\ failed \in BOOLEAN
    /\ job \in Scripts
    /\ job = <<>> => at = 0 /\ handler = "none"
    /\ job # <<>> => at \in Seen(job)

IInv == Types /\ LiveInv /\ HeldInv

-----------------------------------------------------------------------------
(* Going on                                                                *)

LEMMA LeastPlace ==
    ASSUME NEW S \in SUBSET Nat, S # {}
    PROVE  Min(S) \in S /\ \A m \in S : Min(S) <= m
<1>1. PICK n \in S : \A m \in S : <<m, n>> \notin OpToRel(<, Nat)
  BY NatLessThanWellFounded, WFMin, Zenon
<1>2. ASSUME NEW m \in S
      PROVE  n <= m
  <2>1. ~(m < n)
    BY <1>1 DEF OpToRel
  <2> QED
    BY <2>1
<1> QED
  BY <1>2 DEF Min

LEMMA GoesOn ==
    ASSUME NEW s \in Scripts, NEW places \in SUBSET DOMAIN s, NEW name,
           GoOn(name, s, places)
    PROVE  \/ places = {} /\ job' = <<>> /\ at' = 0 /\ handler' = "none"
           \/ /\ job' = s /\ at' \in places /\ handler' = name
              /\ \A i \in places : at' <= i
<1>1. places \in SUBSET Nat
  BY DEF Scripts
<1> QED
  BY <1>1, LeastPlace DEF GoOn

-----------------------------------------------------------------------------
(* What a script leaves behind                                             *)

LEMMA LeavesLater ==
    ASSUME NEW s \in Scripts, NEW p \in Nat, NEW m \in Nat, NEW q \in Nat, p <= m,
           NEW kinds, NEW k, NEW c, NEW v,
           \A i \in DOMAIN s : p <= i /\ i < m => ~On(s[i], kinds, k),
           Leaves(s, p, q, kinds, k, c, v)
    PROVE  Leaves(s, m, q, kinds, k, c, v)
<1>1. \A i \in DOMAIN s : i \in Nat
  BY DEF Scripts
<1> QED
  BY <1>1 DEF Leaves

LEMMA LeavesNext ==
    ASSUME NEW s \in Scripts, NEW p \in DOMAIN s, NEW q \in Nat, p < q,
           NEW kinds, NEW k, NEW c, NEW d, NEW v,
           d = IF On(s[p], kinds, k) THEN s[p][3] ELSE c,
           Leaves(s, p, q, kinds, k, c, v)
    PROVE  Leaves(s, p + 1, q, kinds, k, d, v)
<1>1. \A i \in DOMAIN s : i \in Nat
  BY DEF Scripts
<1> QED
  BY <1>1 DEF Leaves

LEMMA LeavesThrough ==
    ASSUME NEW s \in Scripts, NEW p \in Nat, NEW m \in Nat, NEW q \in Nat, p <= m, m <= q,
           NEW kinds, NEW k, NEW c, NEW v, NEW w,
           Leaves(s, p, m, kinds, k, c, v), Leaves(s, m, q, kinds, k, v, w)
    PROVE  Leaves(s, p, q, kinds, k, c, w)
<1>1. \A i \in DOMAIN s : i \in Nat
  BY DEF Scripts
<1>2. CASE \E i \in DOMAIN s : m <= i /\ i < q /\ On(s[i], kinds, k)
  BY <1>1, <1>2 DEF Leaves
<1>3. CASE \A i \in DOMAIN s : m <= i /\ i < q => ~On(s[i], kinds, k)
  <2>1. v = w
    BY <1>3 DEF Leaves
  <2>2. \A i \in DOMAIN s : i < q => i < m \/ ~On(s[i], kinds, k)
    BY <1>1, <1>3
  <2> QED
    BY <1>1, <2>1, <2>2 DEF Leaves
<1> QED
  BY <1>2, <1>3

LEMMA AgreesLater ==
    ASSUME NEW s \in Scripts, NEW p \in Nat, NEW m \in Nat, NEW q \in Nat, p <= m,
           NEW k, NEW c, NEW d,
           \A i \in DOMAIN s : p <= i /\ i < m => ~On(s[i], Writes \cup Lives, k),
           Agrees(s, p, q, k, c, d)
    PROVE  Agrees(s, m, q, k, c, d)
<1>1. PICK v, w \in Values :
        Leaves(s, p, q, Writes, k, c, v) /\ Leaves(s, p, q, Lives, k, d, w) /\ InForce(k, v, w)
  BY DEF Agrees
<1>2. \A i \in DOMAIN s : p <= i /\ i < m => ~On(s[i], Writes, k) /\ ~On(s[i], Lives, k)
  BY DEF On
<1>3. Leaves(s, m, q, Writes, k, c, v) /\ Leaves(s, m, q, Lives, k, d, w)
  BY <1>1, <1>2, LeavesLater
<1> QED
  BY <1>1, <1>3 DEF Agrees

\* At a place there is nothing left to come before it.
LEMMA AgreesHere ==
    ASSUME NEW s \in Scripts, NEW p \in Nat, NEW k, NEW c, NEW d, Agrees(s, p, p, k, c, d)
    PROVE  InForce(k, c, d) /\ c \in Values /\ d \in Values
<1>1. \A i \in DOMAIN s : i \in Nat
  BY DEF Scripts
<1> QED
  BY <1>1 DEF Agrees, Leaves

LEMMA AgreesIdle ==
    ASSUME NEW s \in Scripts, NEW p, NEW q, NEW k, NEW c \in Values, NEW d \in Values, InForce(k, c, d),
           \A i \in DOMAIN s : p <= i /\ i < q => ~On(s[i], Writes \cup Lives, k)
    PROVE  Agrees(s, p, q, k, c, d)
BY DEF Agrees, Leaves, On

LEMMA CutsAreNat ==
    ASSUME NEW s \in Scripts
    PROVE  /\ Cuts(s) \subseteq Nat /\ Len(s) \in Nat /\ DOMAIN s = 1..Len(s)
           /\ \A q \in Cuts(s) : 1 <= q /\ q <= Len(s) + 1
           /\ Len(s) + 1 \in Cuts(s) /\ 1 \in Cuts(s)
BY DEF Cuts, Scripts

LEMMA AgreesGoOn ==
    ASSUME NEW s \in Scripts, NEW p \in 1..Len(s) + 1, NEW places \in SUBSET DOMAIN s, NEW name,
           GoOn(name, s, places), \A i \in places : p <= i,
           NEW k, NEW c, NEW d,
           \A i \in DOMAIN s : p <= i /\ On(s[i], Writes \cup Lives, k) => i \in places,
           \A q \in Cuts(s) : p <= q => Agrees(s, p, q, k, c, d)
    PROVE  \A q \in Cuts(job') : at' <= q => Agrees(job', at', q, k, c, d)
<1>1. /\ Cuts(s) \subseteq Nat /\ Len(s) \in Nat /\ DOMAIN s = 1..Len(s) /\ p \in Nat
      /\ Len(s) + 1 \in Cuts(s)
  BY CutsAreNat
<1>2. CASE places = {} /\ job' = <<>> /\ at' = 0
  <2>1. Agrees(s, p, Len(s) + 1, k, c, d)
    BY <1>1
  <2>2. Agrees(s, Len(s) + 1, Len(s) + 1, k, c, d)
    <3>1. p <= Len(s) + 1 /\ Len(s) + 1 \in Nat
      BY <1>1
    <3>2. \A i \in DOMAIN s : p <= i /\ i < Len(s) + 1 => ~On(s[i], Writes \cup Lives, k)
      BY <1>2
    <3> QED
      BY <1>1, <2>1, <3>1, <3>2, AgreesLater
  <2>3. InForce(k, c, d) /\ c \in Values /\ d \in Values
    BY <1>1, <2>2, AgreesHere
  <2>4. job' \in Scripts
    BY <1>2 DEF Scripts
  <2> QED
    BY <1>2, <2>3, <2>4, AgreesIdle
<1>3. CASE job' = s /\ at' \in places /\ \A i \in places : at' <= i
  <2>1. at' \in Nat /\ p <= at'
    BY <1>1, <1>3
  <2>2. \A i \in DOMAIN s : p <= i /\ i < at' => ~On(s[i], Writes \cup Lives, k)
    <3>1. \A i \in DOMAIN s : i \in Nat /\ (i < at' => i \notin places)
      BY <1>1, <1>3, <2>1
    <3> QED
      BY <3>1
  <2>3. ASSUME NEW q \in Cuts(s), at' <= q
        PROVE  Agrees(s, at', q, k, c, d)
    <3>1. q \in Nat /\ p <= q
      BY <1>1, <2>1, <2>3
    <3>2. Agrees(s, p, q, k, c, d)
      BY <3>1
    <3> QED
      BY <1>1, <2>1, <2>2, <3>1, <3>2, AgreesLater
  <2> QED
    BY <1>3, <2>3
<1> QED
  BY <1>2, <1>3, GoesOn

LEMMA AgreesNext ==
    ASSUME NEW s \in Scripts, NEW p \in DOMAIN s, NEW q \in Nat, p < q,
           NEW k, NEW c, NEW d, NEW e, NEW f,
           Agrees(s, p, q, k, c, d),
           e = IF On(s[p], Writes, k) THEN s[p][3] ELSE c,
           f = IF On(s[p], Lives, k) THEN s[p][3] ELSE d
    PROVE  Agrees(s, p + 1, q, k, e, f)
<1>1. PICK v, w \in Values :
        Leaves(s, p, q, Writes, k, c, v) /\ Leaves(s, p, q, Lives, k, d, w) /\ InForce(k, v, w)
  BY DEF Agrees
<1>2. Leaves(s, p + 1, q, Writes, k, e, v) /\ Leaves(s, p + 1, q, Lives, k, f, w)
  BY <1>1, LeavesNext
<1> QED
  BY <1>1, <1>2 DEF Agrees

LEMMA AgreesThrough ==
    ASSUME NEW s \in Scripts, NEW p \in Nat, NEW m \in Nat, NEW q \in Nat, p <= m, m <= q, NEW k,
           \A c, d \in Values : InForce(k, c, d) => Agrees(s, p, m, k, c, d),
           \A c, d \in Values : InForce(k, c, d) => Agrees(s, m, q, k, c, d),
           NEW c \in Values, NEW d \in Values, InForce(k, c, d)
    PROVE  Agrees(s, p, q, k, c, d)
<1>1. PICK v, w \in Values :
        Leaves(s, p, m, Writes, k, c, v) /\ Leaves(s, p, m, Lives, k, d, w) /\ InForce(k, v, w)
  BY DEF Agrees
<1>2. PICK a, b \in Values :
        Leaves(s, m, q, Writes, k, v, a) /\ Leaves(s, m, q, Lives, k, w, b) /\ InForce(k, a, b)
  BY <1>1 DEF Agrees
<1>3. Leaves(s, p, q, Writes, k, c, a) /\ Leaves(s, p, q, Lives, k, d, b)
  BY <1>1, <1>2, LeavesThrough
<1> QED
  BY <1>2, <1>3 DEF Agrees

-----------------------------------------------------------------------------
(* The steps                                                               *)

\* What a step that performs the first effect does to the invariants, whatever else it does
LEMMA TypesGoOn ==
    ASSUME Types, NEW s \in Scripts, NEW places \in SUBSET Seen(s), NEW name, GoOn(name, s, places),
           watch' = watch, nvs' \in [Settings -> Values], run' \in [Settings -> Values],
           timer' \in BOOLEAN, failed' \in BOOLEAN
    PROVE  Types'
<1>1. places \in SUBSET DOMAIN s
  BY DEF Seen
<1>2. Settings' = Settings /\ Seen(s)' = Seen(s)
  BY DEF Settings, Seen, Watched
<1>3. CASE places = {} /\ job' = <<>> /\ at' = 0 /\ handler' = "none"
  BY <1>2, <1>3 DEF Types, Scripts
<1>4. CASE job' = s /\ at' \in places
  <2>1. at' \in Seen(job)'
    BY <1>2, <1>4 DEF Seen, Watched
  <2>2. job' # <<>>
    BY <1>1, <1>4 DEF Scripts
  <2> QED
    BY <1>2, <1>4, <2>1, <2>2 DEF Types
<1> QED
  BY <1>1, <1>3, <1>4, GoesOn

LEMMA LoadedTyped ==
    ASSUME NEW k, NEW v \in Values
    PROVE  Loaded(k, v) \in Values
BY DEF Loaded, LoadOption, LoadRadio, LoadUplink, LoadString, Values, Bad

LEMMA TypesStep ==
    ASSUME Types, Step
    PROVE  Types'
<1> DEFINE after == {i \in Seen(job) : i > at}
           behind == {i \in Seen(job) : \E j \in at..i : job[j] = End}
<1>1. job \in Scripts /\ {} \in SUBSET Seen(job) /\ after \in SUBSET Seen(job) /\ behind \in SUBSET Seen(job)
  BY DEF Types
<1>2. job # <<>> => at \in DOMAIN job /\ Effect[3] \in Values
  BY DEF Types, Effect, Scripts, Effects, Seen
<1>3. CASE Write
  <2>1. nvs' \in [Settings -> Values]
    BY <1>2, <1>3 DEF Write, Types
  <2>2. GoOn(handler, job, after)
    BY <1>3 DEF Write, NextEffect
  <2> QED
    BY <1>1, <1>3, <2>1, <2>2, TypesGoOn DEF Write, Types
<1>4. CASE WriteFails
  <2>1. GoOn(handler, job, after) \/ GoOn(handler, job, behind)
    BY <1>4 DEF WriteFails, NextEffect, NextChain
  <2> QED
    BY <1>1, <1>4, <2>1, TypesGoOn DEF WriteFails, Types
<1>5. CASE EraseAll
  <2>1. nvs' \in [Settings -> Values]
    BY <1>5 DEF EraseAll, Types, Values
  <2>2. GoOn(handler, job, after)
    BY <1>5 DEF EraseAll, NextEffect
  <2> QED
    BY <1>1, <1>5, <2>1, <2>2, TypesGoOn DEF EraseAll, Types
<1>6. CASE SetLive
  <2>1. run' \in [Settings -> Values]
    BY <1>2, <1>6 DEF SetLive, Types
  <2>2. GoOn(handler, job, after)
    BY <1>6 DEF SetLive, NextEffect
  <2> QED
    BY <1>1, <1>6, <2>1, <2>2, TypesGoOn DEF SetLive, Types
<1>7. CASE Hold \/ Release \/ SendChunk \/ ArmRestart
  <2>1. GoOn(handler, job, after)
    BY <1>7 DEF Hold, Release, SendChunk, ArmRestart, NextEffect
  <2>2. watch' = watch /\ nvs' = nvs /\ run' = run /\ timer' \in BOOLEAN /\ failed' = failed
    BY <1>7 DEF Hold, Release, SendChunk, ArmRestart, Types
  <2> QED
    BY <1>1, <2>1, <2>2, TypesGoOn DEF Types
<1>8. CASE PeerGone
  BY <1>1, <1>8, TypesGoOn DEF PeerGone, Types
<1>9. CASE Restart
  <2>1. run' \in [Settings -> Values]
    BY <1>9, LoadedTyped DEF Restart, LoadAll, Types
  <2> QED
    BY <1>1, <1>9, <2>1, TypesGoOn DEF Restart, Types
<1> QED
  BY <1>3, <1>4, <1>5, <1>6, <1>7, <1>8, <1>9 DEF Step

LEMMA StillSettled ==
    ASSUME Lasting(job), Settled(job), job \in Scripts, NEW places \in SUBSET DOMAIN job,
           GoOn(handler, job, places)
    PROVE  Lasting(job') /\ Settled(job')
<1>1. job' = job \/ job' = <<>>
  BY GoesOn
<1>2. Settled(<<>>)
  <2>1. <<>> \in Scripts
    BY DEF Scripts
  <2> QED
    BY <2>1, AgreesIdle DEF Settled
<1> QED
  BY <1>1, <1>2 DEF Lasting

\* A write that fails breaks the chain off where NVS and the globals agree, and the handler
\* goes on where they are expected to.
LEMMA LiveBroken ==
    ASSUME Types, LiveInv, job # <<>>, Effect[1] = "save", NextChain,
           watch' = watch, failed' = failed, timer' = timer, nvs' = nvs, run' = run
    PROVE  LiveInv'
<1> DEFINE behind == {i \in Seen(job) : \E j \in at..i : job[j] = End}
<1>1. /\ job \in Scripts /\ at \in DOMAIN job /\ at \in Nat
      /\ behind \in SUBSET DOMAIN job /\ DOMAIN job = 1..Len(job) /\ Len(job) \in Nat
      /\ GoOn(handler, job, behind) /\ Settings' = Settings /\ at \in Cuts(job)
  BY DEF Types, Scripts, Seen, NextChain, Settings, Effect, Cuts
<1>2. CASE failed \/ timer
  BY <1>2 DEF LiveInv
<1>3. CASE Lasting(job) /\ Settled(job) /\ WillAgree
  <2>1. Lasting(job') /\ Settled(job')
    BY <1>1, <1>3, StillSettled
  <2>2. ASSUME NEW k \in LiveKeys \cap Settings
        PROVE  \A q \in Cuts(job') : at' <= q => Agrees(job', at', q, k, nvs[k], run[k])
    <3>1. InForce(k, nvs[k], run[k]) /\ nvs[k] \in Values /\ run[k] \in Values
      <4>1. Agrees(job, at, at, k, nvs[k], run[k])
        BY <1>1, <1>3 DEF WillAgree
      <4> QED
        BY <1>1, <4>1, AgreesHere
    <3>2. CASE job' = <<>>
      <4>1. job' \in Scripts
        BY <3>2 DEF Scripts
      <4> QED
        BY <3>1, <3>2, <4>1, AgreesIdle
    <3>3. CASE job' = job /\ at' \in behind /\ \A i \in behind : at' <= i
      <4>1. PICK e \in at..at' : job[e] = End
        BY <3>3
      <4>2. at' \in Nat /\ e \in Nat /\ e <= at' /\ at <= e /\ e \in Cuts(job)
        BY <1>1, <3>3, <4>1 DEF Cuts
      <4>3. \A i \in DOMAIN job : e <= i /\ i < at' => ~On(job[i], Writes \cup Lives, k)
        <5> SUFFICES ASSUME NEW i \in DOMAIN job, e <= i, i < at', On(job[i], Writes \cup Lives, k)
                     PROVE  FALSE
          OBVIOUS
        <5>1. i \in Seen(job)
          BY DEF On, Seen, Watched, Writes, Lives, Settings
        <5>2. i \in Nat /\ e \in at..i
          BY <1>1, <4>2
        <5>3. i \in behind
          BY <4>1, <5>1, <5>2
        <5> QED
          BY <3>3, <4>2, <5>2, <5>3
      <4>4. ASSUME NEW q \in Cuts(job), at' <= q
            PROVE  Agrees(job, at', q, k, nvs[k], run[k])
        <5>1. q \in Nat /\ e <= q
          BY <1>1, <4>2, <4>4, CutsAreNat
        <5>2. Agrees(job, e, q, k, nvs[k], run[k])
          BY <1>3, <3>1, <4>2, <5>1 DEF Settled
        <5> QED
          BY <1>1, <4>2, <4>3, <5>1, <5>2, AgreesLater
      <4> QED
        BY <3>3, <4>4
    <3> QED
      BY <1>1, <3>2, <3>3, GoesOn
  <2> QED
    BY <1>1, <2>1, <2>2 DEF LiveInv, WillAgree
<1>4. ~Restarting(job, at)
  BY <1>1 DEF Restarting, Effect
<1> QED
  BY <1>2, <1>3, <1>4 DEF LiveInv

LEMMA LiveNext ==
    ASSUME Types, LiveInv, job # <<>>, NextEffect,
           watch' = watch, failed' = failed, timer' = timer, Effect[1] # "arm",
           Effect[1] # "wipe" =>
             \A k \in LiveKeys \cap Settings :
               /\ nvs'[k] = IF On(Effect, Writes, k) THEN Effect[3] ELSE nvs[k]
               /\ run'[k] = IF On(Effect, Lives, k) THEN Effect[3] ELSE run[k]
    PROVE  LiveInv'
<1> DEFINE after == {i \in Seen(job) : i > at}
<1>1. /\ job \in Scripts /\ at \in DOMAIN job /\ at \in Nat /\ at + 1 \in 1..Len(job) + 1
      /\ after \in SUBSET DOMAIN job /\ \A i \in DOMAIN job : i \in Nat
      /\ GoOn(handler, job, after) /\ Settings' = Settings
  BY DEF Types, Scripts, Seen, NextEffect, Settings
<1>2. CASE failed \/ timer
  BY <1>2 DEF LiveInv
<1>3. CASE Restarting(job, at)
  <2>1. PICK j \in DOMAIN job : /\ j >= at /\ job[j][1] = "arm"
                                /\ \A i \in DOMAIN job : at <= i /\ i <= j =>
                                     job[i][1] \notin {"send", "save"}
    BY <1>3 DEF Restarting
  <2>2. j \in after
    BY <1>1, <2>1 DEF Effect, Seen, Watched
  <2>3. job' = job /\ at' \in after /\ at' <= j
    BY <1>1, <2>2, GoesOn
  <2>4. Restarting(job', at')
    BY <1>1, <2>1, <2>2, <2>3 DEF Restarting
  <2> QED
    BY <2>4 DEF LiveInv
<1>4. CASE Lasting(job) /\ Settled(job) /\ WillAgree
  <2>1. Lasting(job') /\ Settled(job')
    BY <1>1, <1>4, StillSettled
  <2>2. ASSUME NEW k \in LiveKeys \cap Settings
        PROVE  \A q \in Cuts(job') : at' <= q => Agrees(job', at', q, k, nvs'[k], run'[k])
    <3>1. ASSUME NEW q \in Cuts(job), at + 1 <= q
          PROVE  Agrees(job, at + 1, q, k, nvs'[k], run'[k])
      <4>1. q \in Nat /\ at < q
        BY <1>1, <3>1, CutsAreNat
      <4>2. Agrees(job, at, q, k, nvs[k], run[k]) /\ Effect[1] # "wipe"
        BY <1>1, <1>4, <4>1 DEF WillAgree, Lasting, Effect
      <4> QED
        BY <1>1, <4>1, <4>2, AgreesNext DEF Effect
    <3>2. \A i \in DOMAIN job : at + 1 <= i /\ On(job[i], Writes \cup Lives, k) => i \in after
      BY <1>1 DEF On, Seen, Watched, Writes, Lives, Settings
    <3>3. \A i \in after : at + 1 <= i
      BY <1>1
    <3> QED
      BY <1>1, <3>1, <3>2, <3>3, AgreesGoOn
  <2> QED
    BY <1>1, <2>1, <2>2 DEF LiveInv, WillAgree
<1> QED
  BY <1>2, <1>3, <1>4 DEF LiveInv

LEMMA LiveStep ==
    ASSUME Types, LiveInv, Step
    PROVE  LiveInv'
<1>1. job # <<>> => at \in DOMAIN job /\ at \in Nat
  BY DEF Types, Scripts, Seen
<1>2. CASE Write
  <2>1. \A k \in LiveKeys \cap Settings :
          /\ nvs'[k] = IF On(Effect, Writes, k) THEN Effect[3] ELSE nvs[k]
          /\ run'[k] = IF On(Effect, Lives, k) THEN Effect[3] ELSE run[k]
    BY <1>2 DEF Write, Types, On, Writes, Lives
  <2> QED
    BY <1>2, <2>1, LiveNext DEF Write
<1>3. CASE WriteFails
  <2>1. CASE Effect[1] = "save"
    BY <1>3, <2>1, LiveBroken DEF WriteFails, Types
  <2>2. CASE Effect[1] # "save"
    BY <1>3, <2>2 DEF WriteFails, LiveInv
  <2> QED
    BY <2>1, <2>2
<1>4. CASE EraseAll
  BY <1>4, LiveNext DEF EraseAll
<1>5. CASE SetLive
  <2>1. \A k \in LiveKeys \cap Settings :
          /\ nvs'[k] = IF On(Effect, Writes, k) THEN Effect[3] ELSE nvs[k]
          /\ run'[k] = IF On(Effect, Lives, k) THEN Effect[3] ELSE run[k]
    BY <1>5 DEF SetLive, Types, On, Writes, Lives
  <2> QED
    BY <1>5, <2>1, LiveNext DEF SetLive
<1>6. CASE Hold \/ Release \/ SendChunk
  <2>1. /\ job # <<>> /\ NextEffect /\ Effect[1] \in {"alloc", "free", "send"}
        /\ watch' = watch /\ failed' = failed /\ timer' = timer /\ nvs' = nvs /\ run' = run
    BY <1>6 DEF Hold, Release, SendChunk
  <2>2. \A k \in LiveKeys \cap Settings : ~On(Effect, Writes, k) /\ ~On(Effect, Lives, k)
    BY <2>1 DEF On, Writes, Lives
  <2> QED
    BY <2>1, <2>2, LiveNext
<1>7. CASE PeerGone
  <2>1. ~Restarting(job, at)
    BY <1>1, <1>7 DEF PeerGone, Effect, Restarting, Types, Scripts
  <2>2. CASE failed \/ timer
    BY <1>7, <2>2 DEF PeerGone, LiveInv
  <2>3. CASE Lasting(job) /\ Settled(job) /\ WillAgree
    <3>1. GoOn(handler, job, {}) /\ job' = <<>> /\ job \in Scripts /\ {} \in SUBSET DOMAIN job
      BY <1>7 DEF PeerGone, GoOn, Types
    <3>2. Settings' = Settings /\ nvs' = nvs /\ run' = run
      BY <1>7 DEF PeerGone, Settings
    <3>3. at \in 1..Len(job) + 1
      BY <1>1, <1>7, <3>1 DEF PeerGone, Scripts
    <3>4. ASSUME NEW k \in LiveKeys \cap Settings
          PROVE  \A q \in Cuts(job') : at' <= q => Agrees(job', at', q, k, nvs[k], run[k])
      <4>1. \A i \in DOMAIN job : at <= i => ~On(job[i], Writes \cup Lives, k)
        BY <1>1, <1>7, <2>3 DEF PeerGone, Lasting, Effect, On, Types, Scripts, Writes, Lives
      <4>2. \A q \in Cuts(job) : at <= q => Agrees(job, at, q, k, nvs[k], run[k])
        BY <2>3 DEF WillAgree
      <4> QED
        BY <4>1, <4>2, <3>1, <3>3, AgreesGoOn
    <3>5. Lasting(job') /\ Settled(job')
      BY <2>3, <3>1, StillSettled
    <3> QED
      BY <3>2, <3>4, <3>5 DEF LiveInv, WillAgree
  <2> QED
    BY <2>1, <2>2, <2>3 DEF LiveInv
<1>8. CASE ArmRestart
  BY <1>8 DEF ArmRestart, LiveInv
<1>9. CASE Restart
  <2>1. job' = <<>> /\ Settings' = Settings /\ nvs' = nvs
    BY <1>9 DEF Restart, GoOn, Settings
  <2>2. <<>> \in Scripts
    BY DEF Scripts
  <2>3. ASSUME NEW k \in LiveKeys \cap Settings, NEW q \in Cuts(job')
        PROVE  Agrees(job', at', q, k, nvs'[k], run'[k])
    <3>1. nvs[k] \in Values /\ run'[k] = Loaded(k, nvs[k]) /\ run'[k] \in Values
      BY <1>9, LoadedTyped DEF Restart, LoadAll, Types
    <3> QED
      BY <2>1, <2>2, <3>1, AgreesIdle DEF InForce
  <2>4. Lasting(job') /\ Settled(job')
    BY <2>1, <2>2, AgreesIdle DEF Lasting, Settled
  <2> QED
    BY <2>1, <2>3, <2>4 DEF LiveInv, WillAgree
<1> QED
  BY <1>2, <1>3, <1>4, <1>5, <1>6, <1>7, <1>8, <1>9 DEF Step

LEMMA EmptyHolds ==
    ASSUME job' = <<>>, held' = {}
    PROVE  HeldInv'
BY DEF HeldInv, Tidy, Guarded

LEMMA HeldGoOn ==
    ASSUME Types, HeldInv, job # <<>>, watch' = watch,
           NEW places \in SUBSET Seen(job), GoOn(handler, job, places), \A i \in places : at < i,
           held' # {} => "heap" \in watch,
           \A b \in held', j \in Leaving(job) : at < j => FreedIn(job, b, at + 1, j),
           \A l \in DOMAIN job : at < l /\ job[l][1] = "free" /\ "heap" \in watch => l \in places
    PROVE  HeldInv'
<1>1. /\ job \in Scripts /\ at \in DOMAIN job /\ DOMAIN job = 1..Len(job) /\ Len(job) \in Nat
      /\ places \in SUBSET DOMAIN job
  BY DEF Types, Scripts, Seen
<1>2. \A j \in Leaving(job) : j \in Nat
  BY <1>1 DEF Leaving
<1>3. CASE places = {} /\ job' = <<>>
  <2>1. ASSUME NEW b \in held'
        PROVE  FALSE
    <3>1. Len(job) + 1 \in Leaving(job) /\ at < Len(job) + 1
      BY <1>1 DEF Leaving
    <3>2. PICK l \in DOMAIN job : at + 1 <= l /\ On(job[l], {"free"}, b)
      BY <2>1, <3>1 DEF FreedIn
    <3> QED
      BY <1>1, <1>3, <2>1, <3>2 DEF On
  <2> QED
    BY <1>3, <2>1, EmptyHolds
<1>4. CASE job' = job /\ at' \in places /\ \A i \in places : at' <= i
  <2>1. ASSUME NEW b \in held', NEW j \in Leaving(job), at' <= j
        PROVE  FreedIn(job, b, at', j)
    <3>1. at < j
      BY <1>1, <1>2, <1>4, <2>1
    <3>2. PICK l \in DOMAIN job : at + 1 <= l /\ l < j /\ On(job[l], {"free"}, b)
      BY <2>1, <3>1 DEF FreedIn
    <3>3. l \in places
      BY <1>1, <2>1, <3>2 DEF On
    <3> QED
      BY <1>4, <3>2, <3>3 DEF FreedIn
  <2>2. job' # <<>> /\ Tidy(job') /\ Guarded(job')
    BY <1>4 DEF HeldInv
  <2> QED
    BY <1>4, <2>1, <2>2 DEF HeldInv
<1> QED
  BY <1>1, <1>3, <1>4, GoesOn

LEMMA HeldStep ==
    ASSUME Types, HeldInv, Step
    PROVE  HeldInv'
<1> DEFINE after == {i \in Seen(job) : i > at}
           behind == {i \in Seen(job) : \E j \in at..i : job[j] = End}
<1>1. ASSUME job # <<>>
      PROVE  /\ job \in Scripts /\ at \in DOMAIN job /\ DOMAIN job = 1..Len(job) /\ Len(job) \in Nat
             /\ at \in Nat /\ Watched(Effect)
             /\ after \in SUBSET Seen(job) /\ behind \in SUBSET Seen(job)
             /\ \A i \in after : at < i
             /\ \A l \in DOMAIN job : at < l /\ job[l][1] = "free" /\ "heap" \in watch => l \in after
             /\ \A j \in Leaving(job) : j \in Nat
  BY <1>1 DEF Types, Scripts, Seen, Effect, Leaving, Watched
<1>2. ASSUME job # <<>>, Effect[1] # "free",
             NEW b \in held, NEW j \in Leaving(job), at < j
      PROVE  FreedIn(job, b, at + 1, j)
  <2>1. PICK l \in DOMAIN job : at <= l /\ l < j /\ On(job[l], {"free"}, b)
    BY <1>1, <1>2 DEF HeldInv, FreedIn
  <2>2. l # at
    BY <1>2, <2>1 DEF Effect, On
  <2> QED
    BY <1>1, <1>2, <2>1, <2>2 DEF FreedIn
<1>3. ASSUME job # <<>>, Effect[1] # "free", NextEffect, watch' = watch, held' = held
      PROVE  HeldInv'
  <2>1. GoOn(handler, job, after)
    BY <1>3 DEF NextEffect
  <2>2. held' # {} => "heap" \in watch
    BY <1>3 DEF HeldInv
  <2>3. \A b \in held', j \in Leaving(job) : at < j => FreedIn(job, b, at + 1, j)
    BY <1>2, <1>3
  <2> QED
    BY <1>1, <1>3, <2>1, <2>2, <2>3, HeldGoOn
<1>4. CASE Write \/ EraseAll \/ SetLive \/ SendChunk \/ ArmRestart
  BY <1>3, <1>4 DEF Write, EraseAll, SetLive, SendChunk, ArmRestart
<1>5. CASE WriteFails
  <2>1. CASE Effect[1] = "save"
    <3>1. job # <<>> /\ GoOn(handler, job, behind) /\ watch' = watch /\ held' = held
      BY <1>5, <2>1 DEF WriteFails, NextChain
    <3>2. \A i \in behind : at < i
      BY <1>1, <2>1, <3>1 DEF Effect, End, Seen
    <3>3. ASSUME NEW l \in DOMAIN job, at < l, job[l][1] = "free", "heap" \in watch
          PROVE  l \in behind
      <4>1. \E e \in at..l : job[e] = End
        BY <1>1, <2>1, <3>1, <3>3 DEF HeldInv, Guarded, Effect
      <4> QED
        BY <3>3, <4>1 DEF Seen, Watched
    <3>4. held' # {} => "heap" \in watch
      BY <3>1 DEF HeldInv
    <3>5. \A b \in held', j \in Leaving(job) : at < j => FreedIn(job, b, at + 1, j)
      BY <1>2, <2>1, <3>1
    <3> QED
      BY <1>1, <3>1, <3>2, <3>3, <3>4, <3>5, HeldGoOn
  <2>2. CASE Effect[1] # "save"
    BY <1>3, <1>5, <2>2 DEF WriteFails
  <2> QED
    BY <2>1, <2>2
<1>6. CASE Hold
  <2>1. /\ job # <<>> /\ Effect[1] = "alloc" /\ held' = held \cup {Effect[2]} /\ watch' = watch
        /\ GoOn(handler, job, after) /\ "heap" \in watch
    BY <1>1, <1>6 DEF Hold, NextEffect, Watched
  <2>2. \A j \in Leaving(job) : at < j => FreedIn(job, Effect[2], at + 1, j)
    BY <1>1, <2>1 DEF HeldInv, Tidy, Effect
  <2>3. \A b \in held', j \in Leaving(job) : at < j => FreedIn(job, b, at + 1, j)
    BY <1>2, <2>1, <2>2
  <2> QED
    BY <1>1, <2>1, <2>3, HeldGoOn
<1>7. CASE Release
  <2>1. /\ job # <<>> /\ Effect[1] = "free" /\ held' = held \ {Effect[2]} /\ watch' = watch
        /\ GoOn(handler, job, after) /\ "heap" \in watch
    BY <1>1, <1>7 DEF Release, NextEffect, Watched
  <2>2. ASSUME NEW b \in held', NEW j \in Leaving(job), at < j
        PROVE  FreedIn(job, b, at + 1, j)
    <3>1. PICK l \in DOMAIN job : at <= l /\ l < j /\ On(job[l], {"free"}, b)
      BY <1>1, <2>1, <2>2 DEF HeldInv, FreedIn
    <3>2. l # at
      BY <2>1, <2>2, <3>1 DEF Effect, On
    <3> QED
      BY <1>1, <2>1, <3>1, <3>2 DEF FreedIn
  <2> QED
    BY <1>1, <2>1, <2>2, HeldGoOn
<1>8. CASE PeerGone
  <2>1. job # <<>> /\ Effect[1] = "send" /\ held' = held /\ job' = <<>>
    BY <1>8 DEF PeerGone, GoOn
  <2>2. at \in Leaving(job) /\ at \in Nat
    BY <1>1, <2>1 DEF Leaving, Effect
  <2>3. held = {}
    BY <1>1, <2>2 DEF HeldInv, FreedIn
  <2> QED
    BY <2>1, <2>3, EmptyHolds
<1>9. CASE Restart
  BY <1>9, EmptyHolds DEF Restart, GoOn
<1> QED
  BY <1>4, <1>5, <1>6, <1>7, <1>8, <1>9 DEF Step

-----------------------------------------------------------------------------
(* The scripts                                                             *)

\* What a script must be for its handler to keep the invariants
Sound(s) ==
    /\ s \in Scripts /\ Tidy(s) /\ Guarded(s)
    /\ Restarting(s, 1) \/ (Lasting(s) /\ Settled(s))

LEMMA BeginInv ==
    ASSUME IInv, NEW name, NEW s, Sound(s), Begin(name, s)
    PROVE  IInv'
<1>1. /\ job = <<>> /\ s \in Scripts /\ GoOn(name, s, Seen(s)) /\ Seen(s) \in SUBSET DOMAIN s
      /\ \A i \in DOMAIN s : i \in Nat /\ 1 <= i
      /\ watch' = watch /\ nvs' = nvs /\ run' = run /\ timer' = timer /\ failed' = failed
      /\ held' = held /\ Settings' = Settings
  BY DEF Begin, Sound, Scripts, Seen, Settings
<1>2. Types'
  <2>1. Types /\ Seen(s) \in SUBSET Seen(s)
    BY DEF IInv
  <2> QED
    BY <1>1, <2>1, TypesGoOn DEF Types
<1>3. \/ job' = <<>> /\ Seen(s) = {}
      \/ job' = s /\ at' \in Seen(s) /\ \A i \in Seen(s) : at' <= i
  BY <1>1, GoesOn
<1>4. HeldInv'
  <2>1. held = {}
    BY <1>1 DEF IInv, HeldInv
  <2>2. CASE job' = <<>>
    BY <1>1, <2>1, <2>2, EmptyHolds
  <2>3. CASE job' = s
    BY <1>1, <2>1, <2>3 DEF HeldInv, Sound
  <2> QED
    BY <1>3, <2>2, <2>3
<1>5. LiveInv'
  <2>1. CASE failed \/ timer
    BY <1>1, <2>1 DEF LiveInv
  <2>2. CASE Restarting(s, 1)
    <3>1. PICK j \in DOMAIN s : /\ s[j][1] = "arm"
                                /\ \A i \in DOMAIN s : 1 <= i /\ i <= j => s[i][1] \notin {"send", "save"}
      BY <2>2 DEF Restarting
    <3>2. j \in Seen(s)
      BY <3>1 DEF Seen, Watched
    <3>3. Restarting(job', at')
      BY <1>1, <1>3, <3>1, <3>2 DEF Restarting
    <3> QED
      BY <3>3 DEF LiveInv
  <2>3. CASE ~failed /\ ~timer /\ Lasting(s) /\ Settled(s)
    <3>1. Lasting(job') /\ Settled(job')
      <4>1. Settled(<<>>)
        <5>1. <<>> \in Scripts
          BY DEF Scripts
        <5> QED
          BY <5>1, AgreesIdle DEF Settled
      <4> QED
        BY <1>3, <2>3, <4>1 DEF Lasting
    <3>2. WillAgree
      BY <1>1, <2>3 DEF IInv, LiveInv, Restarting
    <3>3. ASSUME NEW k \in LiveKeys \cap Settings
          PROVE  \A q \in Cuts(job') : at' <= q => Agrees(job', at', q, k, nvs[k], run[k])
      <4>1. InForce(k, nvs[k], run[k])
        <5>1. job \in Scripts /\ at = 0 /\ 1 \in Cuts(job)
          BY <1>1 DEF IInv, Types, Cuts
        <5>2. Agrees(job, 0, 1, k, nvs[k], run[k])
          BY <3>2, <5>1 DEF WillAgree
        <5> QED
          BY <1>1, <5>2 DEF Agrees, Leaves
      <4>2. nvs[k] \in Values /\ run[k] \in Values
        BY DEF IInv, Types
      <4>3. \A q \in Cuts(s) : 1 <= q => Agrees(s, 1, q, k, nvs[k], run[k])
        BY <1>1, <2>3, <4>1, <4>2, CutsAreNat DEF Settled
      <4>4. /\ \A i \in DOMAIN s : 1 <= i /\ On(s[i], Writes \cup Lives, k) => i \in Seen(s)
            /\ \A i \in Seen(s) : 1 <= i
        BY <1>1 DEF On, Seen, Watched, Writes, Lives, Settings
      <4>5. 1 \in 1..Len(s) + 1
        BY <1>1, CutsAreNat
      <4> QED
        BY <1>1, <4>3, <4>4, <4>5, AgreesGoOn
    <3> QED
      BY <1>1, <3>1, <3>3 DEF LiveInv, WillAgree
  <2> QED
    BY <2>1, <2>2, <2>3 DEF Sound
<1> QED
  BY <1>2, <1>4, <1>5 DEF IInv

\* A script that leaves settings and globals in agreement, wherever a write fails
Keeps(s) == s \in Scripts /\ Settled(s) /\ \A i \in DOMAIN s : s[i][1] # "wipe"

Heapless(s) == \A i \in DOMAIN s : s[i][1] \notin {"alloc", "free", "send"}

\* Each checked write has its End.
Closed(s) == \A i \in DOMAIN s : s[i][1] = "save" => \E e \in i..Len(s) : s[e] = End

Form(s) == Keeps(s) /\ Heapless(s) /\ Closed(s)

\* Sends nothing, and releases what it takes
Safe(s) ==
    /\ \A i \in DOMAIN s : s[i][1] # "send"
    /\ Tidy(s) /\ Guarded(s) /\ Closed(s)

Page(s) ==
    /\ s \in Scripts /\ Tidy(s)
    /\ \A i \in DOMAIN s : s[i][1] \in {"alloc", "free", "send"}

\* Where the effects of s and t are in s \o t
Placed(s, t) ==
    /\ s \o t \in Scripts
    /\ DOMAIN s = 1..Len(s) /\ DOMAIN t = 1..Len(t) /\ DOMAIN (s \o t) = 1..(Len(s) + Len(t))
    /\ Len(s) \in Nat /\ Len(t) \in Nat /\ Len(s \o t) = Len(s) + Len(t)
    /\ \A i \in DOMAIN s : i \in DOMAIN (s \o t) /\ (s \o t)[i] = s[i]
    /\ \A i \in DOMAIN t : Len(s) + i \in DOMAIN (s \o t) /\ (s \o t)[Len(s) + i] = t[i]
    /\ \A i \in DOMAIN (s \o t) :
         \/ i \in DOMAIN s /\ (s \o t)[i] = s[i]
         \/ i > Len(s) /\ i - Len(s) \in DOMAIN t /\ (s \o t)[i] = t[i - Len(s)]

LEMMA Joined ==
    ASSUME NEW s \in Scripts, NEW t \in Scripts
    PROVE  Placed(s, t)
BY DEF Scripts, Placed

\* What a script does, it does in front of another one and behind it.
LEMMA LeavesPlaced ==
    ASSUME NEW s \in Scripts, NEW t \in Scripts, NEW p \in Nat, NEW q \in Nat,
           NEW kinds, NEW k, NEW c, NEW v
    PROVE  /\ q <= Len(s) + 1 /\ Leaves(s, p, q, kinds, k, c, v)
              => Leaves(s \o t, p, q, kinds, k, c, v)
           /\ p > Len(s) /\ q > Len(s) /\ Leaves(t, p - Len(s), q - Len(s), kinds, k, c, v)
              => Leaves(s \o t, p, q, kinds, k, c, v)
<1> DEFINE u == s \o t
           n == Len(s)
<1>1. Placed(s, t)
  BY Joined
<1>2. ASSUME q <= n + 1, Leaves(s, p, q, kinds, k, c, v)
      PROVE  Leaves(u, p, q, kinds, k, c, v)
  <2>1. \A i \in DOMAIN u : i < q => i \in DOMAIN s /\ u[i] = s[i]
    BY <1>1, <1>2 DEF Placed
  <2>2. \A i \in DOMAIN s : i \in DOMAIN u /\ u[i] = s[i]
    BY <1>1 DEF Placed
  <2> HIDE DEF u
  <2> QED
    BY <1>2, <2>1, <2>2 DEF Leaves
<1>3. ASSUME p > n, q > n, Leaves(t, p - n, q - n, kinds, k, c, v)
      PROVE  Leaves(u, p, q, kinds, k, c, v)
  <2>1. \A i \in DOMAIN u : p <= i => i \in Nat /\ i - n \in DOMAIN t /\ u[i] = t[i - n]
    BY <1>1, <1>3 DEF Placed
  <2>2. \A i \in DOMAIN t : i \in Nat /\ n + i \in DOMAIN u /\ u[n + i] = t[i]
    BY <1>1 DEF Placed
  <2>3. n \in Nat /\ \A i \in DOMAIN u : i \in Nat
    BY <1>1 DEF Placed
  <2> HIDE DEF u, n
  <2>4. CASE \E i \in DOMAIN t : /\ p - n <= i /\ i < q - n /\ On(t[i], kinds, k) /\ t[i][3] = v
                                /\ \A j \in DOMAIN t : i < j /\ j < q - n => ~On(t[j], kinds, k)
    <3>1. PICK i \in DOMAIN t : /\ p - n <= i /\ i < q - n /\ On(t[i], kinds, k) /\ t[i][3] = v
                               /\ \A j \in DOMAIN t : i < j /\ j < q - n => ~On(t[j], kinds, k)
      BY <2>4
    <3>2. /\ n + i \in DOMAIN u /\ p <= n + i /\ n + i < q /\ On(u[n + i], kinds, k) /\ u[n + i][3] = v
      BY <2>2, <2>3, <3>1
    <3>3. ASSUME NEW j \in DOMAIN u, n + i < j, j < q
          PROVE  ~On(u[j], kinds, k)
      <4>1. p <= j /\ i \in Nat
        BY <2>2, <2>3, <3>1, <3>3
      <4>2. j - n \in DOMAIN t /\ u[j] = t[j - n] /\ i < j - n /\ j - n < q - n
        BY <2>1, <2>3, <3>3, <4>1
      <4> QED
        BY <3>1, <4>2
    <3> QED
      BY <3>2, <3>3 DEF Leaves
  <2>5. CASE v = c /\ \A i \in DOMAIN t : p - n <= i /\ i < q - n => ~On(t[i], kinds, k)
    <3>1. ASSUME NEW i \in DOMAIN u, p <= i, i < q
          PROVE  ~On(u[i], kinds, k)
      <4>1. i - n \in DOMAIN t /\ u[i] = t[i - n] /\ p - n <= i - n /\ i - n < q - n
        BY <2>1, <2>3, <3>1
      <4> QED
        BY <2>5, <4>1
    <3> QED
      BY <2>5, <3>1 DEF Leaves
  <2> QED
    BY <1>3, <2>4, <2>5 DEF Leaves
<1> QED
  BY <1>2, <1>3

LEMMA SettledConcat ==
    ASSUME NEW s \in Scripts, NEW t \in Scripts, Settled(s), Settled(t)
    PROVE  Settled(s \o t)
<1> DEFINE u == s \o t
           n == Len(s)
<1>1. Placed(s, t) /\ n \in Nat /\ u \in Scripts /\ Len(t) \in Nat
  BY Joined DEF Placed
<1>2. \A q \in Cuts(u) : q \in Nat /\ (q <= n => q \in Cuts(s)) /\ (q > n => q - n \in Cuts(t))
  <2> SUFFICES ASSUME NEW q \in Cuts(u)
               PROVE  q \in Nat /\ (q <= n => q \in Cuts(s)) /\ (q > n => q - n \in Cuts(t))
    OBVIOUS
  <2>1. q \in Nat
    BY <1>1, CutsAreNat
  <2>2. CASE q = 1
    BY <1>1, <2>2 DEF Cuts
  <2>3. CASE q = Len(u) + 1
    BY <1>1, <2>3 DEF Cuts, Placed
  <2>4. CASE q \in DOMAIN u /\ (u[q][1] = "save" \/ u[q] = End)
    <3>1. CASE q \in DOMAIN s /\ u[q] = s[q]
      BY <1>1, <2>4, <3>1 DEF Cuts, Placed
    <3>2. CASE q > n /\ q - n \in DOMAIN t /\ u[q] = t[q - n]
      BY <1>1, <2>1, <2>4, <3>2 DEF Cuts
    <3> QED
      BY <1>1, <2>4, <3>1, <3>2 DEF Placed
  <2> QED
    BY <2>1, <2>2, <2>3, <2>4 DEF Cuts
<1>3. ASSUME NEW k \in LiveKeys, NEW p \in Nat, NEW q \in Nat, p <= q,
             NEW c \in Values, NEW d \in Values, InForce(k, c, d)
      PROVE  /\ p \in Cuts(s) /\ q \in Cuts(s) => Agrees(u, p, q, k, c, d)
             /\ p > n /\ p - n \in Cuts(t) /\ q - n \in Cuts(t) => Agrees(u, p, q, k, c, d)
  <2>1. CASE p \in Cuts(s) /\ q \in Cuts(s)
    <3>1. q <= n + 1
      BY <2>1, CutsAreNat
    <3>2. PICK v, w \in Values :
            Leaves(s, p, q, Writes, k, c, v) /\ Leaves(s, p, q, Lives, k, d, w) /\ InForce(k, v, w)
      BY <1>3, <2>1 DEF Settled, Agrees
    <3>3. Leaves(u, p, q, Writes, k, c, v) /\ Leaves(u, p, q, Lives, k, d, w)
      BY <3>1, <3>2, LeavesPlaced
    <3> QED
      BY <3>2, <3>3 DEF Agrees
  <2>2. CASE p > n /\ p - n \in Cuts(t) /\ q - n \in Cuts(t)
    <3>1. p - n <= q - n /\ q > n
      BY <1>1, <1>3, <2>2
    <3>2. PICK v, w \in Values : /\ Leaves(t, p - n, q - n, Writes, k, c, v)
                                /\ Leaves(t, p - n, q - n, Lives, k, d, w) /\ InForce(k, v, w)
      BY <1>3, <2>2, <3>1 DEF Settled, Agrees
    <3>3. Leaves(u, p, q, Writes, k, c, v) /\ Leaves(u, p, q, Lives, k, d, w)
      BY <2>2, <3>1, <3>2, LeavesPlaced
    <3> QED
      BY <3>2, <3>3 DEF Agrees
  <2> QED
    BY <2>1, <2>2
<1>4. ASSUME NEW k \in LiveKeys, NEW p \in Cuts(u), NEW q \in Cuts(u), p <= q,
             NEW c \in Values, NEW d \in Values, InForce(k, c, d)
      PROVE  Agrees(u, p, q, k, c, d)
  <2>0. p \in Nat /\ q \in Nat /\ n + 1 \in Nat /\ n + 1 \in Cuts(s) /\ (n + 1) - n \in Cuts(t)
    BY <1>1, <1>2, CutsAreNat
  <2>1. CASE q <= n
    BY <1>1, <1>2, <1>3, <1>4, <2>0, <2>1
  <2>2. CASE p > n
    BY <1>1, <1>2, <1>3, <1>4, <2>0, <2>2
  <2>3. CASE p <= n /\ q > n
    <3>1. p <= n + 1 /\ n + 1 <= q /\ n + 1 > n /\ p \in Cuts(s) /\ q - n \in Cuts(t)
      BY <1>1, <1>2, <2>0, <2>3
    <3>2. \A x, y \in Values : InForce(k, x, y) => Agrees(u, p, n + 1, k, x, y)
      BY <1>3, <2>0, <3>1
    <3>3. \A x, y \in Values : InForce(k, x, y) => Agrees(u, n + 1, q, k, x, y)
      BY <1>3, <2>0, <3>1
    <3> QED
      BY <1>1, <1>4, <2>0, <3>1, <3>2, <3>3, AgreesThrough
  <2> QED
    BY <1>1, <2>0, <2>1, <2>2, <2>3
<1> QED
  BY <1>4 DEF Settled

LEMMA KeepsConcat ==
    ASSUME NEW s, NEW t, Keeps(s), Keeps(t)
    PROVE  Keeps(s \o t)
<1>1. s \in Scripts /\ t \in Scripts
  BY DEF Keeps
<1>2. Placed(s, t)
  BY <1>1, Joined
<1>3. Settled(s \o t)
  BY <1>1, SettledConcat DEF Keeps
<1>4. \A i \in DOMAIN (s \o t) : (s \o t)[i][1] # "wipe"
  BY <1>2 DEF Keeps, Placed
<1> QED
  BY <1>2, <1>3, <1>4 DEF Keeps, Placed

LEMMA FormConcat ==
    ASSUME NEW s, NEW t, Form(s), Form(t)
    PROVE  Form(s \o t)
<1>1. s \in Scripts /\ t \in Scripts
  BY DEF Form, Keeps
<1>0. Placed(s, t)
  BY <1>1, Joined
<1>2. Heapless(s \o t)
  BY <1>0 DEF Form, Heapless, Placed
<1>3. Closed(s \o t)
  <2>1. ASSUME NEW i \in DOMAIN (s \o t), (s \o t)[i][1] = "save"
        PROVE  \E e \in i..Len(s \o t) : (s \o t)[e] = End
    <3>1. CASE i \in DOMAIN s /\ (s \o t)[i] = s[i]
      <4>1. PICK e \in i..Len(s) : s[e] = End
        BY <2>1, <3>1 DEF Form, Closed
      <4> QED
        BY <1>0, <3>1, <4>1 DEF Placed
    <3>2. CASE i > Len(s) /\ i - Len(s) \in DOMAIN t /\ (s \o t)[i] = t[i - Len(s)]
      <4>1. PICK e \in i - Len(s)..Len(t) : t[e] = End
        BY <2>1, <3>2 DEF Form, Closed
      <4>2. e \in DOMAIN t /\ Len(s) + e \in i..Len(s \o t)
        BY <1>0, <3>2, <4>1 DEF Placed
      <4> QED
        BY <1>0, <4>1, <4>2 DEF Placed
    <3> QED
      BY <1>0, <3>1, <3>2 DEF Placed
  <2> QED
    BY <2>1 DEF Closed
<1> QED
  BY <1>2, <1>3, KeepsConcat DEF Form

LEMMA TidyConcat ==
    ASSUME NEW s \in Scripts, NEW t \in Scripts, Tidy(s), Tidy(t)
    PROVE  Tidy(s \o t)
<1> DEFINE u == s \o t
<1>1. Placed(s, t)
  BY Joined
<1>2. ASSUME NEW i \in DOMAIN u, NEW j \in Leaving(u), u[i][1] = "alloc", i < j
      PROVE  FreedIn(u, u[i][2], i + 1, j)
  <2>1. j \in Nat /\ j <= Len(s) + Len(t) + 1
    BY <1>1 DEF Leaving, Placed
  <2>2. CASE i \in DOMAIN s /\ u[i] = s[i]
    <3>1. PICK h \in Leaving(s) : i < h /\ h <= j
      <4>1. CASE j \in DOMAIN s
        BY <1>1, <1>2, <2>2, <4>1 DEF Leaving, Placed
      <4>2. CASE j \notin DOMAIN s
        <5>1. Len(s) + 1 <= j
          BY <1>1, <1>2, <2>1, <2>2, <4>2 DEF Placed
        <5> QED
          BY <1>1, <2>2, <5>1 DEF Leaving, Placed
      <4> QED
        BY <4>1, <4>2
    <3>2. PICK l \in DOMAIN s : i + 1 <= l /\ l < h /\ On(s[l], {"free"}, s[i][2])
      BY <1>2, <2>2, <3>1 DEF Tidy, FreedIn
    <3>3. l \in DOMAIN u /\ u[l] = s[l] /\ l < j
      BY <1>1, <2>1, <3>1, <3>2 DEF Placed, Leaving
    <3> QED
      BY <2>2, <3>2, <3>3 DEF FreedIn
  <2>3. CASE i > Len(s) /\ i - Len(s) \in DOMAIN t /\ u[i] = t[i - Len(s)]
    <3>1. j - Len(s) \in Leaving(t) /\ i - Len(s) < j - Len(s)
      BY <1>1, <1>2, <2>1, <2>3 DEF Leaving, Placed
    <3>2. PICK l \in DOMAIN t : /\ i - Len(s) + 1 <= l /\ l < j - Len(s)
                                /\ On(t[l], {"free"}, t[i - Len(s)][2])
      BY <1>2, <2>3, <3>1 DEF Tidy, FreedIn
    <3>3. Len(s) + l \in DOMAIN u /\ u[Len(s) + l] = t[l] /\ i + 1 <= Len(s) + l /\ Len(s) + l < j
      BY <1>1, <2>1, <2>3, <3>2 DEF Placed
    <3> QED
      BY <2>3, <3>2, <3>3 DEF FreedIn
  <2> QED
    BY <1>1, <2>2, <2>3 DEF Placed
<1> QED
  BY <1>2 DEF Tidy

LEMMA GuardedConcat ==
    ASSUME NEW s \in Scripts, NEW t \in Scripts, Guarded(s), Guarded(t), Closed(s)
    PROVE  Guarded(s \o t)
<1> DEFINE u == s \o t
<1>1. Placed(s, t)
  BY Joined
<1>2. ASSUME NEW i \in DOMAIN u, NEW l \in DOMAIN u, u[i][1] = "save", i < l, u[l][1] = "free"
      PROVE  \E e \in i..l : u[e] = End
  <2>1. CASE i \in DOMAIN s /\ u[i] = s[i] /\ l \in DOMAIN s /\ u[l] = s[l]
    <3>1. PICK e \in i..l : s[e] = End
      BY <1>2, <2>1 DEF Guarded
    <3> QED
      BY <1>1, <2>1, <3>1 DEF Placed
  <2>2. CASE i \in DOMAIN s /\ u[i] = s[i] /\ l > Len(s)
    <3>1. PICK e \in i..Len(s) : s[e] = End
      BY <1>2, <2>2 DEF Closed
    <3> QED
      BY <1>1, <2>2, <3>1 DEF Placed
  <2>3. CASE /\ i > Len(s) /\ i - Len(s) \in DOMAIN t /\ u[i] = t[i - Len(s)]
             /\ l - Len(s) \in DOMAIN t /\ u[l] = t[l - Len(s)]
    <3>1. i - Len(s) < l - Len(s)
      BY <1>1, <1>2 DEF Placed
    <3>2. PICK e \in i - Len(s)..l - Len(s) : t[e] = End
      BY <1>2, <2>3, <3>1 DEF Guarded
    <3>3. e \in DOMAIN t /\ Len(s) + e \in i..l
      BY <1>1, <2>3, <3>2 DEF Placed
    <3> QED
      BY <1>1, <3>2, <3>3 DEF Placed
  <2> QED
    BY <1>1, <1>2, <2>1, <2>2, <2>3 DEF Placed
<1> QED
  BY <1>2 DEF Guarded

LEMMA SafeIsSound ==
    ASSUME NEW s, Keeps(s), Safe(s)
    PROVE  Sound(s)
BY DEF Sound, Keeps, Safe, Lasting

\* Nothing is saved with a result that is looked at, and then the router restarts.
LEMMA RestartIsSound ==
    ASSUME NEW s \in Scripts, Safe(s), \A i \in DOMAIN s : s[i][1] # "save",
           \E i \in DOMAIN s : s[i][1] = "arm"
    PROVE  Sound(s)
BY DEF Sound, Safe, Restarting, Scripts

\* A script that watches nothing of what is in force
LEMMA NeutralKeeps ==
    ASSUME NEW s \in Scripts,
           \A i \in DOMAIN s : /\ s[i][1] # "wipe"
                               /\ s[i][1] \in Writes \cup Lives => s[i][2] \notin LiveKeys
    PROVE  Keeps(s)
<1>1. \A k \in LiveKeys, i \in DOMAIN s : ~On(s[i], Writes \cup Lives, k)
  BY DEF On
<1> QED
  BY <1>1, AgreesIdle DEF Keeps, Settled

\* Then the answer is sent.
LEMMA PageIsSound ==
    ASSUME NEW s, NEW t, Keeps(s), Safe(s), Page(t)
    PROVE  Sound(s \o t)
<1>1. s \in Scripts /\ t \in Scripts
  BY DEF Keeps, Page
<1>2. Placed(s, t)
  BY <1>1, Joined
<1>3. Tidy(s \o t)
  BY <1>1, TidyConcat DEF Safe, Page
<1>4. Guarded(s \o t)
  <2>1. Guarded(t)
    BY DEF Guarded, Page
  <2> QED
    BY <1>1, <2>1, GuardedConcat DEF Safe
<1>5. Lasting(s \o t)
  <2>1. \A i \in DOMAIN (s \o t) :
          IF i <= Len(s) THEN (s \o t)[i][1] \notin {"wipe", "send"}
          ELSE (s \o t)[i][1] \in {"alloc", "free", "send"}
    BY <1>2 DEF Keeps, Placed, Safe, Page
  <2>2. \A i \in DOMAIN (s \o t) : i \in Nat
    BY <1>2 DEF Placed
  <2> QED
    BY <1>2, <2>1, <2>2 DEF Lasting, Writes, Lives, Placed
<1>6. Settled(s \o t)
  <2>1. Keeps(t)
    BY <1>1, NeutralKeeps DEF Page, Writes, Lives
  <2> QED
    BY <1>1, <2>1, SettledConcat DEF Keeps
<1> QED
  BY <1>2, <1>3, <1>4, <1>5, <1>6 DEF Sound, Placed

-----------------------------------------------------------------------------
(* The pieces that scripts are made of                                     *)

\* A setting that the pieces below may store and bring into force
Sets(k, v) == k \in Names /\ v \in Values /\ (k \in LiveKeys => InForce(k, v, v))

LEMMA OneEffect ==
    ASSUME NEW k \in Names, NEW v \in Values
    PROVE  /\ NvsSet(k, v) \in Effects /\ Put(k, v) \in Effects /\ Live(k, v) \in Effects
           /\ Alloc(k) \in Effects /\ Drop(k) \in Effects
           /\ End \in Effects /\ Arm \in Effects /\ Send \in Effects /\ Wipe \in Effects /\ Skip \in Effects
<1>1. "*" \in Names /\ 0 \in Values
  BY DEF Names, Values, Bad
<1> QED
  BY <1>1 DEF Effects, Kinds, NvsSet, Put, Live, Alloc, Drop, End, Arm, Send, Wipe, Skip

LEMMA PairsKeep ==
    ASSUME NEW k, NEW v, Sets(k, v)
    PROVE  Keeps(SaveThenLive(k, v)) /\ Keeps(PutAndLive(k, v)) /\ Keeps(LiveAndPut(k, v))
<1> DEFINE a == SaveThenLive(k, v)
           b == PutAndLive(k, v)
           c == LiveAndPut(k, v)
<1>1. a \in Scripts /\ b \in Scripts /\ c \in Scripts
  <2>1. {NvsSet(k, v), Put(k, v), Live(k, v), End} \subseteq Effects
    BY OneEffect DEF Sets
  <2> QED
    BY <2>1 DEF SaveThenLive, PutAndLive, LiveAndPut, Scripts
<1>2. /\ Cuts(a) = {1, 3, 4} /\ Cuts(b) = {1, 3} /\ Cuts(c) = {1, 3}
  BY DEF Cuts, SaveThenLive, PutAndLive, LiveAndPut, NvsSet, Put, Live, End
<1>3. /\ DOMAIN a = {1, 2, 3} /\ DOMAIN b = {1, 2} /\ DOMAIN c = {1, 2}
      /\ \A i \in DOMAIN a : a[i] = IF i = 1 THEN <<"save", k, v>> ELSE IF i = 2 THEN <<"live", k, v>> ELSE End
      /\ \A i \in DOMAIN b : b[i] = IF i = 1 THEN <<"put", k, v>> ELSE <<"live", k, v>>
      /\ \A i \in DOMAIN c : c[i] = IF i = 1 THEN <<"live", k, v>> ELSE <<"put", k, v>>
  BY DEF SaveThenLive, PutAndLive, LiveAndPut, NvsSet, Put, Live
<1> HIDE DEF a, b, c
<1>4. ASSUME NEW l \in LiveKeys, NEW p \in {1, 3, 4}, NEW q \in {1, 3, 4}, p <= q,
             NEW old \in Values, NEW glob \in Values, InForce(l, old, glob)
      PROVE  /\ Agrees(a, p, q, l, old, glob)
             /\ Agrees(b, p, q, l, old, glob) /\ Agrees(c, p, q, l, old, glob)
  <2>1. CASE l = k /\ p = 1 /\ q # 1
    <3>1. v \in Values /\ InForce(l, v, v)
      BY <2>1 DEF Sets
    <3>2. Leaves(a, p, q, Writes, l, old, v) /\ Leaves(a, p, q, Lives, l, glob, v)
      BY <1>3, <2>1 DEF Leaves, On, Writes, Lives, End
    <3>3. Leaves(b, p, q, Writes, l, old, v) /\ Leaves(b, p, q, Lives, l, glob, v)
      BY <1>3, <2>1 DEF Leaves, On, Writes, Lives
    <3>4. Leaves(c, p, q, Writes, l, old, v) /\ Leaves(c, p, q, Lives, l, glob, v)
      BY <1>3, <2>1 DEF Leaves, On, Writes, Lives
    <3> QED
      BY <3>1, <3>2, <3>3, <3>4 DEF Agrees
  <2>2. CASE l # k \/ p # 1 \/ q = 1
    <3>1. \A i \in DOMAIN a : p <= i /\ i < q => ~On(a[i], Writes \cup Lives, l)
      BY <1>3, <1>4, <2>2 DEF On, Writes, Lives, End
    <3>2. \A i \in DOMAIN b : p <= i /\ i < q => ~On(b[i], Writes \cup Lives, l)
      BY <1>3, <1>4, <2>2 DEF On, Writes, Lives
    <3>3. \A i \in DOMAIN c : p <= i /\ i < q => ~On(c[i], Writes \cup Lives, l)
      BY <1>3, <1>4, <2>2 DEF On, Writes, Lives
    <3> QED
      BY <1>1, <1>4, <3>1, <3>2, <3>3, AgreesIdle
  <2> QED
    BY <2>1, <2>2
<1>5. /\ \A i \in DOMAIN a : a[i][1] # "wipe"
      /\ \A i \in DOMAIN b : b[i][1] # "wipe"
      /\ \A i \in DOMAIN c : c[i][1] # "wipe"
  BY <1>3 DEF End
<1> QED
  BY <1>1, <1>2, <1>4, <1>5 DEF Keeps, Settled, a, b, c

LEMMA PairsAreForms ==
    ASSUME NEW k, NEW v, Sets(k, v)
    PROVE  Form(SaveThenLive(k, v)) /\ Form(PutAndLive(k, v)) /\ Form(LiveAndPut(k, v))
<1>1. Heapless(SaveThenLive(k, v)) /\ Heapless(PutAndLive(k, v)) /\ Heapless(LiveAndPut(k, v))
  BY DEF Heapless, SaveThenLive, PutAndLive, LiveAndPut, NvsSet, Put, Live, End
<1>2. Closed(SaveThenLive(k, v))
  BY DEF Closed, SaveThenLive, NvsSet, Put, Live, End
<1>3. Closed(PutAndLive(k, v)) /\ Closed(LiveAndPut(k, v))
  BY DEF Closed, PutAndLive, LiveAndPut, NvsSet, Put, Live, End
<1> QED
  BY <1>1, <1>2, <1>3, PairsKeep DEF Form

\* A setting that takes effect at the next start
Rests(k, v) == k \in Names \ LiveKeys /\ v \in Values

LEMMA ChainIsForm ==
    ASSUME NEW s, Keeps(s), Heapless(s)
    PROVE  Form(Chain(s))
<1>1. s \in Scripts /\ <<End>> \in Scripts
  <2>1. "*" \in Names /\ 0 \in Values
    BY DEF Names, Values, Bad
  <2>2. End \in Effects
    BY <2>1, OneEffect
  <2> QED
    BY <2>2 DEF Keeps, Scripts
<1>2. Chain(s) = s \o <<End>>
  BY <1>1 DEF Chain, Scripts
<1>3. Placed(s, <<End>>)
  BY <1>1, Joined
<1>4. Keeps(<<End>>)
  BY <1>1, NeutralKeeps DEF End, Writes, Lives
<1>5. Keeps(Chain(s))
  BY <1>2, <1>4, KeepsConcat
<1>6. Heapless(Chain(s))
  BY <1>2, <1>3 DEF Placed, Heapless, End
<1>7. Closed(Chain(s))
  <2>1. Len(s) + 1 = Len(s \o <<End>>) /\ (s \o <<End>>)[Len(s) + 1] = End
    BY <1>3 DEF Placed
  <2> QED
    BY <1>2, <1>3, <2>1 DEF Placed, Closed
<1> QED
  BY <1>5, <1>6, <1>7 DEF Form

LEMMA FormIsSafe ==
    ASSUME NEW s, Form(s)
    PROVE  Keeps(s) /\ Safe(s) /\ Sound(s)
<1>1. Keeps(s) /\ Safe(s)
  BY DEF Form, Heapless, Safe, Tidy, Guarded
<1> QED
  BY <1>1, SafeIsSound

LEMMA EmptyForm == Form(None)
<1>1. None \in Scripts
  BY DEF None, Scripts
<1>2. Keeps(None)
  BY <1>1, NeutralKeeps DEF None
<1> QED
  BY <1>2 DEF Form, Heapless, Closed, None

LEMMA WhenForm ==
    ASSUME NEW c, NEW s, c => Form(s)
    PROVE  Form(When(c, s))
BY EmptyForm DEF When

LEMMA ArmForm == Form(Do(Arm))
<1>1. Do(Arm) \in Scripts
  <2>1. "*" \in Names /\ 0 \in Values
    BY DEF Names, Values, Bad
  <2>2. Arm \in Effects
    BY <2>1, OneEffect
  <2> QED
    BY <2>2 DEF Do, Scripts
<1>2. Keeps(Do(Arm))
  BY <1>1, NeutralKeeps DEF Do, Arm, Writes, Lives
<1> QED
  BY <1>2 DEF Form, Heapless, Closed, Do, Arm

LEMMA RestingForms ==
    ASSUME NEW k, NEW v, Rests(k, v)
    PROVE  /\ Form(PutOnly(k, v)) /\ Form(SaveOnly(k, v)) /\ Form(Do(Live(k, v)))
           /\ Keeps(<<NvsSet(k, v)>>) /\ Heapless(<<NvsSet(k, v)>>)
<1>1. {NvsSet(k, v), Put(k, v), Live(k, v), End} \subseteq Effects
  BY OneEffect DEF Rests
<1>2. /\ PutOnly(k, v) \in Scripts /\ SaveOnly(k, v) \in Scripts /\ Do(Live(k, v)) \in Scripts
      /\ <<NvsSet(k, v)>> \in Scripts
  BY <1>1 DEF PutOnly, SaveOnly, Do, Scripts
<1>3. /\ \A i \in DOMAIN PutOnly(k, v) : PutOnly(k, v)[i] = Put(k, v)
      /\ \A i \in DOMAIN SaveOnly(k, v) : SaveOnly(k, v)[i] \in {NvsSet(k, v), End}
      /\ \A i \in DOMAIN Do(Live(k, v)) : Do(Live(k, v))[i] = Live(k, v)
      /\ \A i \in DOMAIN <<NvsSet(k, v)>> : <<NvsSet(k, v)>>[i] = NvsSet(k, v)
  BY DEF PutOnly, SaveOnly, Do
<1>4. /\ Keeps(PutOnly(k, v)) /\ Keeps(SaveOnly(k, v)) /\ Keeps(Do(Live(k, v)))
      /\ Keeps(<<NvsSet(k, v)>>)
  BY <1>2, <1>3, NeutralKeeps DEF Rests, NvsSet, Put, Live, End, Writes, Lives
<1>5. /\ Heapless(PutOnly(k, v)) /\ Heapless(SaveOnly(k, v)) /\ Heapless(Do(Live(k, v)))
      /\ Heapless(<<NvsSet(k, v)>>)
  BY <1>3 DEF Heapless, NvsSet, Put, Live, End
<1>6. Closed(PutOnly(k, v)) /\ Closed(Do(Live(k, v)))
  BY <1>3 DEF Closed, Put, Live
<1>7. Closed(SaveOnly(k, v))
  BY DEF Closed, SaveOnly
<1> QED
  BY <1>4, <1>5, <1>6, <1>7 DEF Form

\* The keys are in the tables, and their values are such.
Lists(keys, x) ==
    keys \in Seq(Names \ LiveKeys) /\ \A i \in DOMAIN keys : x[keys[i]] \in Values

LEMMA ListForms ==
    ASSUME NEW keys, NEW x, Lists(keys, x)
    PROVE  /\ Form(Puts(keys, x)) /\ Form(PutsGiven(keys, x))
           /\ Keeps(Saves(keys, x)) /\ Heapless(Saves(keys, x))
<1>1. \A i \in DOMAIN keys : keys[i] \in Names \ LiveKeys /\ x[keys[i]] \in Values
  BY DEF Lists
<1>2. DOMAIN keys = 1..Len(keys) /\ Len(keys) \in Nat
  BY DEF Lists
<1>3. ASSUME NEW s, DOMAIN s = DOMAIN keys, s = [i \in DOMAIN keys |-> s[i]],
             \A i \in DOMAIN keys : s[i] \in {Put(keys[i], x[keys[i]]), NvsSet(keys[i], x[keys[i]]), Skip}
      PROVE  Keeps(s) /\ Heapless(s)
  <2>1. \A i \in DOMAIN s : s[i] \in Effects
    BY <1>1, <1>3, OneEffect
  <2>2. s \in Scripts
    BY <1>2, <1>3, <2>1 DEF Scripts
  <2>3. Keeps(s)
    BY <1>1, <1>3, <2>2, NeutralKeeps DEF Put, NvsSet, Skip, Writes, Lives
  <2> QED
    BY <1>3, <2>3 DEF Heapless, Put, NvsSet, Skip
<1>4. Keeps(Puts(keys, x)) /\ Heapless(Puts(keys, x))
  BY <1>3 DEF Puts
<1>5. Keeps(PutsGiven(keys, x)) /\ Heapless(PutsGiven(keys, x))
  BY <1>3 DEF PutsGiven
<1>6. Keeps(Saves(keys, x)) /\ Heapless(Saves(keys, x))
  BY <1>3 DEF Saves
<1>7. Closed(Puts(keys, x)) /\ Closed(PutsGiven(keys, x))
  BY DEF Closed, Puts, PutsGiven, Put, Skip
<1> QED
  BY <1>4, <1>5, <1>6, <1>7 DEF Form

LEMMA HeaplessConcat ==
    ASSUME NEW s, NEW t, Keeps(s), Keeps(t), Heapless(s), Heapless(t)
    PROVE  Keeps(s \o t) /\ Heapless(s \o t)
<1>1. Placed(s, t)
  BY Joined DEF Keeps
<1> QED
  BY <1>1, KeepsConcat DEF Placed, Heapless

\* Buffers are taken, something is done, and they are released again.
LEMMA WrappedIsSafe ==
    ASSUME NEW u \in Scripts, NEW m \in Scripts, NEW w \in Scripts, Heapless(m), Closed(m),
           \A i \in DOMAIN u : u[i][1] \in {"alloc", "free"},
           \A i \in DOMAIN w : w[i][1] \in {"free", "arm"},
           \A i \in DOMAIN u : u[i][1] = "alloc" => \E l \in DOMAIN w : On(w[l], {"free"}, u[i][2])
    PROVE  u \o m \o w \in Scripts /\ Safe(u \o m \o w)
<1> DEFINE um == u \o m
           s == um \o w
<1>1. Placed(u, m) /\ um \in Scripts
  <2>1. Placed(u, m)
    BY Joined
  <2> QED
    BY <2>1 DEF Placed
<1>2. Placed(um, w)
  BY <1>1, Joined
<1>3. \A i \in DOMAIN um : /\ um[i][1] # "send"
                           /\ i <= Len(u) => um[i] = u[i] /\ i \in DOMAIN u
                           /\ i > Len(u) => um[i] = m[i - Len(u)] /\ i - Len(u) \in DOMAIN m
  BY <1>1 DEF Placed, Heapless
<1>4. \A i \in DOMAIN s : s[i][1] # "send"
  BY <1>2, <1>3 DEF Placed
<1>5. ASSUME NEW i \in DOMAIN s, NEW j \in Leaving(s), s[i][1] = "alloc"
      PROVE  FreedIn(s, s[i][2], i + 1, j)
  <2>1. j = Len(s) + 1
    BY <1>4 DEF Leaving
  <2>2. i \in DOMAIN um /\ s[i] = um[i]
    BY <1>2, <1>5 DEF Placed
  <2>3. i \in DOMAIN u /\ s[i] = u[i]
    BY <1>1, <1>3, <1>5, <2>2 DEF Placed, Heapless
  <2>4. PICK l \in DOMAIN w : On(w[l], {"free"}, s[i][2])
    BY <1>5, <2>3
  <2>5. /\ Len(um) + l \in DOMAIN s /\ s[Len(um) + l] = w[l]
        /\ i + 1 <= Len(um) + l /\ Len(um) + l < j
    BY <1>2, <2>1, <2>2 DEF Placed
  <2> QED
    BY <2>4, <2>5 DEF FreedIn
<1>6. Closed(um)
  <2>1. ASSUME NEW i \in DOMAIN um, um[i][1] = "save"
        PROVE  \E e \in i..Len(um) : um[e] = End
    <3>1. i > Len(u) /\ i - Len(u) \in DOMAIN m /\ um[i] = m[i - Len(u)]
      BY <1>1, <1>3, <2>1 DEF Placed
    <3>2. PICK e \in i - Len(u)..Len(m) : m[e] = End
      BY <2>1, <3>1 DEF Closed
    <3>3. e \in DOMAIN m /\ Len(u) + e \in i..Len(um)
      BY <1>1, <3>1, <3>2 DEF Placed
    <3> QED
      BY <1>1, <3>2, <3>3 DEF Placed
  <2> QED
    BY <2>1 DEF Closed
<1>7. Guarded(um)
  <2>1. ASSUME NEW i \in DOMAIN um, NEW l \in DOMAIN um, um[i][1] = "save", i < l, um[l][1] = "free"
        PROVE  FALSE
    <3>1. l <= Len(u) /\ i <= Len(u)
      BY <1>1, <1>3, <2>1 DEF Placed, Heapless
    <3> QED
      BY <1>3, <2>1, <3>1
  <2> QED
    BY <2>1 DEF Guarded
<1>8. Guarded(s)
  BY <1>1, <1>6, <1>7, GuardedConcat DEF Guarded
<1>9. Closed(s)
  <2>1. ASSUME NEW i \in DOMAIN s, s[i][1] = "save"
        PROVE  \E e \in i..Len(s) : s[e] = End
    <3>1. i \in DOMAIN um /\ s[i] = um[i]
      BY <1>2, <2>1 DEF Placed
    <3>2. PICK e \in i..Len(um) : um[e] = End
      BY <1>6, <2>1, <3>1 DEF Closed
    <3> QED
      BY <1>2, <3>1, <3>2 DEF Placed
  <2> QED
    BY <2>1 DEF Closed
<1> QED
  BY <1>2, <1>4, <1>5, <1>8, <1>9 DEF Safe, Tidy, Placed

LEMMA HeapEffects ==
    ASSUME NEW b \in Buffers
    PROVE  {Alloc(b), Drop(b), Send, Arm} \subseteq Effects
<1>1. b \in Names /\ 0 \in Values
  BY DEF Names, Values, Bad
<1> QED
  BY <1>1, OneEffect

LEMMA QuerySafe ==
    ASSUME NEW s, Form(s)
    PROVE  Keeps(Query(s)) /\ Safe(Query(s))
<1> DEFINE u == <<Alloc("buf")>>
           w == <<Drop("buf")>>
<1>1. u \in Scripts /\ w \in Scripts /\ s \in Scripts
  BY HeapEffects DEF Buffers, Scripts, Form, Keeps
<1>2. /\ \A i \in DOMAIN u : u[i] = <<"alloc", "buf", 0>>
      /\ w[1] = <<"free", "buf", 0>> /\ 1 \in DOMAIN w /\ \A i \in DOMAIN w : i = 1
  BY DEF Alloc, Drop
<1>3. Keeps(u) /\ Keeps(w)
  BY <1>1, <1>2, NeutralKeeps DEF Writes, Lives
<1>4. Keeps(u \o s \o w)
  BY <1>3, KeepsConcat DEF Form
<1>5. Safe(u \o s \o w)
  BY <1>1, <1>2, WrappedIsSafe DEF Form, On
<1> QED
  BY <1>4, <1>5 DEF Query

LEMMA PageConcat ==
    ASSUME NEW s, NEW t, Page(s), Page(t)
    PROVE  Page(s \o t)
<1>1. s \in Scripts /\ t \in Scripts
  BY DEF Page
<1>2. Placed(s, t)
  BY <1>1, Joined
<1> QED
  BY <1>1, <1>2, TidyConcat DEF Page, Placed

LEMMA ChunksPage == Page(Chunks)
<1>1. Chunks \in Scripts
  BY HeapEffects DEF Chunks, Buffers, Scripts
<1> QED
  BY <1>1 DEF Page, Tidy, Chunks, Send

\* A buffer that is released at once
LEMMA HeldPage ==
    ASSUME NEW b \in Buffers
    PROVE  Page(<<Alloc(b), Drop(b)>>)
<1> DEFINE s == <<Alloc(b), Drop(b)>>
<1>1. s \in Scripts
  BY HeapEffects DEF Scripts
<1>2. DOMAIN s = {1, 2} /\ s[1] = <<"alloc", b, 0>> /\ s[2] = <<"free", b, 0>> /\ Len(s) = 2
  BY DEF Alloc, Drop
<1>3. Leaving(s) = {3}
  BY <1>2 DEF Leaving
<1>4. Tidy(s)
  BY <1>2, <1>3 DEF Tidy, FreedIn, On
<1> QED
  BY <1>1, <1>2, <1>4 DEF Page

LEMMA AnswerIsSound ==
    ASSUME NEW s, NEW t, Form(s), Page(t)
    PROVE  Sound(Query(s) \o t) /\ Sound(Query(s)) /\ Sound(t)
<1>1. Keeps(Query(s)) /\ Safe(Query(s))
  BY QuerySafe
<1>2. Sound(Query(s) \o t) /\ Sound(Query(s))
  BY <1>1, PageIsSound, SafeIsSound
<1>3. Keeps(<<>>) /\ Safe(<<>>) /\ <<>> \o t = t
  BY EmptyForm, FormIsSafe DEF None, Page, Scripts
<1>4. Sound(t)
  BY <1>3, PageIsSound
<1> QED
  BY <1>2, <1>4

-----------------------------------------------------------------------------
(* The arguments                                                           *)

\* Arguments and fields are in the domains of the keys they set.
Fields(x) ==
    /\ x = [k \in Keys |-> x[k]]
    /\ \A k \in Keys : x[k] \in Domain(k) \cup {Missing}

LEMMA DomainTyped ==
    ASSUME NEW k
    PROVE  Domain(k) \subseteq 0..Bad /\ 1 \in Domain(k) /\ (k \notin Ranged => Bad \notin Domain(k))
BY DEF Domain, Bad

LEMMA ArgsAreFields ==
    ASSUME Types, NEW x \in Args
    PROVE  Fields(x)
<1>1. Settings \subseteq Keys
  BY DEF Settings, Types
<1>2. PICK f \in [Settings -> 0..3 \cup {Missing}] :
        /\ \A k \in Settings : f[k] \in Domain(k) \cup {Missing}
        /\ x = [k \in Keys |-> IF k \in Settings THEN f[k] ELSE 1]
  BY DEF Args
<1> QED
  BY <1>1, <1>2, DomainTyped DEF Fields

LEMMA FieldsTyped ==
    ASSUME NEW x, Fields(x), NEW k \in Keys
    PROVE  x[k] \in Values /\ (x[k] # Missing => x[k] \in 0..Bad)
BY DomainTyped DEF Fields, Values

LEMMA LiveKeysAreKeys == LiveKeys \subseteq Keys
BY DEF LiveKeys, Keys

\* What app_main() loads is what was stored.
LEMMA SetsLive ==
    ASSUME NEW k \in Keys, NEW v \in 0..Bad, v # Bad \/ k = "ap_channel" \/ k \notin LiveKeys
    PROVE  Sets(k, v)
<1>1. k \in Names /\ v \in Values /\ v # Missing
  BY MissingAssumption DEF Names, Values
<1>2. CASE k \in LiveKeys /\ v # Bad
  <2>1. Loaded(k, v) = v
    BY <1>1, <1>2 DEF Loaded, LoadOption, LoadRadio, LoadUplink, LoadString
  <2> QED
    BY <1>1, <2>1 DEF Sets, InForce
<1>3. CASE k = "ap_channel" /\ v = Bad
  BY <1>1, <1>3 DEF Sets, InForce
<1>4. CASE k \notin LiveKeys
  BY <1>1, <1>4 DEF Sets
<1> QED
  BY <1>2, <1>3, <1>4

LEMMA Accepted ==
    ASSUME NEW x, Fields(x), NEW k \in Keys, x[k] # Missing,
           x[k] # Bad \/ k \notin Ranged \/ k = "ap_channel" \/ k \notin LiveKeys
    PROVE  Sets(k, x[k])
<1>1. x[k] \in Domain(k)
  BY DEF Fields
<1> QED
  BY <1>1, DomainTyped, SetsLive

LEMMA RestsHere ==
    ASSUME NEW k \in Keys \ LiveKeys, NEW v \in Values
    PROVE  Rests(k, v)
BY DEF Rests, Names

\* The keys whose values are not in force before the next start
LEMMA RestingKeys ==
    {"ssid", "passwd", "ent_username", "ent_identity", "static_ip", "subnet_mask", "gateway_addr",
     "mac", "ap_mac", "ap_ssid", "ap_passwd", "ap_ip", "hostname", "tx_power", "web_disabled",
     "web_port", "wan_access", "web_password", "session", "ddns_en", "ddns_prov", "ddns_host", "ddns_token",
     "ddns_pass", "ddns_poll", "led_gpio", "spi_clk_mhz"}
    \cup Range(PppoeKeys) \cup Range(VpnKeys) \subseteq Keys \ LiveKeys
BY DEF Keys, LiveKeys, Range, PppoeKeys, VpnKeys

-----------------------------------------------------------------------------
(* The console's commands                                                  *)

\* x itself, or what a page passes on of it: without Bad where nobody checks the range
Passed(x) ==
    \A k \in Keys : x[k] \in Values /\ (k \notin Ranged /\ x[k] # Missing => Sets(k, x[k]))

LEMMA FieldsPassed ==
    ASSUME NEW x, Fields(x)
    PROVE  Passed(x)
BY Accepted, FieldsTyped DEF Passed

LEMMA set_mac_Form ==
    ASSUME NEW x, Fields(x), NEW k \in {"mac", "ap_mac"}
    PROVE  Form(set_mac(k, x))
<1>1. Rests(k, x[k])
  BY RestingKeys, RestsHere, FieldsTyped
<1> QED
  BY <1>1, RestingForms, WhenForm DEF set_mac

LEMMA SaveThenLiveForm ==
    ASSUME NEW x, Fields(x), NEW k \in Keys, ~Refuse(k, x)
    PROVE  /\ Form(SaveThenLive(k, x[k])) /\ Form(PutAndLive(k, x[k])) /\ Form(LiveAndPut(k, x[k]))
BY Accepted, PairsAreForms DEF Refuse

LEMMA StoreForm ==
    ASSUME NEW x, Fields(x), NEW k \in Keys \ LiveKeys
    PROVE  Form(PutOnly(k, x[k])) /\ Form(SaveOnly(k, x[k]))
BY RestsHere, FieldsTyped, RestingForms

LEMMA set_sta_Form ==
    ASSUME NEW x, Passed(x)
    PROVE  Form(set_sta(x))
<1> DEFINE Or0(k) == IF x[k] = Missing THEN 0 ELSE x[k]
           optional(k) == When(x[k] # Missing, PutAndLive(k, x[k]))
           a == Saves(<<"ssid", "passwd">>, x)
           b == <<NvsSet("ent_username", Or0("ent_username")), NvsSet("ent_identity", Or0("ent_identity"))>>
<1>1. Keeps(a) /\ Heapless(a)
  <2>1. Lists(<<"ssid", "passwd">>, x)
    BY RestingKeys DEF Lists, Passed, Names
  <2> QED
    BY <2>1, ListForms
<1>2. Keeps(b) /\ Heapless(b)
  <2>1. Rests("ent_username", Or0("ent_username")) /\ Rests("ent_identity", Or0("ent_identity"))
    BY RestingKeys, RestsHere DEF Passed, Values, Bad
  <2>2. b = <<NvsSet("ent_username", Or0("ent_username"))>> \o <<NvsSet("ent_identity", Or0("ent_identity"))>>
    OBVIOUS
  <2> QED
    BY <2>1, <2>2, RestingForms, HeaplessConcat
<1>3. ASSUME NEW k \in {"eap_method", "ttls_phase2", "cert_bundle", "no_time_chk"}
      PROVE  Keeps(optional(k)) /\ Heapless(optional(k))
  <2>1. k \in Keys /\ k \notin Ranged
    BY DEF Keys, Ranged
  <2>2. Form(optional(k))
    BY <2>1, PairsAreForms, WhenForm DEF Passed
  <2> QED
    BY <2>2 DEF Form
<1> HIDE DEF a, b, optional
<1>4. Form(Chain(a \o b \o optional("eap_method") \o optional("ttls_phase2")
                   \o optional("cert_bundle") \o optional("no_time_chk")))
  BY <1>1, <1>2, <1>3, HeaplessConcat, ChainIsForm
<1> QED
  BY <1>4, WhenForm DEF set_sta, a, b, optional

LEMMA set_sta_static_Form ==
    ASSUME NEW x, Fields(x)
    PROVE  Form(set_sta_static(x)) /\ Form(set_sta_static_dhcp)
<1>1. Lists(StaticKeys, x)
  BY RestingKeys, FieldsTyped DEF Lists, Names, StaticKeys
<1>2. Form(set_sta_static(x))
  BY <1>1, ListForms, ChainIsForm, WhenForm DEF set_sta_static
<1> DEFINE gone == [k \in {"static_ip", "subnet_mask", "gateway_addr"} |-> Missing]
<1>3. set_sta_static_dhcp = Puts(StaticKeys, gone)
  BY DEF set_sta_static_dhcp, Puts, StaticKeys, Erase, Put
<1>4. Lists(StaticKeys, gone)
  BY RestingKeys DEF Lists, Names, StaticKeys, Values
<1> QED
  BY <1>2, <1>3, <1>4, ListForms

LEMMA set_ap_Form ==
    ASSUME NEW x, Passed(x)
    PROVE  Form(set_ap(x))
<1>1. Lists(<<"ap_ssid", "ap_passwd">>, x)
  BY RestingKeys DEF Lists, Names, Passed
<1> QED
  BY <1>1, ListForms, ChainIsForm, WhenForm DEF set_ap

LEMMA set_ap_ip_Form ==
    ASSUME NEW x, Fields(x)
    PROVE  Form(set_ap_ip(x))
<1>1. Sets("dhcp_res", 0) /\ Sets("portmap", 0)
  BY SetsLive DEF Keys, Bad
<1>2. Form(LiveAndPut("dhcp_res", 0) \o LiveAndPut("portmap", 0))
  BY <1>1, PairsAreForms, FormConcat
<1>3. Rests("ap_ip", x["ap_ip"])
  BY RestingKeys, RestsHere, FieldsTyped
<1>4. ASSUME NEW c
      PROVE  Form(Chain(<<NvsSet("ap_ip", x["ap_ip"])>>
                        \o When(c, LiveAndPut("dhcp_res", 0) \o LiveAndPut("portmap", 0))))
  BY <1>2, <1>3, RestingForms, WhenForm, HeaplessConcat, ChainIsForm DEF Form
<1> QED
  BY <1>4, WhenForm DEF set_ap_ip, clear_all_dhcp_reservations

LEMMA SwitchForms ==
    ASSUME NEW x, Fields(x)
    PROVE  /\ Form(set_sta_band_cmd(x)) /\ Form(set_ttl_cmd(x)) /\ Form(set_hostname(x))
           /\ Form(set_ap_nat_cmd(x)) /\ Form(set_ap_hidden_cmd(x)) /\ Form(set_ap_known_only_cmd(x))
           /\ Form(set_ap_auth_cmd(x)) /\ Form(set_wifi_country_cmd(x))
           /\ Form(set_led_lowactive_cmd(x)) /\ Form(client_stats_cmd(x)) /\ Form(set_rf_switch_cmd(x))
           /\ Form(log_level_cmd(x))
<1>1. {"sta_band", "sta_ttl", "hostname", "ap_nat", "ap_hidden", "ap_known_only", "ap_authmode",
       "wifi_cc", "led_low", "cstats_en", "rf_switch", "log_level"} \subseteq Keys
  BY DEF Keys
<1>2. ASSUME NEW k \in Keys
      PROVE  /\ Form(When(~Refuse(k, x), SaveThenLive(k, x[k])))
             /\ Form(When(~Refuse(k, x), PutAndLive(k, x[k])))
             /\ Form(When(~Refuse(k, x), LiveAndPut(k, x[k])))
  BY SaveThenLiveForm, WhenForm
<1> QED
  BY <1>1, <1>2 DEF set_sta_band_cmd, set_ttl_cmd, set_hostname, set_ap_nat_cmd, set_ap_hidden_cmd,
       set_ap_known_only_cmd, set_ap_auth_cmd, set_wifi_country_cmd, set_led_lowactive_cmd,
       client_stats_cmd, set_rf_switch_cmd, log_level_cmd

\* The settings whose range nobody checks, because there is none
LEMMA FreeForms ==
    ASSUME NEW x, Fields(x)
    PROVE  /\ Form(set_ap_dns(x)) /\ Form(set_ap_channel_cmd(x)) /\ Form(set_tz_cmd(x))
           /\ Form(portmap(x)) /\ Form(dhcp_reserve(x))
<1>1. {"ap_dns", "ap_channel", "tz", "portmap", "dhcp_res"} \subseteq Keys
      /\ {"ap_dns", "tz", "portmap", "dhcp_res"} \cap Ranged = {}
  BY DEF Keys, Ranged
<1>2. ASSUME NEW k \in {"ap_dns", "ap_channel", "tz", "portmap", "dhcp_res"}, x[k] # Missing
      PROVE  Form(SaveThenLive(k, x[k])) /\ Form(PutAndLive(k, x[k])) /\ Form(LiveAndPut(k, x[k]))
  BY <1>1, <1>2, Accepted, PairsAreForms
<1>3. /\ Form(set_ap_dns(x)) /\ Form(set_tz_cmd(x)) /\ Form(portmap(x)) /\ Form(dhcp_reserve(x))
  BY <1>2, WhenForm DEF set_ap_dns, set_tz_cmd, portmap, dhcp_reserve
<1>4. Form(set_ap_channel_cmd(x))
  BY <1>2, WhenForm DEF set_ap_channel_cmd
<1> QED
  BY <1>3, <1>4

LEMMA StoredForms ==
    ASSUME NEW x, Fields(x)
    PROVE  /\ Form(set_tx_power_cmd(x)) /\ Form(set_led_gpio_cmd(x)) /\ Form(set_spi_clock_cmd(x))
           /\ \A k \in {"ddns_en", "ddns_prov", "ddns_host", "ddns_token", "ddns_pass", "ddns_poll"} :
                Form(ddns_cmd(k, x))
           /\ \A k \in {"rc_port", "rc_timeout"} : Form(remote_console_cmd(k, x))
<1>1. {"tx_power", "led_gpio", "spi_clk_mhz", "ddns_en", "ddns_prov", "ddns_host", "ddns_token",
       "ddns_pass", "ddns_poll"} \subseteq Keys \ LiveKeys
  BY RestingKeys
<1>2. Form(set_led_gpio_cmd(x)) /\ Form(set_spi_clock_cmd(x))
  BY <1>1, StoreForm, WhenForm DEF set_led_gpio_cmd, set_spi_clock_cmd
<1>3. Form(set_tx_power_cmd(x))
  <2>1. Rests("tx_power", 0)
    BY <1>1, RestsHere DEF Values, Bad
  <2>2. Form(SaveOnly("tx_power", 0))
    BY <2>1, RestingForms
  <2> QED
    BY <1>1, <2>2, SaveThenLiveForm, WhenForm DEF set_tx_power_cmd
<1>4. \A k \in {"ddns_en", "ddns_prov", "ddns_host", "ddns_token", "ddns_pass", "ddns_poll"} :
        Form(ddns_cmd(k, x))
  BY <1>1, StoreForm, WhenForm DEF ddns_cmd
<1>5. \A k \in {"rc_port", "rc_timeout"} : Form(remote_console_cmd(k, x))
  <2>1. {"rc_port", "rc_timeout"} \subseteq Keys
    BY DEF Keys
  <2> QED
    BY <2>1, SaveThenLiveForm, WhenForm DEF remote_console_cmd
<1> QED
  BY <1>2, <1>3, <1>4, <1>5

LEMMA ap_cmd_Form ==
    ASSUME NEW on
    PROVE  Form(ap_cmd(on))
<1>1. Sets("ap_disabled", 0) /\ Sets("ap_disabled", 1)
  BY SetsLive DEF Keys, Bad
<1>2. Form(ap_set_enabled(on))
  BY <1>1, PairsAreForms DEF ap_set_enabled
<1> QED
  BY <1>2, WhenForm DEF ap_cmd

LEMMA web_ui_cmd_Form ==
    ASSUME NEW x, Fields(x), NEW a \in {"enable", "disable", "port", "wan_access"}
    PROVE  Form(web_ui_cmd(a, x))
<1>1. Rests("web_disabled", 0) /\ Rests("web_disabled", 1)
  BY RestingKeys, RestsHere DEF Values, Bad
<1>2. CASE a = "enable" \/ a = "disable"
  BY <1>1, <1>2, RestingForms DEF web_ui_cmd
<1>3. CASE a = "port"
  <2>1. "web_port" \in Keys \ LiveKeys
    BY RestingKeys
  <2>2. Form(When(~Refuse("web_port", x), SaveOnly("web_port", x["web_port"])))
    BY <2>1, StoreForm, WhenForm
  <2> QED
    BY <1>3, <2>2 DEF web_ui_cmd
<1>4. CASE a = "wan_access"
  <2>1. "wan_access" \in Keys \ LiveKeys
    BY RestingKeys
  <2>2. Form(When(x["wan_access"] # Missing /\ (x["wan_access"] = 1 => is_web_password_set),
                  SaveOnly("wan_access", x["wan_access"])))
    BY <2>1, StoreForm, WhenForm
  <2> QED
    BY <1>4, <2>2 DEF web_ui_cmd
<1> QED
  BY <1>2, <1>3, <1>4

LEMMA PasswordForms ==
    ASSUME NEW v \in Values
    PROVE  /\ Form(set_router_password_cmd(v)) /\ Form(verify_web_password(v))
           /\ Form(index_login(v)) /\ Form(index_new_password(v)) /\ Form(index_logout)
<1>1. Rests("web_password", v) /\ Rests("web_password", 1)
  BY RestingKeys, RestsHere DEF Values, Bad
<1>2. Rests("wan_access", 0)
  BY RestingKeys, RestsHere DEF Values, Bad
<1>3. ASSUME NEW c
      PROVE  Form(When(c, RevokeWan))
  BY <1>2, RestingForms, WhenForm DEF RevokeWan
<1>4. Form(create_session) /\ Form(clear_session)
  <2>1. Rests("session", 0) /\ Rests("session", 1)
    BY RestingKeys, RestsHere DEF Values, Bad
  <2> QED
    BY <2>1, RestingForms DEF create_session, clear_session
<1>5. Form(set_router_password_cmd(v))
  BY <1>1, <1>3, RestingForms, HeaplessConcat, ChainIsForm
     DEF set_router_password_cmd, set_web_password_hashed, Form
<1>6. Form(verify_web_password(v))
  BY <1>1, RestingForms, ChainIsForm, WhenForm DEF verify_web_password, set_web_password_hashed
<1>7. Form(index_login(v))
  BY <1>4, <1>6, FormConcat, WhenForm DEF index_login
<1>8. Form(Chain(<<set_web_password_hashed(v)>> \o When(v = 0, RevokeWan) \o clear_session))
  BY <1>1, <1>3, <1>4, RestingForms, HeaplessConcat, ChainIsForm DEF set_web_password_hashed, Form
<1> QED
  BY <1>4, <1>5, <1>6, <1>7, <1>8, WhenForm DEF index_new_password, index_logout

LEMMA TableForms ==
    ASSUME NEW x, Fields(x)
    PROVE  Form(set_pppoe_cmd(x)) /\ Form(set_vpn_cmd(x))
<1>1. Lists(PppoeKeys, x)
  <2>1. \A i \in DOMAIN PppoeKeys : PppoeKeys[i] \in Keys \ LiveKeys
    BY RestingKeys DEF Range
  <2>2. PppoeKeys \in Seq(Names \ LiveKeys)
    BY <2>1 DEF PppoeKeys, Names
  <2> QED
    BY <2>1, <2>2, FieldsTyped DEF Lists
<1>2. Lists(VpnKeys, x)
  <2>1. \A i \in DOMAIN VpnKeys : VpnKeys[i] \in Keys \ LiveKeys
    BY RestingKeys DEF Range
  <2>2. VpnKeys \in Seq(Names \ LiveKeys)
    BY <2>1 DEF VpnKeys, Names
  <2> QED
    BY <2>1, <2>2, FieldsTyped DEF Lists
<1> QED
  BY <1>1, <1>2, ListForms DEF set_pppoe_cmd, set_vpn_cmd

LEMMA factory_reset_Sound == Sound(factory_reset)
<1>1. "*" \in Names /\ 0 \in Values
  BY DEF Names, Values, Bad
<1>2. Wipe \in Effects /\ Arm \in Effects
  BY <1>1, OneEffect
<1>3. factory_reset \in Scripts
  BY <1>2 DEF factory_reset, Scripts
<1>4. DOMAIN factory_reset = {1, 2} /\ factory_reset[1] = Wipe /\ factory_reset[2] = Arm
  BY DEF factory_reset
<1>5. /\ \A i \in DOMAIN factory_reset : factory_reset[i][1] \in {"wipe", "arm"}
      /\ factory_reset[2][1] = "arm"
  BY <1>4 DEF Wipe, Arm
<1>6. Safe(factory_reset)
  BY <1>5 DEF Safe, Tidy, Guarded, Closed
<1> QED
  BY <1>3, <1>4, <1>5, <1>6, RestartIsSound

-----------------------------------------------------------------------------
(* The forms of the web pages                                              *)

LEMMA KeptTyped ==
    ASSUME Types, NEW x, Fields(x), NEW k \in Keys
    PROVE  Kept(x, k) \in Values
<1>1. Running(k) \in Values
  BY DEF Running, Types, Values, Bad
<1> QED
  BY <1>1, FieldsTyped DEF Kept

LEMMA BoxForm ==
    ASSUME NEW k \in Keys, NEW v \in {0, 1}
    PROVE  Form(PutAndLive(k, v))
BY SetsLive, PairsAreForms DEF Bad

LEMMA config_ap_form_Form ==
    ASSUME Types, NEW x, Fields(x), NEW open
    PROVE  Form(config_ap_form(x, open))
<1> DEFINE pass == IF open THEN 0 ELSE Kept(x, "ap_passwd")
           y == [x EXCEPT !["ap_passwd"] = pass]
           a == set_ap(y)
           b == When(NotEmpty(x, "ap_ip"), set_ap_ip(x))
           m == When(NotEmpty(x, "ap_mac"), set_mac("ap_mac", x))
           disabled == PutAndLive("ap_disabled", 1 - Checked(x, "ap_disabled"))
           box(k) == PutAndLive(k, Checked(x, k))
           auth == When(~Refuse("ap_authmode", x), PutAndLive("ap_authmode", x["ap_authmode"]))
           channel == When(Has(x, "ap_channel") /\ x["ap_channel"] <= wifi_country_max_channel(Country),
                           PutAndLive("ap_channel", x["ap_channel"]))
<1>1. /\ {"ap_passwd", "ap_disabled", "ap_nat", "ap_hidden", "ap_authmode", "ap_channel"} \subseteq Keys
      /\ "ap_passwd" \notin LiveKeys
  BY DEF Keys, LiveKeys
<1>2. Form(a)
  <2>1. pass \in Values
    BY <1>1, KeptTyped DEF Values, Bad
  <2>2. \A k \in Keys : y[k] = IF k = "ap_passwd" THEN pass ELSE x[k]
    BY DEF Fields
  <2>3. Passed(y)
    BY <1>1, <2>1, <2>2, FieldsPassed DEF Passed, Sets, Names
  <2> QED
    BY <2>3, set_ap_Form
<1>3. Form(b) /\ Form(m)
  BY set_ap_ip_Form, set_mac_Form, WhenForm
<1>4. Form(disabled) /\ Form(box("ap_nat")) /\ Form(box("ap_hidden"))
  BY <1>1, BoxForm DEF Checked
<1>5. Form(auth)
  BY <1>1, SaveThenLiveForm, WhenForm
<1>6. Form(channel)
  BY <1>1, Accepted, PairsAreForms, WhenForm DEF Has
<1>7. Form(set_hostname(x)) /\ Form(set_ap_dns(x)) /\ Form(Do(Arm))
  BY SwitchForms, FreeForms, ArmForm
<1> HIDE DEF a, b, m, disabled, box, auth, channel
<1>8. Form(a \o b \o set_hostname(x) \o set_ap_dns(x) \o m \o disabled \o box("ap_nat")
           \o box("ap_hidden") \o auth \o channel \o Do(Arm))
  BY <1>2, <1>3, <1>4, <1>5, <1>6, <1>7, FormConcat
<1> QED
  BY <1>8, WhenForm DEF config_ap_form, a, b, m, disabled, box, auth, channel

LEMMA config_sta_form_Form ==
    ASSUME Types, NEW x, Fields(x)
    PROVE  Form(config_sta_form(x))
<1> DEFINE number(k) == IF Has(x, k) THEN x[k] ELSE 0
           band == IF Refuse("sta_band", x) THEN 0 ELSE x["sta_band"]
           sta == [k \in DOMAIN x |->
                     CASE k = "passwd" -> Kept(x, "passwd")
                       [] k \in {"ent_username", "ent_identity"} /\ x[k] = 0 -> Missing
                       [] k \in {"eap_method", "ttls_phase2", "cert_bundle", "no_time_chk"} -> Missing
                       [] OTHER -> x[k]]
           a == set_sta(sta)
           e == PutAndLive("eap_method", number("eap_method"))
           t == PutAndLive("ttls_phase2", number("ttls_phase2"))
           c == PutAndLive("cert_bundle", Checked(x, "cert_bundle"))
           n == PutAndLive("no_time_chk", Checked(x, "no_time_chk"))
           b == PutAndLive("sta_band", band)
           m == When(NotEmpty(x, "mac"), set_mac("mac", x))
<1>1. /\ {"passwd", "eap_method", "ttls_phase2", "cert_bundle", "no_time_chk", "sta_band"} \subseteq Keys
      /\ {"eap_method", "ttls_phase2"} \cap Ranged = {} /\ "passwd" \notin LiveKeys
  BY DEF Keys, LiveKeys, Ranged
<1>2. Form(a)
  <2>1. DOMAIN x = Keys
    BY DEF Fields
  <2>2. \A k \in Keys : sta[k] \in {x[k], Missing} \/ (k = "passwd" /\ sta[k] = Kept(x, "passwd"))
    BY <2>1
  <2>3. Kept(x, "passwd") \in Values /\ Missing \in Values
    BY <1>1, KeptTyped DEF Values
  <2>4. Passed(sta)
    BY <1>1, <2>2, <2>3, FieldsPassed DEF Passed, Sets, Names
  <2> QED
    BY <2>4, set_sta_Form
<1>3. Form(e) /\ Form(t)
  <2>1. ASSUME NEW k \in {"eap_method", "ttls_phase2"}
        PROVE  Sets(k, number(k))
    BY <1>1, Accepted, SetsLive DEF Has, Bad
  <2> QED
    BY <2>1, PairsAreForms
<1>4. Form(c) /\ Form(n)
  BY <1>1, BoxForm DEF Checked
<1>5. Form(b)
  <2>1. Sets("sta_band", band)
    BY <1>1, Accepted, SetsLive DEF Refuse, Bad
  <2> QED
    BY <2>1, PairsAreForms
<1>6. Form(m) /\ Form(Do(Arm))
  BY set_mac_Form, WhenForm, ArmForm
<1> HIDE DEF a, e, t, c, n, b, m
<1>7. Form(a \o e \o t \o c \o n \o b \o m \o Do(Arm))
  BY <1>2, <1>3, <1>4, <1>5, <1>6, FormConcat
<1> QED
  BY <1>7, WhenForm DEF config_sta_form, a, e, t, c, n, b, m

LEMMA SmallForms ==
    ASSUME NEW x, Fields(x)
    PROVE  /\ Form(config_reset) /\ Form(config_disable_interface) /\ Form(config_static_form(x))
           /\ Form(config_rc_form(x)) /\ Form(mappings_known(x)) /\ Form(mappings_dhcp(x))
           /\ Form(mappings_port(x))
<1>1. Form(config_reset)
  BY ArmForm DEF config_reset
<1>2. Form(config_disable_interface)
  <2>1. Rests("web_disabled", 1)
    BY RestingKeys, RestsHere DEF Values, Bad
  <2> QED
    BY <2>1, RestingForms, ArmForm, FormConcat DEF config_disable_interface
<1>3. Form(config_static_form(x))
  BY set_sta_static_Form, ArmForm, FormConcat, WhenForm DEF config_static_form
<1>4. Form(config_rc_form(x))
  <2>1. "rc_enabled" \in Keys /\ "rc_enabled" \notin Ranged
    BY DEF Keys, Ranged
  <2>2. Form(When(Has(x, "rc_enabled"), LiveAndPut("rc_enabled", x["rc_enabled"])))
    BY <2>1, Accepted, PairsAreForms, WhenForm DEF Has
  <2> QED
    BY <2>2, StoredForms, FormConcat, WhenForm DEF config_rc_form
<1>5. Form(mappings_known(x))
  <2>1. "ap_known_only" \in Keys
    BY DEF Keys
  <2> QED
    BY <2>1, BoxForm DEF mappings_known, Checked
<1>6. Form(mappings_dhcp(x)) /\ Form(mappings_port(x))
  BY FreeForms, WhenForm DEF mappings_dhcp, mappings_port
<1> QED
  BY <1>1, <1>2, <1>3, <1>4, <1>5, <1>6

LEMMA setup_ap_form_Form ==
    ASSUME Types, NEW x, Fields(x)
    PROVE  Form(setup_ap_form(x))
<1> DEFINE zero(k) == PutAndLive(k, 0)
           y == [x EXCEPT !["ap_passwd"] = Kept(x, "ap_passwd")]
<1>1. /\ {"ap_passwd", "ap_dns", "ap_hidden", "ap_known_only", "ap_authmode", "ap_disabled", "ap_nat"}
           \subseteq Keys
      /\ "ap_passwd" \notin LiveKeys
  BY DEF Keys, LiveKeys
<1>2. Form(PutOnly("ap_ip", 0))
  <2>1. Rests("ap_ip", 0)
    BY RestingKeys, RestsHere DEF Values, Bad
  <2> QED
    BY <2>1, RestingForms
<1>3. /\ Form(zero("ap_dns")) /\ Form(zero("ap_hidden")) /\ Form(zero("ap_known_only"))
      /\ Form(zero("ap_authmode")) /\ Form(zero("ap_disabled")) /\ Form(PutAndLive("ap_nat", 1))
  BY <1>1, BoxForm
<1>4. Form(set_ap(y))
  <2>1. \A k \in Keys : y[k] = IF k = "ap_passwd" THEN Kept(x, "ap_passwd") ELSE x[k]
    BY DEF Fields
  <2>2. Passed(y)
    BY <1>1, <2>1, KeptTyped, FieldsPassed DEF Passed, Sets, Names
  <2> QED
    BY <2>2, set_ap_Form
<1> HIDE DEF zero, y
<1>5. Form(PutOnly("ap_ip", 0) \o zero("ap_dns") \o zero("ap_hidden") \o zero("ap_known_only")
           \o zero("ap_authmode") \o zero("ap_disabled") \o PutAndLive("ap_nat", 1) \o set_ap(y))
  BY <1>2, <1>3, <1>4, FormConcat
<1> QED
  BY <1>5, WhenForm DEF setup_ap_form, zero, y

LEMMA setup_sta_form_Form ==
    ASSUME Types, NEW x, Fields(x)
    PROVE  Form(setup_sta_form(x))
<1> DEFINE zero(k) == PutAndLive(k, 0)
           sta == [k \in DOMAIN x |->
                     CASE k = "ssid"   -> x[k]
                       [] k = "passwd" -> Kept(x, k)
                       [] OTHER        -> Missing]
           fresh == {"static_ip", "subnet_mask", "gateway_addr", "ent_username", "ent_identity",
                     "eap_method", "ttls_phase2", "cert_bundle", "no_time_chk"}
<1>1. fresh \subseteq Keys /\ {"ssid", "passwd"} \subseteq Keys \ LiveKeys
  BY DEF Keys, LiveKeys
<1>2. \A k \in fresh : Form(zero(k))
  BY <1>1, BoxForm
<1>3. Form(set_sta(sta))
  <2>1. DOMAIN x = Keys
    BY DEF Fields
  <2>2. \A k \in Keys : sta[k] = IF k = "ssid" THEN x[k] ELSE IF k = "passwd" THEN Kept(x, k) ELSE Missing
    BY <2>1
  <2>3. Passed(sta)
    BY <1>1, <2>2, KeptTyped, FieldsTyped DEF Passed, Sets, Names, Values
  <2> QED
    BY <2>3, set_sta_Form
<1> HIDE DEF zero, sta
<1>4. Form(zero("static_ip") \o zero("subnet_mask") \o zero("gateway_addr")
           \o zero("ent_username") \o zero("ent_identity") \o zero("eap_method") \o zero("ttls_phase2")
           \o zero("cert_bundle") \o zero("no_time_chk") \o set_sta(sta) \o Do(Arm))
  BY <1>2, <1>3, ArmForm, FormConcat
<1> QED
  BY <1>4, WhenForm DEF setup_sta_form, zero, sta

LEMMA WithoutEmptyTyped ==
    ASSUME NEW x, Fields(x), NEW secrets, NEW k \in Keys
    PROVE  WithoutEmpty(x, secrets)[k] \in Values
BY FieldsTyped DEF WithoutEmpty, Fields, Values

LEMMA TablePages ==
    ASSUME NEW x, Fields(x)
    PROVE  /\ Keeps(pppoe_get_handler(x)) /\ Safe(pppoe_get_handler(x))
           /\ Keeps(vpn_get_handler(x)) /\ Safe(vpn_get_handler(x))
           /\ Keeps(ddns_get_handler(x)) /\ Safe(ddns_get_handler(x))
<1>1. /\ Form(PutOnly("pppoe_en", x["pppoe_en"])) /\ Form(PutOnly("vpn_enabled", x["vpn_enabled"]))
      /\ Form(PutOnly("ddns_en", x["ddns_en"])) /\ Form(PutOnly("ddns_poll", x["ddns_poll"]))
  <2>1. {"pppoe_en", "vpn_enabled", "ddns_en", "ddns_poll"} \subseteq Keys \ LiveKeys
    BY DEF Keys, LiveKeys, Range, PppoeKeys, VpnKeys
  <2> QED
    BY <2>1, StoreForm
<1>2. ASSUME NEW secrets, NEW keys \in Seq(Keys \ LiveKeys)
      PROVE  Form(PutsGiven(keys, WithoutEmpty(x, secrets)))
  <2>1. keys \in Seq(Names \ LiveKeys) /\ \A i \in DOMAIN keys : keys[i] \in Keys
    BY DEF Names
  <2>2. Lists(keys, WithoutEmpty(x, secrets))
    BY <2>1, WithoutEmptyTyped DEF Lists
  <2> QED
    BY <2>2, ListForms
<1>3. /\ <<"pppoe_user", "pppoe_pass", "pppoe_svc", "pppoe_auth", "pppoe_vlan", "pppoe_bj">>
           \in Seq(Keys \ LiveKeys)
      /\ <<"vpn_privkey", "vpn_pubkey", "vpn_psk", "vpn_endpoint", "vpn_port",
           "vpn_ip", "vpn_mask", "vpn_dns", "vpn_ka", "vpn_ks", "vpn_rall">> \in Seq(Keys \ LiveKeys)
      /\ <<"ddns_prov", "ddns_host", "ddns_token", "ddns_pass">> \in Seq(Keys \ LiveKeys)
  <2>1. /\ {"pppoe_user", "pppoe_pass", "pppoe_svc", "pppoe_auth", "pppoe_vlan", "pppoe_bj"}
             \subseteq Keys \ LiveKeys
        /\ {"vpn_privkey", "vpn_pubkey", "vpn_psk", "vpn_endpoint", "vpn_port", "vpn_ip", "vpn_mask",
            "vpn_dns", "vpn_ka", "vpn_ks", "vpn_rall"} \subseteq Keys \ LiveKeys
        /\ {"ddns_prov", "ddns_host", "ddns_token", "ddns_pass"} \subseteq Keys \ LiveKeys
    BY DEF Keys, LiveKeys, Range, PppoeKeys, VpnKeys
  <2> QED
    BY <2>1
<1>4. Keeps(pppoe_get_handler(x)) /\ Safe(pppoe_get_handler(x))
  BY <1>1, <1>2, <1>3, ArmForm, FormConcat, WhenForm, QuerySafe DEF pppoe_get_handler
<1>5. Keeps(vpn_get_handler(x)) /\ Safe(vpn_get_handler(x))
  BY <1>1, <1>2, <1>3, ArmForm, FormConcat, WhenForm, QuerySafe DEF vpn_get_handler
<1>6. Keeps(ddns_get_handler(x)) /\ Safe(ddns_get_handler(x))
  BY <1>1, <1>2, <1>3, FormConcat, WhenForm, QuerySafe DEF ddns_get_handler
<1> QED
  BY <1>4, <1>5, <1>6

-----------------------------------------------------------------------------
(* Pages and files                                                         *)

LEMMA firewall_page_Page == Page(firewall_page)
<1> DEFINE taken == <<Alloc("acl_lock"), Drop("acl_lock")>>
           list == <<Alloc("acl_lock"), Drop("acl_lock"), Send>>
<1>1. Page(taken) /\ Page(<<Send>>)
  <2>1. <<Send>> \in Scripts
    BY HeapEffects DEF Buffers, Scripts
  <2> QED
    BY <2>1, HeldPage DEF Buffers, Page, Tidy, Send
<1>2. list = taken \o <<Send>>
  OBVIOUS
<1>3. Page(list)
  BY <1>1, <1>2, PageConcat
<1> HIDE DEF list
<1>4. Page(Chunks \o list \o list \o Chunks)
  BY <1>3, ChunksPage, PageConcat
<1> QED
  BY <1>4 DEF firewall_page, list

LEMMA HeapPages ==
    /\ Page(config_page) /\ Page(scan_get_handler) /\ Page(scan_cmd)
    /\ Page(<<Alloc("buf"), Drop("buf")>> \o Chunks)
    /\ \A e \in BOOLEAN : Page(config_export_handler(e)) /\ Page(config_import_fails(e))
<1>1. \A b \in Buffers : Page(<<Alloc(b), Drop(b)>>)
  BY HeldPage
<1>2. Page(config_page)
  <2>1. <<Alloc("buf"), Drop("buf"), Alloc("ap_ip"), Drop("ap_ip")>>
          = <<Alloc("buf"), Drop("buf")>> \o <<Alloc("ap_ip"), Drop("ap_ip")>>
    OBVIOUS
  <2> QED
    BY <1>1, <2>1, ChunksPage, PageConcat DEF config_page, Buffers
<1>3. Page(scan_get_handler)
  <2>1. <<Alloc("ap_list"), Drop("ap_list"), Alloc("scan_page"), Drop("scan_page")>>
          = <<Alloc("ap_list"), Drop("ap_list")>> \o <<Alloc("scan_page"), Drop("scan_page")>>
    OBVIOUS
  <2> QED
    BY <1>1, <2>1, PageConcat DEF scan_get_handler, Buffers
<1>4. Page(scan_cmd)
  BY <1>1 DEF scan_cmd, Buffers
<1>5. Page(<<Alloc("buf"), Drop("buf")>> \o Chunks)
  BY <1>1, ChunksPage, PageConcat DEF Buffers
<1>6. ASSUME NEW e \in BOOLEAN
      PROVE  Page(config_export_handler(e)) /\ Page(config_import_fails(e))
  <2>1. Page(<<>>)
    BY EmptyForm DEF Form, Keeps, Page, None, Tidy
  <2> QED
    BY <1>1, <2>1, PageConcat DEF config_export_handler, config_import_fails, Buffers, When, None
<1> QED
  BY <1>2, <1>3, <1>4, <1>5, <1>6

\* The keys of a file are taken one by one.
LEMMA SmallSetsAreFinite ==
    ASSUME NEW a, NEW b, NEW c, NEW d, NEW e, NEW f, NEW g, NEW h
    PROVE  IsFiniteSet({a, b, c, d, e, f, g, h})
<1> DEFINE S == {a, b, c, d, e, f, g, h}
           s == <<a, b, c, d, e, f, g, h>>
<1>1. s \in Seq(S) /\ \A x \in S : \E n \in 1..Len(s) : s[n] = x
  OBVIOUS
<1> QED
  BY <1>1 DEF IsFiniteSet

LEMMA KeysAreFinite == IsFiniteSet(Keys)
<1>1. IsFiniteSet(Range(PppoeKeys)) /\ IsFiniteSet(Range(VpnKeys))
  <2>1. /\ PppoeKeys \in Seq(Range(PppoeKeys)) /\ VpnKeys \in Seq(Range(VpnKeys))
        /\ DOMAIN PppoeKeys = 1..Len(PppoeKeys) /\ DOMAIN VpnKeys = 1..Len(VpnKeys)
    BY DEF PppoeKeys, VpnKeys, Range
  <2> QED
    BY <2>1 DEF IsFiniteSet, Range
<1> DEFINE A == {"ssid", "passwd", "ent_username", "ent_identity", "eap_method", "ttls_phase2",
                 "cert_bundle", "no_time_chk"}
           B == {"static_ip", "subnet_mask", "gateway_addr", "mac", "ap_mac", "sta_band", "sta_ttl",
                 "ap_ssid"}
           C == {"ap_passwd", "ap_ip", "ap_dns", "hostname", "ap_nat", "ap_hidden", "ap_known_only",
                 "ap_authmode"}
           D == {"ap_channel", "wifi_cc", "tx_power", "ap_disabled", "web_disabled", "web_port",
                 "wan_access", "web_password"}
           E == {"session", "ddns_en", "ddns_prov", "ddns_host", "ddns_token", "ddns_pass",
                 "ddns_poll", "led_gpio"}
           F == {"led_low", "cstats_en", "rf_switch", "spi_clk_mhz", "tz", "log_level", "rc_enabled",
                 "rc_port"}
           G == {"rc_timeout", "portmap", "dhcp_res"}
<1>2. IsFiniteSet(A) /\ IsFiniteSet(B) /\ IsFiniteSet(C) /\ IsFiniteSet(D) /\ IsFiniteSet(E) /\ IsFiniteSet(F)
  BY SmallSetsAreFinite
<1>3. IsFiniteSet(G)
  <2>1. IsFiniteSet({"rc_timeout", "portmap", "dhcp_res", "portmap", "portmap", "portmap", "portmap",
                     "portmap"})
    BY SmallSetsAreFinite
  <2>2. G = {"rc_timeout", "portmap", "dhcp_res", "portmap", "portmap", "portmap", "portmap", "portmap"}
    OBVIOUS
  <2> QED
    BY <2>1, <2>2
<1>4. Keys = A \cup B \cup C \cup D \cup E \cup F \cup G \cup Range(PppoeKeys) \cup Range(VpnKeys)
  BY DEF Keys
<1> HIDE DEF A, B, C, D, E, F, G
<1> QED
  BY <1>1, <1>2, <1>3, <1>4, FS_Union

LEMMA SettingsListed ==
    ASSUME Types
    PROVE  SetToSeq(Settings) \in Seq(Settings)
<1>1. IsFiniteSet(Settings)
  BY KeysAreFinite, FS_Subset DEF Types, Settings
<1>2. Cardinality(Settings) \in Nat /\ ExistsBijection(1..Cardinality(Settings), Settings)
  BY <1>1, FS_CardinalityType
<1>3. \E f \in [1..Cardinality(Settings) -> Settings] : IsInjective(f)
  BY <1>2 DEF ExistsBijection, Bijection, Injection, IsInjective
<1>4. SetToSeq(Settings) \in [1..Cardinality(Settings) -> Settings]
  BY <1>3 DEF SetToSeq
<1> QED
  BY <1>2, <1>4

LEMMA config_import_Sound ==
    ASSUME Types, NEW x, Fields(x), NEW e \in BOOLEAN
    PROVE  Sound(config_import_handler(x, e))
<1> DEFINE u == <<Alloc("body")>> \o When(e, <<Alloc("decrypted"), Drop("body")>>)
           l == SetToSeq(Settings)
           m == Do(Wipe) \o PutsGiven(l, x)
           w == <<Drop("body"), Drop("decrypted"), Arm>>
<1>1. {Alloc("body"), Drop("body"), Alloc("decrypted"), Drop("decrypted"), Arm} \subseteq Effects
  BY HeapEffects DEF Buffers
<1>2. u \in Scripts /\ w \in Scripts
  BY <1>1 DEF Scripts, When, None
<1>3. /\ \A i \in DOMAIN u : u[i] \in {Alloc("body"), Alloc("decrypted"), Drop("body")}
      /\ DOMAIN w = {1, 2, 3} /\ w[1] = Drop("body") /\ w[2] = Drop("decrypted") /\ w[3] = Arm
  BY DEF When, None
<1>4. m \in Scripts /\ \A i \in DOMAIN m : m[i][1] \in {"wipe", "put", "skip"}
  <2>1. l \in Seq(Settings) /\ Settings \subseteq Keys
    BY SettingsListed DEF Types, Settings
  <2>2. Do(Wipe) \in Scripts
    <3>1. "*" \in Names /\ 0 \in Values
      BY DEF Names, Values, Bad
    <3>2. Wipe \in Effects
      BY <3>1, OneEffect
    <3> QED
      BY <3>2 DEF Do, Scripts
  <2>3. \A i \in DOMAIN l : PutsGiven(l, x)[i] \in Effects
    <3>1. \A i \in DOMAIN l : l[i] \in Names /\ x[l[i]] \in Values
      BY <2>1, FieldsTyped DEF Names
    <3> QED
      BY <3>1, OneEffect DEF PutsGiven
  <2>4. PutsGiven(l, x) \in Scripts
    BY <2>1, <2>3 DEF PutsGiven, Scripts
  <2>5. Placed(Do(Wipe), PutsGiven(l, x))
    BY <2>2, <2>4, Joined
  <2>6. \A i \in DOMAIN PutsGiven(l, x) : PutsGiven(l, x)[i][1] \in {"put", "skip"}
    BY DEF PutsGiven, Put, Skip
  <2>7. \A i \in DOMAIN Do(Wipe) : Do(Wipe)[i][1] = "wipe"
    BY DEF Do, Wipe
  <2> QED
    BY <2>5, <2>6, <2>7 DEF Placed
<1>5. Heapless(m) /\ Closed(m)
  BY <1>4 DEF Heapless, Closed
<1> HIDE DEF u, m, w
<1>6. u \o m \o w \in Scripts /\ Safe(u \o m \o w)
  <2>1. \A i \in DOMAIN u : u[i][1] \in {"alloc", "free"}
    BY <1>3 DEF Alloc, Drop
  <2>2. \A i \in DOMAIN w : w[i][1] \in {"free", "arm"}
    BY <1>3 DEF Drop, Arm
  <2>3. On(w[1], {"free"}, "body") /\ On(w[2], {"free"}, "decrypted") /\ 1 \in DOMAIN w /\ 2 \in DOMAIN w
    BY <1>3 DEF Drop, On
  <2>4. \A i \in DOMAIN u : u[i][1] = "alloc" => u[i][2] \in {"body", "decrypted"}
    BY <1>3 DEF Alloc, Drop
  <2>5. \A i \in DOMAIN u : u[i][1] = "alloc" => \E p \in DOMAIN w : On(w[p], {"free"}, u[i][2])
    BY <2>3, <2>4
  <2> QED
    BY <1>2, <1>4, <1>5, <2>1, <2>2, <2>5, WrappedIsSafe
<1>7. /\ \E p \in DOMAIN (u \o m \o w) : (u \o m \o w)[p][1] = "arm"
      /\ \A i \in DOMAIN (u \o m \o w) : (u \o m \o w)[i][1] # "save"
  <2>1. Placed(u, m) /\ u \o m \in Scripts
    BY <1>2, <1>4, Joined DEF Placed
  <2>2. Placed(u \o m, w)
    BY <1>2, <2>1, Joined
  <2>3. 3 \in DOMAIN w /\ w[3][1] = "arm"
    BY <1>3 DEF Arm
  <2>4. PICK p \in DOMAIN (u \o m \o w) : (u \o m \o w)[p] = w[3]
    BY <2>2, <2>3 DEF Placed
  <2>5. /\ \A i \in DOMAIN u : u[i][1] # "save"
        /\ \A i \in DOMAIN w : w[i][1] # "save"
        /\ \A i \in DOMAIN m : m[i][1] # "save"
    BY <1>3, <1>4 DEF Alloc, Drop, Arm
  <2>6. \A i \in DOMAIN (u \o m) : (u \o m)[i][1] # "save"
    BY <2>1, <2>5 DEF Placed
  <2>7. \A i \in DOMAIN (u \o m \o w) : (u \o m \o w)[i][1] # "save"
    BY <2>2, <2>5, <2>6 DEF Placed
  <2> QED
    BY <2>3, <2>4, <2>7
<1> QED
  BY <1>6, <1>7, RestartIsSound DEF config_import_handler, nvs_import_from_json_robust, u, m, w

LEMMA vpn_import_Sound ==
    ASSUME NEW psk \in {0, 2}, NEW optional \in {<<>>, <<"vpn_dns", "vpn_port", "vpn_ka", "vpn_rall">>}
    PROVE  Sound(vpn_import_handler(psk, optional))
<1> DEFINE file == [k \in Range(VpnKeys) |-> FileValue(k)]
           m == vpn_import_conf(psk, optional)
           u == <<Alloc("body")>>
           w == <<Drop("body"), Arm>>
<1>1. Form(m)
  <2>1. Range(VpnKeys) \subseteq Keys \ LiveKeys
    BY RestingKeys
  <2>2. /\ {"vpn_privkey", "vpn_pubkey", "vpn_psk", "vpn_endpoint", "vpn_ip", "vpn_mask", "vpn_dns",
            "vpn_port", "vpn_ka", "vpn_rall", "vpn_enabled"} \subseteq Range(VpnKeys)
    BY DEF VpnKeys, Range
  <2>3. \A k \in Range(VpnKeys) : file[k] \in Values
    BY DEF FileValue, Values, Bad
  <2>4. ASSUME NEW keys \in Seq(Range(VpnKeys))
        PROVE  Form(Puts(keys, file))
    <3>1. keys \in Seq(Names \ LiveKeys) /\ \A i \in DOMAIN keys : keys[i] \in Range(VpnKeys)
      BY <2>1 DEF Names
    <3>2. Lists(keys, file)
      BY <2>3, <3>1 DEF Lists
    <3> QED
      BY <3>2, ListForms
  <2> HIDE DEF file
  <2>5. Form(Puts(<<"vpn_privkey", "vpn_pubkey">>, file))
    <3>1. <<"vpn_privkey", "vpn_pubkey">> \in Seq(Range(VpnKeys))
      BY <2>2
    <3> QED
      BY <2>4, <3>1
  <2>6. Form(Puts(<<"vpn_endpoint", "vpn_ip", "vpn_mask">> \o optional, file))
    <3>1. /\ <<"vpn_endpoint", "vpn_ip", "vpn_mask">> \in Seq(Range(VpnKeys))
          /\ <<>> \in Seq(Range(VpnKeys))
          /\ <<"vpn_dns", "vpn_port", "vpn_ka", "vpn_rall">> \in Seq(Range(VpnKeys))
      BY <2>2
    <3>2. <<"vpn_endpoint", "vpn_ip", "vpn_mask">> \o optional \in Seq(Range(VpnKeys))
      <4>1. optional \in Seq(Range(VpnKeys))
        BY <3>1
      <4> QED
        BY <3>1, <4>1
    <3> QED
      BY <2>4, <3>2
  <2>7. Form(PutOnly("vpn_psk", psk)) /\ Form(PutOnly("vpn_enabled", 1))
    <3>1. {"vpn_psk", "vpn_enabled"} \subseteq Keys \ LiveKeys
      BY <2>1, <2>2
    <3>2. psk \in Values /\ 1 \in Values
      BY DEF Values, Bad
    <3>3. Rests("vpn_psk", psk) /\ Rests("vpn_enabled", 1)
      BY <3>1, <3>2, RestsHere
    <3> QED
      BY <3>3, RestingForms
  <2>8. Form(Puts(<<"vpn_privkey", "vpn_pubkey">>, file) \o PutOnly("vpn_psk", psk)
             \o Puts(<<"vpn_endpoint", "vpn_ip", "vpn_mask">> \o optional, file)
             \o PutOnly("vpn_enabled", 1))
    BY <2>5, <2>6, <2>7, FormConcat
  <2> QED
    BY <2>8 DEF vpn_import_conf, file
<1>2. u \in Scripts /\ w \in Scripts /\ m \in Scripts
  BY <1>1, HeapEffects DEF Buffers, Scripts, Form, Keeps
<1>3. /\ \A i \in DOMAIN u : u[i] = <<"alloc", "body", 0>>
      /\ DOMAIN w = {1, 2} /\ w[1] = <<"free", "body", 0>> /\ w[2] = <<"arm", "*", 0>>
  BY DEF Alloc, Drop, Arm
<1> HIDE DEF u, m, w
<1>4. u \o m \o w \in Scripts /\ Safe(u \o m \o w)
  BY <1>1, <1>2, <1>3, WrappedIsSafe DEF Form, On
<1>5. Keeps(u) /\ Keeps(w)
  BY <1>2, <1>3, NeutralKeeps DEF Writes, Lives
<1>6. Keeps(u \o m \o w)
  BY <1>1, <1>5, KeepsConcat DEF Form
<1> QED
  BY <1>4, <1>6, SafeIsSound DEF vpn_import_handler, u, m, w

-----------------------------------------------------------------------------
(* Every handler                                                           *)

LEMMA BeginForm ==
    ASSUME IInv, NEW name, NEW s, Form(s), Begin(name, s)
    PROVE  IInv'
BY FormIsSafe, BeginInv

LEMMA CliInv ==
    ASSUME IInv, NEW x \in Args, Cli(x)
    PROVE  IInv'
<1>1. Fields(x) /\ Passed(x)
  BY ArgsAreFields, FieldsPassed DEF IInv
<1>2. "web_password" \in Keys
  BY RestingKeys
<1> DEFINE Station ==
             \/ Begin("set_sta", set_sta(x))
             \/ Begin("set_sta_static", set_sta_static(x))
             \/ Begin("set_sta_static", set_sta_static_dhcp)
             \/ Begin("set_mac", set_mac("mac", x))
             \/ Begin("set_ap_mac", set_mac("ap_mac", x))
             \/ Begin("set_ap", set_ap(x))
             \/ Begin("set_ap_ip", set_ap_ip(x))
             \/ Begin("set_pppoe", set_pppoe_cmd(x))
             \/ Begin("set_vpn", set_vpn_cmd(x))
           Switch ==
             \/ Begin("set_sta_band", set_sta_band_cmd(x))
             \/ Begin("set_ttl", set_ttl_cmd(x))
             \/ Begin("set_hostname", set_hostname(x))
             \/ Begin("set_ap_nat", set_ap_nat_cmd(x))
             \/ Begin("set_ap_hidden", set_ap_hidden_cmd(x))
             \/ Begin("set_ap_known_only", set_ap_known_only_cmd(x))
             \/ Begin("set_ap_auth", set_ap_auth_cmd(x))
             \/ Begin("set_wifi_country", set_wifi_country_cmd(x))
             \/ Begin("set_led_lowactive", set_led_lowactive_cmd(x))
             \/ Begin("client_stats", client_stats_cmd(x))
             \/ Begin("set_rf_switch", set_rf_switch_cmd(x))
             \/ Begin("log_level", log_level_cmd(x))
           Free ==
             \/ Begin("set_ap_dns", set_ap_dns(x))
             \/ Begin("set_ap_channel", set_ap_channel_cmd(x))
             \/ Begin("set_tz", set_tz_cmd(x))
             \/ Begin("portmap", portmap(x))
             \/ Begin("dhcp_reserve", dhcp_reserve(x))
           Store ==
             \/ Begin("set_tx_power", set_tx_power_cmd(x))
             \/ Begin("set_led_gpio", set_led_gpio_cmd(x))
             \/ Begin("set_spi_clock", set_spi_clock_cmd(x))
             \/ \E k \in {"ddns_en", "ddns_prov", "ddns_host", "ddns_token", "ddns_pass", "ddns_poll"} :
                  Begin("ddns", ddns_cmd(k, x))
             \/ \E k \in {"rc_port", "rc_timeout"} : Begin("remote_console", remote_console_cmd(k, x))
           Other ==
             \/ \E on \in BOOLEAN : Begin("ap", ap_cmd(on))
             \/ \E a \in {"enable", "disable", "port", "wan_access"} : Begin("web_ui", web_ui_cmd(a, x))
             \/ Has(x, "web_password")
                /\ Begin("set_router_password", set_router_password_cmd(x["web_password"]))
<1>3. \/ Station \/ Switch \/ Free \/ Store \/ Other
      \/ Begin("scan", scan_cmd) \/ Begin("factory_reset", factory_reset)
  BY Zenon DEF Cli
<1>4. CASE Station
  BY <1>1, <1>4, BeginForm, set_sta_Form, set_sta_static_Form, set_mac_Form, set_ap_Form,
     set_ap_ip_Form, TableForms
<1>5. CASE Switch
  BY <1>1, <1>5, BeginForm, SwitchForms
<1>6. CASE Free
  BY <1>1, <1>6, BeginForm, FreeForms
<1>7. CASE Store
  BY <1>1, <1>7, BeginForm, StoredForms
<1>8. CASE Other
  <2>1. x["web_password"] \in Values
    BY <1>1, <1>2, FieldsTyped
  <2> QED
    BY <1>1, <1>8, <2>1, BeginForm, ap_cmd_Form, web_ui_cmd_Form, PasswordForms
<1>9. CASE Begin("scan", scan_cmd)
  BY <1>9, HeapPages, AnswerIsSound, EmptyForm, BeginInv
<1>10. CASE Begin("factory_reset", factory_reset)
  BY <1>10, factory_reset_Sound, BeginInv
<1> QED
  BY <1>3, <1>4, <1>5, <1>6, <1>7, <1>8, <1>9, <1>10

LEMMA WebInv ==
    ASSUME IInv, NEW x \in Args, Web(x)
    PROVE  IInv'
<1>1. Fields(x) /\ Types /\ x["web_password"] \in Values
  BY RestingKeys, ArgsAreFields, FieldsTyped DEF IInv
<1>2. ASSUME NEW name, NEW s, NEW t, Form(s), Page(t),
             \/ Begin(name, Query(s) \o t) \/ Begin(name, Query(s)) \/ Begin(name, t)
      PROVE  IInv'
  BY <1>2, AnswerIsSound, BeginInv
<1>3. /\ Page(index_page) /\ Page(mappings_page) /\ Page(pppoe_page) /\ Page(vpn_page)
      /\ Page(ddns_page) /\ Page(firewall_page) /\ Page(config_page)
  BY ChunksPage, firewall_page_Page, HeapPages
     DEF index_page, mappings_page, pppoe_page, vpn_page, ddns_page
<1> DEFINE Login ==
             \/ Begin("index", Query(index_logout) \o index_page)
             \/ Begin("index", Query(index_login(x["web_password"])))
             \/ Begin("index", Query(index_new_password(x["web_password"])))
             \/ Begin("scan_page", scan_get_handler)
           Small ==
             \/ Begin("config", Query(config_reset))
             \/ Begin("config", Query(config_disable_interface))
             \/ Begin("config", Query(config_rc_form(x)))
             \/ Begin("mappings", Query(mappings_known(x)))
             \/ Begin("mappings", mappings_get_handler(x))
             \/ Begin("firewall", firewall_get_handler)
           Table ==
             \/ Begin("pppoe", pppoe_get_handler(x) \o pppoe_page)
             \/ Begin("vpn", vpn_get_handler(x) \o vpn_page)
             \/ Begin("ddns", ddns_get_handler(x))
             \/ Begin("ddns", ddns_page)
           File ==
             \/ \E e \in BOOLEAN :
                  \/ Begin("config_export", config_export_handler(e))
                  \/ Begin("config_import", config_import_fails(e))
                  \/ Begin("config_import", config_import_handler(x, e))
             \/ \E psk \in {0, 2}, optional \in {<<>>, <<"vpn_dns", "vpn_port", "vpn_ka", "vpn_rall">>} :
                  Begin("vpn_import", vpn_import_handler(psk, optional))
<1>4. \/ Login \/ Small \/ Table \/ File
      \/ \E open \in BOOLEAN : Begin("config", config_get_handler(x, open))
      \/ Begin("setup", setup_get_handler(x))
  BY Zenon DEF Web
<1>5. CASE Login
  <2>1. Form(index_logout) /\ Form(index_login(x["web_password"])) /\ Form(index_new_password(x["web_password"]))
    BY <1>1, PasswordForms
  <2> QED
    BY <1>2, <1>3, <1>5, <2>1, HeapPages
<1>6. CASE Small
  <2>1. Form(mappings_dhcp(x) \o mappings_port(x))
    BY <1>1, SmallForms, FormConcat
  <2> QED
    BY <1>1, <1>2, <1>3, <1>6, <2>1, SmallForms, EmptyForm DEF mappings_get_handler, firewall_get_handler
<1>7. CASE Table
  <2>1. /\ Sound(pppoe_get_handler(x) \o pppoe_page) /\ Sound(vpn_get_handler(x) \o vpn_page)
        /\ Sound(ddns_get_handler(x)) /\ Sound(ddns_page)
    BY <1>1, <1>3, TablePages, PageIsSound, SafeIsSound, EmptyForm, AnswerIsSound
  <2> QED
    BY <1>7, <2>1, BeginInv
<1>8. CASE File
  BY <1>1, <1>8, HeapPages, EmptyForm, AnswerIsSound, config_import_Sound, vpn_import_Sound, BeginInv
<1>9. CASE \E open \in BOOLEAN : Begin("config", config_get_handler(x, open))
  <2>1. PICK open \in BOOLEAN : Begin("config", config_get_handler(x, open))
    BY <1>9
  <2>2. Form(config_ap_form(x, open) \o config_sta_form(x) \o config_static_form(x))
    BY <1>1, config_ap_form_Form, config_sta_form_Form, SmallForms, FormConcat
  <2> QED
    BY <1>2, <1>3, <2>1, <2>2 DEF config_get_handler
<1>10. CASE Begin("setup", setup_get_handler(x))
  <2> DEFINE s == setup_ap_form(x) \o setup_sta_form(x)
             t == <<Alloc("buf"), Drop("buf")>>
  <2>1. Form(s)
    BY <1>1, setup_ap_form_Form, setup_sta_form_Form, FormConcat
  <2>2. Page(t \o Chunks) /\ t \in Scripts /\ Chunks \in Scripts
    BY HeapPages, HeldPage, ChunksPage DEF Page, Buffers
  <2>3. Query(s) \in Scripts
    BY <2>1, QuerySafe DEF Keeps
  <2> HIDE DEF s, t
  <2>4. Query(s) \o (t \o Chunks) = Query(s) \o t \o Chunks
    BY <2>2, <2>3 DEF Scripts
  <2> QED
    BY <1>2, <1>10, <2>1, <2>2, <2>4 DEF setup_get_handler, s, t
<1> QED
  BY <1>4, <1>5, <1>6, <1>7, <1>8, <1>9, <1>10

\* A step of the configuration, whatever its handler is, keeps the invariant.
LEMMA NextInv ==
    ASSUME IInv, [ConfigNext]_cfgvars
    PROVE  IInv'
<1>1. CASE \E x \in Args : job = <<>> /\ (Cli(x) \/ Web(x))
  BY <1>1, CliInv, WebInv
<1>2. CASE Step
  BY <1>2, TypesStep, LiveStep, HeldStep DEF IInv
<1>3. CASE UNCHANGED cfgvars
  BY <1>3 DEF cfgvars, IInv, Types, LiveInv, HeldInv, WillAgree, Settings, Seen, Watched
<1> QED
  BY <1>1, <1>2, <1>3 DEF ConfigNext

LEMMA InitInv ==
    ASSUME ConfigInit
    PROVE  IInv
<1>1. watch \subseteq Keys \cup {"heap"}
  BY TogetherAssumption DEF ConfigInit
<1>2. Types
  <2>1. nvs \in [Settings -> Values]
    BY DEF ConfigInit, FirstStart, Settings, Values
  <2>2. run \in [Settings -> Values]
    BY <2>1, LoadedTyped DEF ConfigInit, FirstStart, LoadAll
  <2>3. /\ job = <<>> /\ at = 0 /\ handler = "none" /\ timer = FALSE /\ failed = FALSE
        /\ <<>> \in Scripts
    BY DEF ConfigInit, FirstStart, Scripts
  <2> QED
    BY <1>1, <2>1, <2>2, <2>3 DEF Types
<1>3. LiveInv
  <2>1. job = <<>>
    BY DEF ConfigInit, FirstStart
  <2>2. \A k \in LiveKeys \cap Settings : InForce(k, nvs[k], run[k]) /\ nvs[k] \in Values /\ run[k] \in Values
    BY <1>2 DEF ConfigInit, FirstStart, LoadAll, InForce, Types
  <2>3. <<>> \in Scripts
    BY DEF Scripts
  <2>4. WillAgree /\ Settled(job)
    BY <2>1, <2>2, <2>3, AgreesIdle DEF WillAgree, Settled
  <2> QED
    BY <2>1, <2>4 DEF LiveInv, Lasting
<1>4. HeldInv
  BY DEF ConfigInit, FirstStart, HeldInv, Tidy, Guarded
<1> QED
  BY <1>2, <1>3, <1>4 DEF IInv

\* The configuration keeps its types, a running handler brings NVS and the globals into
\* agreement or restarts the router, and releases what it holds before it can return.
THEOREM Invariance == ConfigSpec => []IInv
<1>1. ConfigInit => IInv
  BY InitInv
<1>2. IInv /\ [ConfigNext]_cfgvars => IInv'
  BY NextInv
<1> QED
  BY <1>1, <1>2, PTL DEF ConfigSpec

\* However the console and the pages change settings, with clients that go away, restarts and
\* checked writes that fail in between: app_main() would load what is in force, unless a
\* write failed that nobody checks.
THEOREM ConfigurationAgrees == ConfigSpec => []LiveAgrees
<1>1. IInv => LiveAgrees
  <2> SUFFICES ASSUME IInv, job = <<>>, ~failed, ~timer, NEW k \in LiveKeys \cap Settings
               PROVE  InForce(k, nvs[k], run[k])
    BY DEF LiveAgrees, InForce
  <2>1. WillAgree /\ at = 0 /\ 1 \in Cuts(job)
    BY DEF IInv, Types, LiveInv, Restarting, Cuts
  <2>2. Agrees(job, 0, 1, k, nvs[k], run[k])
    BY <2>1 DEF WillAgree
  <2> QED
    BY <2>2 DEF Agrees, Leaves
<1> QED
  BY <1>1, Invariance, PTL

\* No page sends a chunk, and no handler ends, while it holds a buffer or acl_lock().
THEOREM HandlersRelease == ConfigSpec => []NothingHeld
<1>1. IInv => NothingHeld
  <2> SUFFICES ASSUME IInv, job # <<>>, Effect[1] = "send"
               PROVE  held = {}
    BY DEF NothingHeld, IInv, HeldInv
  <2>1. at \in Leaving(job) /\ at \in Nat
    BY DEF IInv, Types, Scripts, Seen, Leaving, Effect
  <2> QED
    BY <2>1 DEF IInv, HeldInv, FreedIn
<1> QED
  BY <1>1, Invariance, PTL

-----------------------------------------------------------------------------
(* The tunnel is enabled last                                              *)

Mandatory == Range(VpnMandatory) \cap Settings

\* Where the tunnel is enabled, k is stored by then.
EnabledAfter(s, p, k, c) ==
    \A j \in DOMAIN s : j >= p /\ On(s[j], Writes, "vpn_enabled") =>
      c = 2 \/ \E i \in DOMAIN s : p <= i /\ i < j /\ On(s[i], Writes, k)

\* Nothing takes a mandatory value away, and nobody looks whether a write fails.
Stores(s, k) ==
    \A i \in DOMAIN s : s[i][1] \notin {"wipe", "save"} /\ (On(s[i], Writes, k) => s[i][3] = 2)

EnableInv ==
    handler = "vpn_import" /\ "vpn_enabled" \in Settings /\ ~failed =>
      \A k \in Mandatory : Stores(job, k) /\ EnabledAfter(job, at, k, nvs[k])

LEMMA EnableGoOn ==
    ASSUME Types, job # <<>>, NEW k \in Mandatory, NEW c,
           Stores(job, k), EnabledAfter(job, at, k, nvs[k]), NextEffect,
           c = IF On(Effect, Writes, k) THEN Effect[3] ELSE nvs[k]
    PROVE  Stores(job', k) /\ EnabledAfter(job', at', k, c)
<1> DEFINE after == {i \in Seen(job) : i > at}
<1>1. /\ job \in Scripts /\ at \in DOMAIN job /\ after \in SUBSET DOMAIN job
      /\ \A i \in DOMAIN job : i \in Nat
  BY DEF Types, Seen, Scripts
<1>2. \/ job' = <<>>
      \/ job' = job /\ at' \in after /\ \A i \in after : at' <= i
  BY <1>1, GoesOn DEF NextEffect
<1>3. CASE job' = <<>>
  BY <1>3 DEF Stores, EnabledAfter
<1>4. CASE job' = job /\ at' \in after /\ \A i \in after : at' <= i
  <2>1. ASSUME NEW j \in DOMAIN job, j >= at', On(job[j], Writes, "vpn_enabled")
        PROVE  c = 2 \/ \E i \in DOMAIN job : at' <= i /\ i < j /\ On(job[i], Writes, k)
    <3>1. CASE nvs[k] = 2
      BY <1>1, <3>1 DEF Stores, Effect
    <3>2. CASE nvs[k] # 2
      <4>1. PICK i \in DOMAIN job : at <= i /\ i < j /\ On(job[i], Writes, k)
        BY <1>1, <1>4, <2>1, <3>2 DEF EnabledAfter
      <4>2. i \in Seen(job)
        BY <4>1 DEF Seen, Watched, On, Writes, Mandatory, Settings
      <4>3. i = at \/ at' <= i
        BY <1>1, <1>4, <4>1, <4>2
      <4> QED
        BY <1>1, <4>1, <4>3 DEF Stores, Effect
    <3> QED
      BY <3>1, <3>2
  <2> QED
    BY <1>4, <2>1 DEF EnabledAfter
<1> QED
  BY <1>2, <1>3, <1>4

LEMMA EnableStep ==
    ASSUME Types, EnableInv, Step
    PROVE  EnableInv'
<1> SUFFICES ASSUME handler' = "vpn_import", ("vpn_enabled" \in Settings)', ~failed', NEW k \in Mandatory'
             PROVE  Stores(job', k) /\ EnabledAfter(job', at', k, nvs'[k])
  BY DEF EnableInv
<1>1. Settings' = Settings /\ Mandatory' = Mandatory
  BY DEF Step, Settings, Mandatory, Write, WriteFails, EraseAll, SetLive, Hold, Release, SendChunk,
         PeerGone, ArmRestart, Restart
<1>2. CASE PeerGone \/ Restart
  BY <1>2 DEF PeerGone, Restart, GoOn
<1>3. CASE WriteFails
  <2>1. job # <<>> /\ handler = "vpn_import" /\ ~failed /\ Effect[1] = "save"
    BY <1>3 DEF WriteFails, NextChain, NextEffect, GoOn
  <2>2. Stores(job, k) /\ at \in DOMAIN job
    BY <1>1, <2>1 DEF EnableInv, Types, Seen
  <2> QED
    BY <2>1, <2>2 DEF Stores, Effect
<1>4. CASE Write \/ EraseAll \/ SetLive \/ Hold \/ Release \/ SendChunk \/ ArmRestart
  <2>1. job # <<>> /\ NextEffect /\ failed' = failed
    BY <1>4 DEF Write, EraseAll, SetLive, Hold, Release, SendChunk, ArmRestart
  <2>2. handler = "vpn_import"
    BY <2>1 DEF NextEffect, GoOn
  <2>3. Stores(job, k) /\ EnabledAfter(job, at, k, nvs[k])
    BY <1>1, <2>1, <2>2 DEF EnableInv
  <2>4. at \in DOMAIN job /\ k \in Settings /\ nvs \in [Settings -> Values]
    BY <1>1, <2>1 DEF Types, Seen, Mandatory
  <2>5. nvs'[k] = IF On(Effect, Writes, k) THEN Effect[3] ELSE nvs[k]
    <3>1. CASE Write
      BY <2>4, <3>1 DEF Write, On, Writes
    <3>2. CASE EraseAll
      BY <2>3, <2>4, <3>2 DEF EraseAll, Stores, Effect
    <3>3. CASE SetLive \/ Hold \/ Release \/ SendChunk \/ ArmRestart
      BY <3>3 DEF SetLive, Hold, Release, SendChunk, ArmRestart, On, Writes
    <3> QED
      BY <1>4, <3>1, <3>2, <3>3
  <2> QED
    BY <1>1, <2>1, <2>3, <2>5, EnableGoOn
<1> QED
  BY <1>2, <1>3, <1>4 DEF Step

LEMMA vpn_import_Enables ==
    ASSUME NEW psk \in {0, 2}, NEW optional \in {<<>>, <<"vpn_dns", "vpn_port", "vpn_ka", "vpn_rall">>},
           NEW k \in Range(VpnMandatory), NEW c
    PROVE  /\ Stores(vpn_import_handler(psk, optional), k)
           /\ EnabledAfter(vpn_import_handler(psk, optional), 1, k, c)
<1> DEFINE file == [l \in Range(VpnKeys) |-> FileValue(l)]
           s == vpn_import_handler(psk, optional)
           first == <<Alloc("body"), Put("vpn_privkey", 2), Put("vpn_pubkey", 2), Put("vpn_psk", psk),
                      Put("vpn_endpoint", 2), Put("vpn_ip", 2), Put("vpn_mask", 2)>>
           more == Puts(optional, file)
           last == <<Put("vpn_enabled", 1), Drop("body"), Arm>>
<1>1. /\ file["vpn_privkey"] = 2 /\ file["vpn_pubkey"] = 2 /\ file["vpn_endpoint"] = 2
      /\ file["vpn_ip"] = 2 /\ file["vpn_mask"] = 2
  BY DEF FileValue, Flags, Range, VpnKeys
<1>2. k \in {"vpn_privkey", "vpn_pubkey", "vpn_endpoint", "vpn_ip"}
  BY DEF VpnMandatory, Range
<1> HIDE DEF file
<1>3. s = first \o more \o last
  <2>1. CASE optional = <<>>
    BY <1>1, <2>1 DEF vpn_import_handler, vpn_import_conf, Puts, PutOnly, file
  <2>2. CASE optional = <<"vpn_dns", "vpn_port", "vpn_ka", "vpn_rall">>
    BY <1>1, <2>2 DEF vpn_import_handler, vpn_import_conf, Puts, PutOnly, file
  <2> QED
    BY <2>1, <2>2
<1>4. /\ DOMAIN more = DOMAIN optional /\ DOMAIN optional = 1..Len(optional) /\ Len(optional) \in Nat
      /\ \A i \in DOMAIN more : /\ more[i][1] = "put"
                                /\ more[i][2] \in {"vpn_dns", "vpn_port", "vpn_ka", "vpn_rall"}
  BY DEF Puts, Put
<1>5. \A e \in {Alloc("body"), Put("vpn_psk", psk), Put("vpn_mask", 2), Drop("body"), Arm} :
        ~On(e, Writes, "vpn_enabled") /\ ~On(e, Writes, k) /\ e[1] \notin {"wipe", "save"}
  BY <1>2 DEF On, Writes, Alloc, Put, Drop, Arm
<1>6. /\ \A l \in {"vpn_privkey", "vpn_pubkey", "vpn_endpoint", "vpn_ip"} :
           /\ ~On(Put(l, 2), Writes, "vpn_enabled") /\ Put(l, 2)[1] \notin {"wipe", "save"}
           /\ Put(l, 2)[3] = 2 /\ On(Put(l, 2), Writes, l)
      /\ ~On(Put("vpn_enabled", 1), Writes, k) /\ Put("vpn_enabled", 1)[1] \notin {"wipe", "save"}
  BY <1>2 DEF On, Writes, Put
<1>7. DOMAIN first = 1..7 /\ DOMAIN last = 1..3 /\ Len(first) = 7 /\ Len(last) = 3
  OBVIOUS
<1>8. /\ \A i \in DOMAIN first : /\ ~On(first[i], Writes, "vpn_enabled") /\ first[i][1] \notin {"wipe", "save"}
                                 /\ On(first[i], Writes, k) => first[i][3] = 2
      /\ \E i \in DOMAIN first : On(first[i], Writes, k)
  BY <1>2, <1>5, <1>6
<1>9. \A i \in DOMAIN last : ~On(last[i], Writes, k) /\ last[i][1] \notin {"wipe", "save"}
  BY <1>5, <1>6
<1>10. \A i \in DOMAIN more : /\ ~On(more[i], Writes, "vpn_enabled") /\ more[i][1] \notin {"wipe", "save"}
                              /\ ~On(more[i], Writes, k)
  BY <1>2, <1>4 DEF On
<1>11. first \in Scripts /\ more \in Scripts /\ last \in Scripts
  <2>1. {"vpn_privkey", "vpn_pubkey", "vpn_psk", "vpn_endpoint", "vpn_ip", "vpn_mask", "vpn_enabled",
         "vpn_dns", "vpn_port", "vpn_ka", "vpn_rall"} \subseteq Range(VpnKeys)
    BY DEF VpnKeys, Range
  <2>2. Range(VpnKeys) \subseteq Names
    BY RestingKeys DEF Names
  <2>3. psk \in Values /\ 1 \in Values /\ 2 \in Values /\ \A l \in Range(VpnKeys) : file[l] \in Values
    BY DEF Values, Bad, FileValue, file
  <2>4. \A l \in Range(VpnKeys), v \in Values : Put(l, v) \in Effects
    BY <2>2, OneEffect
  <2>5. {Alloc("body"), Drop("body"), Arm} \subseteq Effects
    BY HeapEffects DEF Buffers
  <2>6. /\ Put("vpn_privkey", 2) \in Effects /\ Put("vpn_pubkey", 2) \in Effects
        /\ Put("vpn_psk", psk) \in Effects /\ Put("vpn_endpoint", 2) \in Effects
        /\ Put("vpn_ip", 2) \in Effects /\ Put("vpn_mask", 2) \in Effects
        /\ Put("vpn_enabled", 1) \in Effects
    BY <2>1, <2>3, <2>4
  <2>7. first \in Scripts /\ last \in Scripts
    BY <2>5, <2>6 DEF Scripts
  <2>8. \A i \in DOMAIN optional : more[i] \in Effects
    <3>1. \A i \in DOMAIN optional : optional[i] \in Range(VpnKeys)
      BY <2>1
    <3> HIDE DEF file
    <3>2. \A i \in DOMAIN optional : more[i] = Put(optional[i], file[optional[i]])
      BY DEF Puts
    <3> QED
      BY <2>3, <2>4, <3>1, <3>2
  <2>9. more \in Scripts
    BY <1>4, <2>8 DEF Puts, Scripts
  <2> QED
    BY <2>7, <2>9
<1> HIDE DEF first, more, last, s
<1>12. Placed(first, more) /\ Placed(first \o more, last)
  <2>1. Placed(first, more)
    BY <1>11, Joined
  <2>2. first \o more \in Scripts
    BY <2>1 DEF Placed
  <2> QED
    BY <1>11, <2>1, <2>2, Joined
<1>13. /\ \A i \in DOMAIN s : \/ \E l \in DOMAIN first : i = l /\ s[i] = first[l]
                              \/ \E l \in DOMAIN more : i = 7 + l /\ s[i] = more[l]
                              \/ \E l \in DOMAIN last : i > 7 /\ s[i] = last[l]
       /\ \A i \in DOMAIN first : i \in DOMAIN s /\ s[i] = first[i]
  <2>1. ASSUME NEW i \in DOMAIN s
        PROVE  \/ \E l \in DOMAIN first : i = l /\ s[i] = first[l]
               \/ \E l \in DOMAIN more : i = 7 + l /\ s[i] = more[l]
               \/ \E l \in DOMAIN last : i > 7 /\ s[i] = last[l]
    <3>0. i \in Nat /\ Len(first \o more) \in Nat /\ Len(first \o more) >= 7
      BY <1>3, <1>7, <1>12 DEF Placed
    <3>1. CASE i \in DOMAIN (first \o more) /\ s[i] = (first \o more)[i]
      <4>1. \/ i \in DOMAIN first /\ s[i] = first[i]
            \/ i > 7 /\ i - 7 \in DOMAIN more /\ s[i] = more[i - 7]
        BY <1>7, <1>12, <3>1 DEF Placed
      <4>2. i > 7 => i = 7 + (i - 7)
        BY <3>0
      <4> QED
        BY <4>1, <4>2
    <3>2. CASE i > Len(first \o more) /\ \E l \in DOMAIN last : s[i] = last[l]
      <4>1. i > 7
        BY <3>0, <3>2
      <4> QED
        BY <3>2, <4>1
    <3> QED
      BY <1>3, <1>12, <3>1, <3>2 DEF Placed
  <2>2. \A i \in DOMAIN first : i \in DOMAIN s /\ s[i] = first[i]
    BY <1>3, <1>12 DEF Placed
  <2> QED
    BY <2>1, <2>2
<1>14. Stores(s, k)
  BY <1>7, <1>8, <1>9, <1>10, <1>13 DEF Stores
<1>15. \A j \in DOMAIN s : j \in Nat /\ (On(s[j], Writes, "vpn_enabled") => j > 7)
  BY <1>3, <1>7, <1>8, <1>10, <1>12, <1>13 DEF Placed
<1>16. PICK i \in 1..7 : i \in DOMAIN s /\ On(s[i], Writes, k)
  BY <1>7, <1>8, <1>13
<1>17. EnabledAfter(s, 1, k, c)
  BY <1>15, <1>16 DEF EnabledAfter
<1> QED
  BY <1>14, <1>17 DEF s

LEMMA EnableBegin ==
    ASSUME Types, NEW psk \in {0, 2}, NEW optional \in {<<>>, <<"vpn_dns", "vpn_port", "vpn_ka", "vpn_rall">>},
           vpn_import_handler(psk, optional) \in Scripts,
           Begin("vpn_import", vpn_import_handler(psk, optional))
    PROVE  EnableInv'
<1> DEFINE s == vpn_import_handler(psk, optional)
<1> SUFFICES ASSUME handler' = "vpn_import", NEW k \in Mandatory'
             PROVE  Stores(job', k) /\ EnabledAfter(job', at', k, nvs'[k])
  BY DEF EnableInv
<1>1. k \in Range(VpnMandatory) /\ k \in Settings /\ s \in Scripts
  BY DEF Mandatory, Begin, Settings
<1>2. Stores(s, k) /\ EnabledAfter(s, 1, k, nvs'[k])
  BY <1>1, vpn_import_Enables
<1>3. GoOn("vpn_import", s, Seen(s)) /\ Seen(s) \in SUBSET DOMAIN s
  BY DEF Begin, Seen
<1> HIDE DEF s
<1>4. \/ Seen(s) = {} /\ job' = <<>> /\ handler' = "none"
      \/ job' = s /\ at' \in Seen(s) /\ \A i \in Seen(s) : at' <= i
  BY <1>1, <1>3, GoesOn
<1>5. \A i \in DOMAIN s : On(s[i], Writes, k) => i \in Seen(s)
  BY <1>1 DEF Seen, Watched, On, Writes, Settings
<1>6. \A i \in DOMAIN s : i \in Nat /\ 1 <= i
  BY <1>1 DEF Scripts
<1> QED
  BY <1>2, <1>4, <1>5, <1>6 DEF EnabledAfter

LEMMA OtherBegins ==
    ASSUME NEW name, name # "vpn_import", NEW s, Begin(name, s)
    PROVE  EnableInv'
BY DEF Begin, GoOn, EnableInv

LEMMA EnableNext ==
    ASSUME IInv, EnableInv, [ConfigNext]_cfgvars
    PROVE  EnableInv'
<1>1. CASE \E x \in Args : job = <<>> /\ Cli(x)
  <2>1. PICK x \in Args : Cli(x)
    BY <1>1
  <2>2. \E name, s : name # "vpn_import" /\ Begin(name, s)
    BY <2>1 DEF Cli
  <2> QED
    BY <2>2, OtherBegins
<1>2. CASE \E x \in Args : job = <<>> /\ Web(x)
  <2>1. PICK x \in Args : Web(x)
    BY <1>2
  <2>2. \/ \E name, s : name # "vpn_import" /\ Begin(name, s)
        \/ \E psk \in {0, 2}, optional \in {<<>>, <<"vpn_dns", "vpn_port", "vpn_ka", "vpn_rall">>} :
             Begin("vpn_import", vpn_import_handler(psk, optional))
    BY <2>1 DEF Web
  <2> QED
    BY <2>2, OtherBegins, EnableBegin, vpn_import_Sound DEF IInv, Sound
<1>3. CASE Step
  BY <1>3, EnableStep DEF IInv
<1>4. CASE UNCHANGED cfgvars
  BY <1>4 DEF cfgvars, EnableInv, Settings, Mandatory, Stores, EnabledAfter
<1> QED
  BY <1>1, <1>2, <1>3, <1>4 DEF ConfigNext

\* vpn_import_conf() stores "vpn_enabled" after all mandatory values of the file: a power cut
\* in the middle of it leaves no tunnel enabled without its keys.
THEOREM TunnelEnabledLast == ConfigSpec => EnablesWhole
<1> DEFINE Changes ==
      handler = "vpn_import" /\ "vpn_enabled" \in Settings /\ ~failed
      /\ nvs["vpn_enabled"] # 1 /\ nvs'["vpn_enabled"] = 1
      => \A k \in Range(VpnMandatory) \cap Settings : nvs[k] = 2
<1>1. ConfigInit => EnableInv
  BY DEF ConfigInit, FirstStart, EnableInv
<1>2. IInv /\ EnableInv /\ [ConfigNext]_cfgvars => EnableInv'
  BY EnableNext
<1>3. IInv /\ EnableInv /\ [ConfigNext]_cfgvars => [Changes]_cfgvars
  <2> SUFFICES ASSUME IInv, EnableInv, ConfigNext, handler = "vpn_import", "vpn_enabled" \in Settings,
                      ~failed, nvs["vpn_enabled"] # 1, nvs'["vpn_enabled"] = 1, NEW k \in Mandatory
               PROVE  nvs[k] = 2
    BY DEF Mandatory
  <2>1. job # <<>> /\ at \in DOMAIN job /\ nvs \in [Settings -> Values] /\ job \in Scripts
    BY DEF IInv, Types, Seen
  <2>2. Stores(job, k) /\ EnabledAfter(job, at, k, nvs[k])
    BY DEF EnableInv
  <2>3. nvs' # nvs
    OBVIOUS
  <2>4. Step
    BY <2>1 DEF ConfigNext
  <2>5. Write \/ EraseAll
    BY <2>3, <2>4 DEF Step, WriteFails, SetLive, Hold, Release, SendChunk, PeerGone, ArmRestart, Restart
  <2>6. Write
    BY <2>1, <2>2, <2>5 DEF EraseAll, Stores, Effect
  <2>7. On(job[at], Writes, "vpn_enabled")
    BY <2>1, <2>6 DEF Write, On, Writes, Effect
  <2> QED
    BY <2>1, <2>2, <2>7 DEF EnabledAfter, Scripts
<1> QED
  BY <1>1, <1>2, <1>3, Invariance, PTL DEF ConfigSpec, EnablesWhole


=============================================================================
