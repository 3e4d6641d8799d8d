-------------------------- MODULE JogControlProofs --------------------------
(***************************************************************************)
(* Proofs about the momentary jogs, for any number of threads, pages, axes *)
(* and requests.                                                           *)
(*                                                                         *)
(* A lease carries the newest sequence its page has been granted, since a  *)
(* fresh request of the owner either renews it or ends it.  So a release   *)
(* that is handled late has a smaller sequence than the lease it must not  *)
(* end: no two requests of a page share one.  An axis whose stop has run   *)
(* stands still because only stops enter the controller until it returns.  *)
(***************************************************************************)
EXTENDS JogControl, TLAPS

\* What a server thread does before the manager has its command.
Routes(t) ==
    \/ \E p \in Pages, v \in Payloads : SendJog(t, p, v)
    \/ \E A \in (SUBSET Axes) \ {{}} : SendOther(t, "stop", A) \/ SendOther(t, "move", A)
    \/ Arbitrate(t) \/ RefuseClosed(t) \/ Supersede(t)

Velocities == UNION {[A -> Speeds \cup {0}] : A \in SUBSET Axes}

LEMMA ZerosAreVelocities ==
    ASSUME NEW A \in SUBSET Axes
    PROVE  Zeros(A) \in Velocities /\ DOMAIN Zeros(A) = A /\ \A a \in A : Zeros(A)[a] = 0
<1>1. Zeros(A) \in [A -> Speeds \cup {0}]
    BY DEF Zeros
<1>2. QED
    BY <1>1 DEF Velocities, Zeros

LEMMA PayloadsAreVelocities == Payloads \subseteq Velocities
    BY DEF Payloads, Velocities

LEMMA VelocitiesTyped ==
    ASSUME NEW v \in Velocities
    PROVE  DOMAIN v \subseteq Axes /\ \A a \in DOMAIN v : v[a] \in Speeds \cup {0}
    BY DEF Velocities

\* A request of a given kind.
LEMMA RequestTyped ==
    ASSUME NEW k \in {"jog", "stop", "move"}, NEW p \in Pages \cup {NoPage}, NEW n \in Nat,
           NEW v \in Velocities
    PROVE  [kind |-> k, page |-> p, seq |-> n, velocities |-> v] \in Requests
    BY DEF Requests, Velocities

LEMMA RequestFields ==
    ASSUME NEW r \in Requests, r # Blank
    PROVE  /\ r.kind \in {"jog", "stop", "move"} /\ r.page \in Pages \cup {NoPage}
           /\ r.seq \in Nat /\ r.velocities \in Velocities
           /\ r = [kind |-> r.kind, page |-> r.page, seq |-> r.seq, velocities |-> r.velocities]
    BY DEF Requests, Velocities

LEMMA BlankFields == Blank \in Requests /\ Blank.kind = "none" /\ Blank.seq = 0
    BY DEF Requests, Blank
-----------------------------------------------------------------------------
(* What a request looks like in each phase of its thread *)

Phases == {"idle", "sent", "supersede", "submit", "wait"}

\* A request under way names axes; a stop, and what supersedes without a page, is zeros.
RequestOK(t) ==
    /\ phase[t] # "idle" => request[t] # Blank
    /\ phase[t] = "sent" => request[t].kind = "jog" /\ request[t].page \in Pages
    /\ request[t].kind = "stop" => \A a \in DOMAIN request[t].velocities : request[t].velocities[a] = 0

ThreadsOK ==
    /\ phase \in [Callers -> Phases]
    /\ request \in [Callers -> Requests]
    /\ \A t \in Callers : RequestOK(t)

CallersOK ==
    /\ live \subseteq Callers /\ stops \subseteq Callers /\ ran \subseteq stops
    /\ busy \in Callers \cup {Nobody}

BooksOK ==
    /\ lease \in [Axes -> [owner : Pages \cup {NoPage}, speed : Speeds \cup {0}, seq : Nat]]
    /\ lastSeq \in [Pages -> [Axes -> Nat]]
    /\ released \in [Pages -> [Axes -> Nat]]
    /\ issued \in [Pages -> 0..MaxSequence] /\ others \in 0..MaxOthers
    /\ locked \in BOOLEAN /\ closed \in BOOLEAN
    /\ motion \in [Axes -> Speeds \cup {0, Programmed}]

JogTypes == ThreadsOK /\ CallersOK /\ BooksOK

LEMMA JogTypesImply == JogTypes => TypeOK
    BY DEF JogTypes, ThreadsOK, CallersOK, BooksOK, TypeOK, Phases

LEMMA JogTypesInit == Init => JogTypes
<1> SUFFICES ASSUME Init PROVE JogTypes
    OBVIOUS
<1>1. Rest \in [owner : Pages \cup {NoPage}, speed : Speeds \cup {0}, seq : Nat]
    BY DEF Rest
<1>2. BooksOK
  <2>1. lease \in [Axes -> [owner : Pages \cup {NoPage}, speed : Speeds \cup {0}, seq : Nat]]
    BY <1>1 DEF Init
  <2>2. lastSeq \in [Pages -> [Axes -> Nat]] /\ released \in [Pages -> [Axes -> Nat]]
    BY DEF Init, Zeros
  <2>3. issued \in [Pages -> 0..MaxSequence] /\ others \in 0..MaxOthers
    BY JogAssumption DEF Init
  <2>4. motion \in [Axes -> Speeds \cup {0, Programmed}]
    BY DEF Init, Zeros
  <2>5. QED
    BY <2>1, <2>2, <2>3, <2>4 DEF Init, BooksOK
<1>3. ThreadsOK
    BY BlankFields DEF Init, ThreadsOK, RequestOK, Phases
<1>4. CallersOK
    BY DEF Init, ArbiterInit, CallersOK
<1>5. QED
    BY <1>2, <1>3, <1>4 DEF JogTypes

\* A thread goes on with the same or another request.
LEMMA ThreadMoves ==
    ASSUME ThreadsOK, NEW t \in Callers, NEW label \in Phases, NEW r \in Requests,
           phase' = [phase EXCEPT ![t] = label], request' = [request EXCEPT ![t] = r],
           label # "idle" => r # Blank,
           label = "sent" => r.kind = "jog" /\ r.page \in Pages,
           r.kind = "stop" => \A a \in DOMAIN r.velocities : r.velocities[a] = 0
    PROVE  /\ ThreadsOK' /\ phase'[t] = label /\ request'[t] = r
           /\ \A u \in Callers \ {t} : phase'[u] = phase[u] /\ request'[u] = request[u]
<1>1. /\ phase' \in [Callers -> Phases] /\ request' \in [Callers -> Requests]
      /\ phase'[t] = label /\ request'[t] = r
      /\ \A u \in Callers \ {t} : phase'[u] = phase[u] /\ request'[u] = request[u]
    BY DEF ThreadsOK
<1>2. \A u \in Callers : RequestOK(u)'
  <2> TAKE u \in Callers
  <2>1. CASE u = t
    BY <1>1, <2>1 DEF RequestOK
  <2>2. CASE u # t
    BY <1>1, <2>2 DEF ThreadsOK, RequestOK
  <2>3. QED
    BY <2>1, <2>2
<1>3. QED
    BY <1>1, <1>2 DEF ThreadsOK

\* The same with its request unchanged, and the answer of a request.
LEMMA ThreadGoesOn ==
    ASSUME ThreadsOK, NEW t \in Callers, NEW label \in Phases, To(t, label), UNCHANGED request,
           label # "sent", phase[t] # "idle"
    PROVE  /\ ThreadsOK' /\ phase'[t] = label
           /\ \A u \in Callers \ {t} : phase'[u] = phase[u]
<1>1. request' = [request EXCEPT ![t] = request[t]] /\ request[t] \in Requests
    BY DEF ThreadsOK
<1>2. QED
    BY <1>1, ThreadMoves DEF To, ThreadsOK, RequestOK

LEMMA ThreadEnds ==
    ASSUME ThreadsOK, NEW t \in Callers, Answer(t)
    PROVE  /\ ThreadsOK' /\ phase'[t] = "idle" /\ request'[t] = Blank
           /\ \A u \in Callers \ {t} : phase'[u] = phase[u] /\ request'[u] = request[u]
<1>1. "idle" \in Phases
    BY DEF Phases
<1>2. QED
    BY <1>1, BlankFields, ThreadMoves DEF Answer, To
-----------------------------------------------------------------------------
(* Leases *)

\* The requests of a page that are still to be handled carry numbers of their own.
SentOK ==
    \A t \in Callers : phase[t] = "sent" =>
        LET p == request[t].page IN
        /\ request[t].seq \in 1..issued[p]
        /\ \A a \in Axes : lastSeq[p][a] # request[t].seq
        /\ \A u \in Callers : phase[u] = "sent" /\ request[u].page = p
                              /\ request[u].seq = request[t].seq => u = t

\* The registry's books: what it has seen was issued, a release it has handled is not
\* newer than what it has seen, and a lease is as new as that and newer than any release.
SequencesOK ==
    \A a \in Axes :
        /\ \A p \in Pages : released[p][a] <= lastSeq[p][a] /\ lastSeq[p][a] <= issued[p]
        /\ Leased(a) => /\ lease[a].seq = lastSeq[lease[a].owner][a]
                        /\ released[lease[a].owner][a] < lease[a].seq

LeaseInd == JogTypes /\ SentOK /\ SequencesOK

LEMMA LeaseStarts == Init => LeaseInd
<1> SUFFICES ASSUME Init PROVE LeaseInd
    OBVIOUS
<1>1. SentOK
    BY DEF Init, SentOK
<1>2. \A a \in Axes : ~Leased(a)
    BY DEF Init, Leased, Rest
<1>3. SequencesOK
    BY <1>2 DEF Init, SequencesOK, Zeros
<1>4. QED
    BY <1>1, <1>3, JogTypesInit DEF LeaseInd

\* What a step that issues and handles nothing needs to show.
LEMMA BooksStay ==
    ASSUME LeaseInd, JogTypes', UNCHANGED <<lastSeq, released, issued>>,
           \A t \in Callers : phase'[t] = "sent" => phase[t] = "sent" /\ request'[t] = request[t],
           \A a \in Axes : lease'[a] = lease[a] \/ lease'[a] = Rest
    PROVE  LeaseInd'
<1>1. SentOK'
    BY DEF LeaseInd, SentOK
<1>2. \A a \in Axes : Leased(a)' => Leased(a) /\ lease'[a] = lease[a]
    BY DEF Leased, Rest
<1>3. SequencesOK'
    BY <1>2 DEF LeaseInd, SequencesOK
<1>4. QED
    BY <1>1, <1>3 DEF LeaseInd

LEMMA SendJogStep ==
    ASSUME LeaseInd, NEW t \in Callers, NEW p \in Pages, NEW v \in Payloads, SendJog(t, p, v)
    PROVE  LeaseInd'
<1> DEFINE r == [kind |-> "jog", page |-> p, seq |-> issued[p] + 1, velocities |-> v]
<1>1. /\ issued[p] \in 0..MaxSequence /\ issued[p] < MaxSequence
      /\ issued' = [issued EXCEPT ![p] = issued[p] + 1]
      /\ phase' = [phase EXCEPT ![t] = "sent"] /\ request' = [request EXCEPT ![t] = r]
      /\ UNCHANGED <<arbiterVars, registryVars, others, motion, released>>
    BY DEF SendJog, To, LeaseInd, JogTypes, BooksOK
<1>2. r \in Requests /\ r # Blank /\ r.kind = "jog" /\ r.page = p /\ r.seq = issued[p] + 1
    BY <1>1, RequestTyped, PayloadsAreVelocities, BlankFields
<1> HIDE DEF r
<1>3. /\ ThreadsOK' /\ phase'[t] = "sent" /\ request'[t] = r
      /\ \A u \in Callers \ {t} : phase'[u] = phase[u] /\ request'[u] = request[u]
    BY <1>1, <1>2, ThreadMoves DEF LeaseInd, JogTypes, Phases
<1>4. /\ issued' \in [Pages -> 0..MaxSequence] /\ issued'[p] = issued[p] + 1
      /\ \A q \in Pages \ {p} : issued'[q] = issued[q]
    BY <1>1, JogAssumption DEF LeaseInd, JogTypes, BooksOK
<1>5. JogTypes'
    BY <1>1, <1>3, <1>4 DEF LeaseInd, JogTypes, BooksOK, CallersOK, arbiterVars, registryVars
<1>6. \A q \in Pages : issued[q] \in Nat /\ issued'[q] \in Nat /\ issued[q] <= issued'[q]
    BY <1>1, <1>4, JogAssumption DEF LeaseInd, JogTypes, BooksOK
<1>7. \A q \in Pages, a \in Axes : lastSeq[q][a] \in Nat /\ released[q][a] \in Nat
                                  /\ lastSeq[q][a] <= issued[q]
    BY DEF LeaseInd, JogTypes, BooksOK, SequencesOK
<1>8. SentOK'
  <2> SUFFICES ASSUME NEW u \in Callers, phase'[u] = "sent"
               PROVE  LET q == request'[u].page IN
                      /\ request'[u].seq \in 1..issued'[q]
                      /\ \A a \in Axes : lastSeq[q][a] # request'[u].seq
                      /\ \A w \in Callers : phase'[w] = "sent" /\ request'[w].page = q
                                            /\ request'[w].seq = request'[u].seq => w = u
    BY <1>1 DEF SentOK, registryVars
  <2>1. \A w \in Callers \ {t} : phase'[w] = "sent" =>
            /\ request'[w].page \in Pages
            /\ request'[w].seq \in 1..issued[request'[w].page]
            /\ \A a \in Axes : lastSeq[request'[w].page][a] # request'[w].seq
    BY <1>3 DEF LeaseInd, SentOK, JogTypes, ThreadsOK, RequestOK
  <2>2. CASE u = t
    <3>1. request'[u].page = p /\ request'[u].seq = issued[p] + 1
        BY <1>2, <1>3, <2>2
    <3>2. request'[u].seq \in 1..issued'[p]
        BY <1>4, <1>6, <3>1
    <3>3. \A a \in Axes : lastSeq[p][a] # issued[p] + 1
        BY <1>6, <1>7
    <3>4. \A w \in Callers \ {t} : phase'[w] = "sent" /\ request'[w].page = p
                                    => request'[w].seq # issued[p] + 1
        BY <1>6, <2>1
    <3>5. QED
        BY <2>2, <3>1, <3>2, <3>3, <3>4
  <2>3. CASE u # t
    <3>1. /\ request'[u] = request[u] /\ phase[u] = "sent"
        BY <1>3, <2>3
    <3>2. request'[u].seq \in 1..issued'[request'[u].page]
        BY <1>6, <2>1, <2>3
    <3>3. request'[u].page = p => request'[u].seq # issued[p] + 1
        BY <1>6, <2>1, <2>3
    <3>4. \A w \in Callers : phase'[w] = "sent" /\ request'[w].page = request'[u].page
                              /\ request'[w].seq = request'[u].seq => w = u
        BY <1>2, <1>3, <3>1, <3>3 DEF LeaseInd, SentOK
    <3>5. QED
        BY <2>1, <2>3, <3>2, <3>4
  <2>4. QED
    BY <2>2, <2>3
<1>9. SequencesOK'
  <2>1. \A q \in Pages, a \in Axes : lastSeq[q][a] <= issued'[q]
    BY <1>6, <1>7
  <2>2. QED
    BY <1>1, <2>1 DEF LeaseInd, SequencesOK, Leased, registryVars
<1>10. QED
    BY <1>5, <1>8, <1>9 DEF LeaseInd
\* JogCommandRegistry.arbitrate.
LEMMA ArbitrateStep ==
    ASSUME LeaseInd, NEW t \in Callers, Arbitrate(t)
    PROVE  LeaseInd'
<1> DEFINE r == request[t]
           p == r.page
           v == r.velocities
           n == r.seq
<1>1. /\ phase[t] = "sent" /\ r \in Requests /\ r # Blank /\ r.kind = "jog" /\ p \in Pages
      /\ n \in Nat /\ n <= issued[p] /\ n > 0
      /\ \A a \in Axes : lastSeq[p][a] # n
      /\ \A u \in Callers \ {t} : phase[u] = "sent" /\ request[u].page = p => request[u].seq # n
    BY DEF Arbitrate, LeaseInd, SentOK, JogTypes, ThreadsOK, RequestOK, BooksOK
<1>2. v \in Velocities /\ DOMAIN v \subseteq Axes /\ \A a \in DOMAIN v : v[a] \in Speeds \cup {0}
    BY <1>1, RequestFields, VelocitiesTyped
<1>3. /\ lease' = [a \in Axes |-> LeaseAfter(r, a)]
      /\ lastSeq' = [lastSeq EXCEPT ![p] =
            [a \in Axes |-> IF a \in DOMAIN v /\ Fresh(r, a) THEN n ELSE lastSeq[p][a]]]
      /\ released' = [released EXCEPT ![p] =
            [a \in Axes |-> IF a \in DOMAIN v /\ v[a] = 0 /\ n > released[p][a]
                            THEN n ELSE released[p][a]]]
      /\ UNCHANGED <<arbiterVars, locked, closed, pageVars, motion>>
    BY <1>1 DEF Arbitrate, LeaseInd, JogTypes, BooksOK
<1>4. /\ ThreadsOK' /\ phase'[t] # "sent"
      /\ \A u \in Callers \ {t} : phase'[u] = phase[u] /\ request'[u] = request[u]
  <2>1. CASE Answer(t)
    BY <2>1, ThreadEnds DEF LeaseInd, JogTypes
  <2>2. CASE /\ request' = [request EXCEPT ![t].velocities = [a \in Accepted(r) |-> v[a]]]
             /\ To(t, "submit")
    <3> DEFINE w == [a \in Accepted(r) |-> v[a]]
               q == [kind |-> "jog", page |-> p, seq |-> n, velocities |-> w]
    <3>1. w \in Velocities
      <4>1. Accepted(r) \subseteq DOMAIN v
        BY DEF Accepted
      <4>2. Accepted(r) \in SUBSET Axes /\ w \in [Accepted(r) -> Speeds \cup {0}]
        BY <1>2, <4>1
      <4>3. QED
        BY <4>2 DEF Velocities
    <3> HIDE DEF w
    <3>2. q \in Requests /\ q # Blank /\ q.kind = "jog"
        BY <1>1, <3>1, RequestTyped, BlankFields
    <3>3. request' = [request EXCEPT ![t] = q]
      <4>1. r = [kind |-> "jog", page |-> p, seq |-> n, velocities |-> v]
        BY <1>1, RequestFields
      <4>2. request' = [request EXCEPT ![t] = [r EXCEPT !.velocities = w]]
        BY <2>2 DEF w
      <4>3. [r EXCEPT !.velocities = w] = q
        BY <4>1
      <4>4. QED
        BY <4>2, <4>3
    <3> HIDE DEF q
    <3>4. QED
        BY <2>2, <3>2, <3>3, ThreadMoves DEF To, Phases, LeaseInd, JogTypes
  <2>3. QED
    BY <2>1, <2>2 DEF Arbitrate
<1> HIDE DEF r, p, v, n
<1>5. /\ p \in Pages /\ n \in Nat /\ n <= issued[p]
      /\ \A a \in Axes : lastSeq[p][a] # n /\ lastSeq[p][a] \in Nat /\ released[p][a] \in Nat
    BY <1>1 DEF LeaseInd, JogTypes, BooksOK
<1>6. /\ \A a \in Axes : lastSeq'[p][a] = IF a \in DOMAIN v /\ n > lastSeq[p][a] THEN n ELSE lastSeq[p][a]
      /\ \A q \in Pages \ {p} : lastSeq'[q] = lastSeq[q]
      /\ lastSeq' \in [Pages -> [Axes -> Nat]]
  <2>1. \A a : Fresh(r, a) <=> n > lastSeq[p][a]
    BY DEF Fresh, n, p
  <2>2. QED
    BY <1>3, <1>5, <2>1 DEF LeaseInd, JogTypes, BooksOK
<1>7. /\ \A a \in Axes : released'[p][a] = IF a \in DOMAIN v /\ v[a] = 0 /\ n > released[p][a]
                                          THEN n ELSE released[p][a]
      /\ \A q \in Pages \ {p} : released'[q] = released[q]
      /\ released' \in [Pages -> [Axes -> Nat]]
    BY <1>3, <1>5 DEF LeaseInd, JogTypes, BooksOK
<1>8. \A a \in Axes :
        \/ lease'[a] = lease[a] /\ (a \notin DOMAIN v \/ ~(n > lastSeq[p][a]) \/ Blocked(r, a))
        \/ lease'[a] = Rest
        \/ /\ lease'[a] = [owner |-> p, speed |-> v[a], seq |-> n]
           /\ a \in DOMAIN v /\ v[a] # 0 /\ n > lastSeq[p][a]
    BY <1>3 DEF LeaseAfter, Fresh, r, p, v, n
<1>9. JogTypes'
  <2>1. \A a \in Axes : lease'[a] \in [owner : Pages \cup {NoPage}, speed : Speeds \cup {0}, seq : Nat]
    <3> DEFINE Leases == [owner : Pages \cup {NoPage}, speed : Speeds \cup {0}, seq : Nat]
    <3>1. Rest \in Leases /\ \A a \in Axes : lease[a] \in Leases
        BY DEF Rest, LeaseInd, JogTypes, BooksOK
    <3>2. \A a \in DOMAIN v : [owner |-> p, speed |-> v[a], seq |-> n] \in Leases
      <4>1. \A a \in DOMAIN v : v[a] \in Speeds \cup {0}
        BY <1>2 DEF v
      <4>2. QED
        BY <1>5, <4>1
    <3> HIDE DEF Leases
    <3>3. \A a \in Axes : lease'[a] \in Leases
        BY <1>8, <3>1, <3>2
    <3>4. QED
        BY <3>3 DEF Leases
  <2>2. lease' \in [Axes -> [owner : Pages \cup {NoPage}, speed : Speeds \cup {0}, seq : Nat]]
    BY <1>3, <2>1
  <2>3. QED
    BY <1>3, <1>4, <1>6, <1>7, <2>2
    DEF LeaseInd, JogTypes, BooksOK, CallersOK, arbiterVars, pageVars
<1>10. SentOK'
  <2>1. \A u \in Callers : phase'[u] = "sent" => u # t /\ phase[u] = "sent" /\ request'[u] = request[u]
    BY <1>4
  <2>2. \A u \in Callers, a \in Axes : phase'[u] = "sent" =>
            lastSeq'[request[u].page][a] # request[u].seq
    <3> SUFFICES ASSUME NEW u \in Callers, NEW a \in Axes, phase'[u] = "sent"
                 PROVE  lastSeq'[request[u].page][a] # request[u].seq
        OBVIOUS
    <3>1. /\ u # t /\ phase[u] = "sent" /\ request[u].page \in Pages
          /\ lastSeq[request[u].page][a] # request[u].seq
        BY <2>1 DEF LeaseInd, SentOK, JogTypes, ThreadsOK, RequestOK
    <3>2. request[u].page = p => request[u].seq # n
        BY <1>1, <3>1 DEF p, n, r
    <3>3. QED
        BY <1>6, <3>1, <3>2
  <2>3. QED
    BY <1>3, <2>1, <2>2 DEF LeaseInd, SentOK, pageVars
<1>11. SequencesOK'
  <2> SUFFICES ASSUME NEW a \in Axes
               PROVE  /\ \A q \in Pages : released'[q][a] <= lastSeq'[q][a] /\ lastSeq'[q][a] <= issued'[q]
                      /\ Leased(a)' => /\ lease'[a].seq = lastSeq'[lease'[a].owner][a]
                                       /\ released'[lease'[a].owner][a] < lease'[a].seq
    BY DEF SequencesOK
  <2>1. /\ \A q \in Pages : released[q][a] <= lastSeq[q][a] /\ lastSeq[q][a] <= issued[q]
        /\ Leased(a) => /\ lease[a].seq = lastSeq[lease[a].owner][a]
                        /\ released[lease[a].owner][a] < lease[a].seq
    BY DEF LeaseInd, SequencesOK
  <2>2. issued' = issued
    BY <1>3 DEF pageVars
  <2>3. released'[p][a] <= lastSeq'[p][a] /\ lastSeq'[p][a] <= issued[p]
    BY <1>5, <1>6, <1>7, <2>1
  <2>4. \A q \in Pages : released'[q][a] <= lastSeq'[q][a] /\ lastSeq'[q][a] <= issued'[q]
    BY <1>6, <1>7, <2>1, <2>2, <2>3
  <2>5. ASSUME lease'[a] = lease[a], Leased(a),
               a \notin DOMAIN v \/ ~(n > lastSeq[p][a]) \/ Blocked(r, a)
        PROVE  /\ lease'[a].seq = lastSeq'[lease'[a].owner][a]
               /\ released'[lease'[a].owner][a] < lease'[a].seq
    <3>1. lease[a].owner \in Pages
        BY <2>5 DEF Leased, LeaseInd, JogTypes, BooksOK
    <3>2. CASE lease[a].owner # p
        BY <1>6, <1>7, <2>1, <2>5, <3>1, <3>2
    <3>3. CASE lease[a].owner = p
      <4>1. ~Blocked(r, a)
        BY <3>3 DEF Blocked, p
      <4>2. lastSeq'[p][a] = lastSeq[p][a]
        BY <1>6, <2>5, <4>1
      <4>3. released'[p][a] < lastSeq[p][a]
        <5>1. lastSeq[p][a] \in Nat /\ n \in Nat /\ n # lastSeq[p][a]
            BY <1>5
        <5>2. released[p][a] < lastSeq[p][a]
            BY <2>1, <2>5, <3>3
        <5>3. a \notin DOMAIN v \/ n < lastSeq[p][a]
            BY <2>5, <4>1, <5>1
        <5>4. released'[p][a] = released[p][a] \/ (a \in DOMAIN v /\ released'[p][a] = n)
            BY <1>7
        <5>5. QED
            BY <5>1, <5>2, <5>3, <5>4
      <4>4. QED
        BY <2>1, <2>5, <3>3, <4>2, <4>3
    <3>4. QED
        BY <3>2, <3>3
  <2>6. ASSUME lease'[a] = [owner |-> p, speed |-> v[a], seq |-> n],
               a \in DOMAIN v, v[a] # 0, n > lastSeq[p][a]
        PROVE  /\ lease'[a].seq = lastSeq'[lease'[a].owner][a]
               /\ released'[lease'[a].owner][a] < lease'[a].seq
    <3>1. lastSeq'[p][a] = n
        BY <1>6, <2>6
    <3>2. released'[p][a] < n
        BY <1>5, <1>7, <2>1, <2>6
    <3>3. QED
        BY <2>6, <3>1, <3>2
  <2>7. lease'[a] = Rest => ~Leased(a)'
    BY DEF Rest, Leased
  <2>8. lease'[a] = lease[a] /\ Leased(a)' => Leased(a)
    BY DEF Leased
  <2>9. QED
    BY <1>8, <2>4, <2>5, <2>6, <2>7, <2>8
<1>12. QED
    BY <1>9, <1>10, <1>11 DEF LeaseInd
LEMMA LeaseStep == LeaseInd /\ [Next]_vars => LeaseInd'
<1> SUFFICES ASSUME LeaseInd, [Next]_vars PROVE LeaseInd'
    OBVIOUS
<1> USE DEF LeaseInd, JogTypes
<1>0. Threads \subseteq Callers /\ Deadman \in Callers
    BY JogAssumption
<1>1. ASSUME NEW t \in Threads, NEW p \in Pages, NEW v \in Payloads, SendJog(t, p, v)
      PROVE  LeaseInd'
    BY <1>0, <1>1, SendJogStep
<1>2. ASSUME NEW t \in Threads, NEW k \in {"stop", "move"}, NEW A \in SUBSET Axes, SendOther(t, k, A)
      PROVE  LeaseInd'
  <2> DEFINE r == [kind |-> k, page |-> NoPage, seq |-> 0, velocities |-> Zeros(A)]
  <2>1. /\ others < MaxOthers /\ others' = others + 1
        /\ request' = [request EXCEPT ![t] = r] /\ To(t, "supersede")
        /\ UNCHANGED <<arbiterVars, registryVars, issued, motion, released>>
    BY <1>2 DEF SendOther
  <2>2. /\ r \in Requests /\ r # Blank
        /\ \A a \in DOMAIN r.velocities : r.velocities[a] = 0
    BY ZerosAreVelocities, RequestTyped, BlankFields
  <2> HIDE DEF r
  <2>3. ThreadsOK' /\ \A u \in Callers : phase'[u] = "sent" => phase[u] = "sent" /\ request'[u] = request[u]
    BY <1>0, <2>1, <2>2, ThreadMoves DEF To, Phases
  <2>4. others' \in 0..MaxOthers
    BY <2>1, JogAssumption DEF BooksOK
  <2>5. JogTypes'
    BY <2>1, <2>3, <2>4 DEF BooksOK, CallersOK, arbiterVars, registryVars
  <2>6. QED
    BY <2>1, <2>3, <2>5, BooksStay DEF registryVars
<1>3. ASSUME NEW t \in Threads, Arbitrate(t) PROVE LeaseInd'
    BY <1>0, <1>3, ArbitrateStep
<1>4. ASSUME NEW t \in Callers, Answer(t), \/ UNCHANGED arbiterVars
                                           \/ live' \subseteq Callers /\ stops' \subseteq Callers
                                              /\ ran' \subseteq stops' /\ busy' \in Callers \cup {Nobody},
             UNCHANGED <<lease, lastSeq, closed, pageVars, released>>,
             locked' \in BOOLEAN, motion' \in [Axes -> Speeds \cup {0, Programmed}]
      PROVE  LeaseInd'
  <2>1. ThreadsOK' /\ \A u \in Callers : phase'[u] = "sent" => phase[u] = "sent" /\ request'[u] = request[u]
    BY <1>4, ThreadEnds
  <2>2. JogTypes'
    BY <1>4, <2>1 DEF BooksOK, CallersOK, arbiterVars, pageVars
  <2>3. QED
    BY <1>4, <2>1, <2>2, BooksStay DEF pageVars
<1>5. ASSUME NEW t \in Threads, RefuseClosed(t) PROVE LeaseInd'
    BY <1>0, <1>4, <1>5 DEF RefuseClosed, registryVars, BooksOK
<1>6. ASSUME NEW t \in Threads, Supersede(t) PROVE LeaseInd'
  <2>1. /\ To(t, "submit") /\ phase[t] = "supersede" /\ UNCHANGED request
        /\ lease' = [a \in Axes |-> IF a \in DOMAIN request[t].velocities THEN Rest ELSE lease[a]]
        /\ UNCHANGED <<arbiterVars, lastSeq, locked, closed, pageVars, motion, released>>
    BY <1>6 DEF Supersede
  <2>2. ThreadsOK' /\ \A u \in Callers : phase'[u] = "sent" => phase[u] = "sent"
    BY <1>0, <2>1, ThreadGoesOn DEF Phases
  <2>3. JogTypes'
    BY <2>1, <2>2 DEF BooksOK, CallersOK, arbiterVars, pageVars, Rest
  <2>4. QED
    BY <2>1, <2>2, <2>3, BooksStay DEF pageVars
<1>7. CASE CloseRegistry
  <2>1. /\ closed' = TRUE /\ lease' = [a \in Axes |-> Rest]
        /\ UNCHANGED <<arbiterVars, lastSeq, locked, pageVars, phase, request, motion, released>>
    BY <1>7 DEF CloseRegistry
  <2>2. JogTypes'
    BY <2>1 DEF BooksOK, ThreadsOK, RequestOK, CallersOK, arbiterVars, pageVars, Rest
  <2>3. QED
    BY <2>1, <2>2, BooksStay DEF pageVars
<1>8. ASSUME NEW A \in SUBSET Axes, Expire(A) PROVE LeaseInd'
  <2> DEFINE r == [kind |-> "jog", page |-> NoPage, seq |-> 0, velocities |-> Zeros(A)]
  <2>1. /\ request' = [request EXCEPT ![Deadman] = r] /\ To(Deadman, "submit") /\ locked' = TRUE
        /\ lease' = [a \in Axes |-> IF a \in A THEN Rest ELSE lease[a]]
        /\ UNCHANGED <<arbiterVars, lastSeq, closed, pageVars, motion, released>>
    BY <1>8 DEF Expire
  <2>2. /\ r \in Requests /\ r # Blank
        /\ \A a \in DOMAIN r.velocities : r.velocities[a] = 0
    BY ZerosAreVelocities, RequestTyped, BlankFields
  <2> HIDE DEF r
  <2>3. ThreadsOK' /\ \A u \in Callers : phase'[u] = "sent" => phase[u] = "sent" /\ request'[u] = request[u]
    BY <1>0, <2>1, <2>2, ThreadMoves DEF To, Phases
  <2>4. JogTypes'
    BY <2>1, <2>3 DEF BooksOK, CallersOK, arbiterVars, pageVars, Rest
  <2>5. QED
    BY <2>1, <2>3, <2>4, BooksStay DEF pageVars
<1>9. ASSUME NEW t \in Callers, Submit(t) PROVE LeaseInd'
  <2>1. /\ phase[t] = "submit" /\ To(t, "wait") /\ (AcceptStop(t) \/ Accept(t))
        /\ UNCHANGED <<registryVars, pageVars, request, motion, released>>
    BY <1>9 DEF Submit
  <2>2. ThreadsOK' /\ \A u \in Callers : phase'[u] = "sent" => phase[u] = "sent"
    BY <2>1, ThreadGoesOn DEF Phases
  <2>3. CallersOK'
    BY <2>1 DEF CallersOK, Accept, AcceptStop
  <2>4. JogTypes'
    BY <2>1, <2>2, <2>3 DEF BooksOK, registryVars, pageVars
  <2>5. QED
    BY <2>1, <2>2, <2>4, BooksStay DEF registryVars, pageVars
<1>10. ASSUME NEW t \in Callers, Enter(t) PROVE LeaseInd'
  <2>1. Start(t) \/ StartStop(t)
    BY <1>10 DEF Enter
  <2>2. UNCHANGED <<registryVars, pageVars, phase, request, motion, released>>
    BY <1>10 DEF Enter
  <2>3. CallersOK'
    BY <2>1 DEF CallersOK, Start, StartStop
  <2>4. JogTypes'
    BY <2>2, <2>3 DEF BooksOK, ThreadsOK, RequestOK, registryVars, pageVars
  <2>5. QED
    BY <2>2, <2>4, BooksStay DEF registryVars, pageVars
<1>11. ASSUME NEW t \in Callers, Leave(t) PROVE LeaseInd'
  <2>1. /\ busy = t /\ Finish /\ motion' \in {motion, MotionAfter(request[t])}
        /\ UNCHANGED <<registryVars, pageVars, released>>
    BY <1>11 DEF Leave
  <2>2. CallersOK'
    BY <2>1 DEF CallersOK, Finish
  <2>3. motion' \in [Axes -> Speeds \cup {0, Programmed}]
    <3>1. \A a \in DOMAIN request[t].velocities : request[t] # Blank =>
              request[t].velocities[a] \in Speeds \cup {0}
        BY RequestFields, VelocitiesTyped DEF ThreadsOK
    <3>2. request[t] = Blank => DOMAIN request[t].velocities = {}
        BY DEF Blank
    <3>3. \A a \in DOMAIN request[t].velocities : request[t].velocities[a] \in Speeds \cup {0}
        BY <3>1, <3>2
    <3>4. MotionAfter(request[t]) \in [Axes -> Speeds \cup {0, Programmed}]
        BY <3>3 DEF MotionAfter, BooksOK
    <3>5. QED
        BY <2>1, <3>4 DEF BooksOK
  <2>4. CASE Answer(t)
    BY <1>4, <2>1, <2>2, <2>3, <2>4 DEF registryVars, BooksOK, CallersOK
  <2>5. CASE UNCHANGED <<phase, request>>
    <3>1. JogTypes'
        BY <2>1, <2>2, <2>3, <2>5 DEF BooksOK, ThreadsOK, RequestOK, registryVars, pageVars
    <3>2. QED
        BY <2>1, <2>5, <3>1, BooksStay DEF registryVars, pageVars
  <2>6. QED
    BY <1>11, <2>4, <2>5 DEF Leave
<1>12. ASSUME NEW t \in Callers, Superseded(t) PROVE LeaseInd'
    BY <1>4, <1>12 DEF Superseded, registryVars, BooksOK
<1>13. ASSUME NEW t \in Callers, Return(t) PROVE LeaseInd'
  <2>1. /\ Answer(t) /\ Discharge(t) /\ locked' = (locked /\ t # Deadman)
        /\ UNCHANGED <<lease, lastSeq, closed, pageVars, motion, released>>
    BY <1>13 DEF Return
  <2>2. CallersOK'
    BY <2>1 DEF CallersOK, Discharge
  <2>3. locked' \in BOOLEAN
    BY <2>1
  <2>4. QED
    BY <1>4, <2>1, <2>2, <2>3 DEF BooksOK, CallersOK
<1>14. CASE UNCHANGED vars
  <2>1. UNCHANGED <<arbiterVars, registryVars, pageVars, phase, request, motion, released>>
    BY <1>14 DEF vars
  <2>2. JogTypes'
    BY <2>1 DEF BooksOK, ThreadsOK, RequestOK, CallersOK, arbiterVars, registryVars, pageVars
  <2>3. QED
    BY <2>1, <2>2, BooksStay DEF registryVars, pageVars
<1>15. QED
    BY <1>1, <1>2, <1>3, <1>5, <1>6, <1>7, <1>8, <1>9, <1>10, <1>11, <1>12, <1>13, <1>14
    DEF Next, Serve, Exhausted

\* In the registry no late start overtakes a newer release of its page, in whatever
\* order the requests are handled (JogCommandRegistry.arbitrate).
THEOREM ReleasesWin == Spec => []LeaseInv
<1>1. LeaseInd => LeaseInv
  <2> SUFFICES ASSUME LeaseInd PROVE LeaseNewerThanRelease
    BY JogTypesImply DEF LeaseInd, LeaseInv
  <2> SUFFICES ASSUME NEW a \in Axes, Leased(a) PROVE lease[a].seq > released[lease[a].owner][a]
    BY DEF LeaseNewerThanRelease
  <2>1. lease[a].owner \in Pages /\ lease[a].seq \in Nat
    BY DEF Leased, LeaseInd, JogTypes, BooksOK
  <2>2. QED
    BY <2>1 DEF LeaseInd, SequencesOK, JogTypes, BooksOK
<1>2. QED
    BY <1>1, LeaseStarts, LeaseStep, PTL DEF Spec
\* A lease passes to another page only over a release, a stop, a move or the dead-man.
THEOREM LeasesAreNotStolen == Spec => LeaseNeverStolen
<1>1. ASSUME LeaseInd, [Next]_vars, NEW a \in Axes, Leased(a), lease'[a].owner # NoPage
      PROVE  lease'[a].owner = lease[a].owner
  <2>1. CASE \E t \in Threads : Arbitrate(t)
    <3>1. PICK t \in Threads : Arbitrate(t)
        BY <2>1
    <3>2. lease'[a] = LeaseAfter(request[t], a)
        BY <3>1 DEF Arbitrate
    <3>3. CASE Blocked(request[t], a)
        BY <3>2, <3>3 DEF LeaseAfter
    <3>4. CASE ~Blocked(request[t], a)
      <4>1. lease[a].owner = request[t].page
        BY <1>1, <3>4 DEF Blocked
      <4>2. lease'[a] \in {lease[a], Rest} \/ lease'[a].owner = request[t].page
        BY <3>2 DEF LeaseAfter
      <4>3. Rest.owner = NoPage
        BY DEF Rest
      <4>4. QED
        BY <1>1, <4>1, <4>2, <4>3
    <3>5. QED
        BY <3>3, <3>4
  <2>2. CASE lease'[a] \in {lease[a], Rest}
    BY <1>1, <2>2 DEF Rest
  <2>3. (\E t \in Threads : Arbitrate(t)) \/ lease'[a] \in {lease[a], Rest}
    BY <1>1 DEF Next, Serve, vars, SendJog, SendOther, RefuseClosed, Supersede, Submit, Enter,
                Leave, Superseded, Return, Expire, CloseRegistry, Exhausted, registryVars
  <2>4. QED
    BY <2>1, <2>2, <2>3
<1>2. ASSUME LeaseInd, [Next]_vars
      PROVE  [\A a \in Axes : Leased(a) /\ lease'[a].owner # NoPage =>
                  lease'[a].owner = lease[a].owner]_vars
    BY <1>1, <1>2
<1>3. QED
    BY <1>2, LeaseStarts, LeaseStep, PTL DEF Spec, LeaseNeverStolen
-----------------------------------------------------------------------------
(* Stops *)

\* Whoever the manager has accepted waits for it, and beside a stop that has run only
\* stops are in the controller.
StopInd ==
    /\ \A t \in Callers : t \in live \cup stops \/ busy = t => phase[t] = "wait"
    /\ \A t \in stops : IsSafetyStop(request[t])
    /\ live \cap stops = {} /\ busy \notin live \cup ran
    /\ ran # {} /\ busy # Nobody => busy \in stops
    /\ StoppedAxesStandStill

LEMMA StopStep == LeaseInd /\ StopInd /\ [Next]_vars => StopInd'
<1> SUFFICES ASSUME LeaseInd, StopInd, [Next]_vars PROVE StopInd'
    OBVIOUS
<1> USE DEF LeaseInd, JogTypes
<1>0. /\ Threads \subseteq Callers /\ Deadman \in Callers /\ Nobody \notin Callers
      /\ live \subseteq Callers /\ stops \subseteq Callers /\ ran \subseteq stops
    BY JogAssumption, ArbiterAssumption DEF CallersOK
\* A thread that the manager does not have takes another step or request.
<1>1. ASSUME NEW t \in Callers, t \notin live' \cup stops' \cup ran', busy' # t,
             live' \subseteq live, stops' \subseteq stops, ran' \subseteq ran, busy' = busy, motion' = motion,
             \A u \in Callers \ {t} : phase'[u] = phase[u] /\ request'[u] = request[u],
             ran' # {} => ran # {}, busy \in stops /\ ran' # {} => busy \in stops'
      PROVE  StopInd'
  <2>1. \A u \in stops' : request'[u] = request[u]
    BY <1>0, <1>1
  <2>2. StoppedAxesStandStill'
    <3> SUFFICES ASSUME NEW u \in ran', NEW a \in DOMAIN request'[u].velocities PROVE motion'[a] = 0
        BY DEF StoppedAxesStandStill
    <3>1. u \in ran /\ request'[u] = request[u]
        BY <1>0, <1>1
    <3>2. QED
        BY <1>1, <3>1 DEF StopInd, StoppedAxesStandStill
  <2>3. \A u \in stops' : IsSafetyStop(request[u])'
    BY <1>1, <2>1 DEF StopInd, IsSafetyStop
  <2>4. QED
    BY <1>0, <1>1, <2>2, <2>3 DEF StopInd
<1>2. ASSUME NEW t \in Callers, phase[t] # "wait", UNCHANGED <<arbiterVars, motion>>,
             \A u \in Callers \ {t} : phase'[u] = phase[u] /\ request'[u] = request[u]
      PROVE  StopInd'
    BY <1>0, <1>1, <1>2 DEF arbiterVars, StopInd
<1>3. ASSUME NEW t \in Callers, NEW label, To(t, label)
      PROVE  \A u \in Callers \ {t} : phase'[u] = phase[u]
    BY <1>3 DEF To, ThreadsOK
<1>4. ASSUME NEW t \in Callers, NEW r, request' = [request EXCEPT ![t] = r]
      PROVE  \A u \in Callers \ {t} : request'[u] = request[u]
    BY <1>4 DEF ThreadsOK
<1>5. ASSUME NEW t \in Threads, Routes(t) PROVE StopInd'
  <2>1. phase[t] # "wait" /\ UNCHANGED <<arbiterVars, motion>>
    BY <1>5 DEF Routes, SendJog, SendOther, Arbitrate, RefuseClosed, Supersede, pageVars
  <2>2. \A u \in Callers \ {t} : phase'[u] = phase[u]
    BY <1>0, <1>3, <1>5 DEF Routes, SendJog, SendOther, Arbitrate, RefuseClosed, Supersede, Answer
  <2>3. \A u \in Callers \ {t} : request'[u] = request[u]
    BY <1>0, <1>4, <1>5 DEF Routes, SendJog, SendOther, Arbitrate, RefuseClosed, Supersede, Answer,
                            ThreadsOK
  <2>4. QED
    BY <1>0, <1>2, <2>1, <2>2, <2>3
<1>6. ASSUME NEW A \in SUBSET Axes, Expire(A) PROVE StopInd'
  <2>1. phase[Deadman] # "wait" /\ UNCHANGED <<arbiterVars, motion>>
    BY <1>6 DEF Expire
  <2>2. \A u \in Callers \ {Deadman} : phase'[u] = phase[u] /\ request'[u] = request[u]
    BY <1>0, <1>3, <1>4, <1>6 DEF Expire
  <2>3. QED
    BY <1>0, <1>2, <2>1, <2>2
<1>7. CASE CloseRegistry \/ UNCHANGED vars
    BY <1>7 DEF CloseRegistry, vars, arbiterVars, StopInd, StoppedAxesStandStill, IsSafetyStop
<1>8. ASSUME NEW t \in Callers, Submit(t) PROVE StopInd'
  <2>1. /\ phase[t] = "submit" /\ UNCHANGED <<request, motion>> /\ To(t, "wait")
        /\ IF IsSafetyStop(request[t]) THEN AcceptStop(t) ELSE Accept(t)
    BY <1>8 DEF Submit
  <2>2. phase'[t] = "wait" /\ \A u \in Callers \ {t} : phase'[u] = phase[u]
    BY <2>1 DEF To, ThreadsOK
  <2>3. UNCHANGED <<ran, busy>>
    BY <2>1 DEF Accept, AcceptStop
  <2>4. /\ live' \subseteq live \cup {t} /\ stops \subseteq stops' /\ stops' \subseteq stops \cup {t}
        /\ \A u \in stops' : IsSafetyStop(request[u])
        /\ live' \cap stops' = {} /\ busy # t
    BY <2>1 DEF Accept, AcceptStop, StopInd
  <2>5. StoppedAxesStandStill'
    BY <2>1, <2>3 DEF StopInd, StoppedAxesStandStill
  <2>6. QED
    BY <2>1, <2>2, <2>3, <2>4, <2>5 DEF StopInd, IsSafetyStop
<1>9. ASSUME NEW t \in Callers, Enter(t) PROVE StopInd'
  <2>1. UNCHANGED <<phase, request, motion>> /\ (Start(t) \/ StartStop(t))
    BY <1>9 DEF Enter
  <2>2. /\ live' \subseteq live /\ UNCHANGED <<stops, ran>> /\ busy' = t /\ t \notin ran
        /\ t \in live \cup stops /\ (ran # {} => t \in stops)
        /\ live' \cap stops = {} /\ t \notin live'
    BY <1>0, <2>1 DEF Start, StartStop, StopInd
  <2>3. StoppedAxesStandStill' /\ \A u \in stops : IsSafetyStop(request[u])'
    BY <2>1, <2>2 DEF StopInd, StoppedAxesStandStill, IsSafetyStop
  <2>4. QED
    BY <2>1, <2>2, <2>3 DEF StopInd
<1>10. ASSUME NEW t \in Callers, Leave(t) PROVE StopInd'
  <2>1. /\ busy = t /\ busy' = Nobody /\ UNCHANGED <<live, stops>>
        /\ ran' = (IF t \in stops THEN ran \cup {t} ELSE ran)
    BY <1>10 DEF Leave, Finish
  <2>2. CASE t \in stops
    <3>1. UNCHANGED <<phase, request>> /\ IsSafetyStop(request[t]) /\ motion' = MotionAfter(request[t])
        BY <1>10, <2>2 DEF Leave, StopInd
    <3>2. \A a \in DOMAIN request[t].velocities : request[t].velocities[a] = 0
        BY <3>1 DEF IsSafetyStop, ThreadsOK, RequestOK
    <3>3. request[t].kind # "move"
        BY <3>1 DEF IsSafetyStop
    <3>4. /\ \A a \in Axes : motion'[a] = 0 \/ motion'[a] = motion[a]
          /\ \A a \in Axes : a \in DOMAIN request[t].velocities => motion'[a] = 0
        BY <3>1, <3>2, <3>3 DEF MotionAfter
    <3>5. \A u \in Callers : DOMAIN request[u].velocities \subseteq Axes
      <4> TAKE u \in Callers
      <4>1. CASE request[u] = Blank
        BY <4>1 DEF Blank
      <4>2. CASE request[u] # Blank
        BY <4>2, RequestFields, VelocitiesTyped DEF ThreadsOK
      <4>3. QED
        BY <4>1, <4>2
    <3>6. StoppedAxesStandStill'
        BY <1>0, <2>1, <2>2, <3>1, <3>4, <3>5 DEF StopInd, StoppedAxesStandStill
    <3>7. QED
        BY <1>0, <2>1, <2>2, <3>1, <3>6 DEF StopInd, IsSafetyStop
  <2>3. CASE t \notin stops
    <3>1. ran = {} /\ ran' = {}
        BY <1>0, <2>1, <2>3 DEF StopInd
    <3>2. \A u \in Callers \ {t} : phase'[u] = phase[u] /\ request'[u] = request[u]
        BY <1>10, <2>3, ThreadEnds DEF Leave
    <3>3. t \notin live
        BY <1>10, <2>1 DEF StopInd
    <3>4. QED
        BY <1>0, <2>1, <2>3, <3>1, <3>2, <3>3 DEF StopInd, StoppedAxesStandStill, IsSafetyStop
  <2>4. QED
    BY <2>2, <2>3
<1>11. ASSUME NEW t \in Callers, Superseded(t) PROVE StopInd'
  <2>1. /\ t \notin live \cup stops /\ busy # t /\ Answer(t) /\ UNCHANGED <<arbiterVars, motion>>
    BY <1>11 DEF Superseded
  <2>2. QED
    BY <1>0, <1>1, <2>1, ThreadEnds DEF arbiterVars
<1>12. ASSUME NEW t \in Callers, Return(t) PROVE StopInd'
  <2>1. /\ t \in ran /\ stops' = stops \ {t} /\ ran' = ran \ {t} /\ UNCHANGED <<live, busy, motion>>
        /\ Answer(t)
    BY <1>12 DEF Return, Discharge
  <2>2. busy # t
    BY <2>1 DEF StopInd
  <2>3. t \notin live
    BY <1>0, <2>1 DEF StopInd
  <2>4. QED
    BY <1>0, <1>1, <2>1, <2>2, <2>3, ThreadEnds
<1>13. QED
    BY <1>5, <1>6, <1>7, <1>8, <1>9, <1>10, <1>11, <1>12 DEF Next, Serve, Routes, Exhausted

\* From the end of its controller call until a stop returns, its axes stand still
\* (the routes that stop, and the dead-man with the registry held).
THEOREM StopsHold == Spec => []StoppedAxesStandStill
<1>1. Init => StopInd
    BY ArbiterAssumption DEF Init, ArbiterInit, StopInd, StoppedAxesStandStill
<1>2. StopInd => StoppedAxesStandStill
    BY DEF StopInd
<1>3. QED
    BY <1>1, <1>2, LeaseStarts, LeaseStep, StopStep, PTL DEF Spec
=============================================================================
