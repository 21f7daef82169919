----------------------------- MODULE ToolProofs -----------------------------
(***************************************************************************)
(* Theorems about the command line tool, for every command line, every     *)
(* file system and every change another program makes meanwhile.           *)
(***************************************************************************)
EXTENDS ConsoleTool, DrivemapState, FiniteSetTheorems, SequenceTheorems, TLAPS

-----------------------------------------------------------------------------
(* The inductive invariant. *)

Path     == Seq(Nat)
Entries  == [path : Path, dir : BOOLEAN]
Lines    == [path : Path, listing : {"none", "listed", "unreadable"}]
Words    == Commands \cup {"bye", "notify", "getfileattributes", "sendfile", "dirlist", "getfile"}
Memory   == {"flag", "handler", "drivemap"}
Requests == UNION {{<<w>> : w \in Words}, {<<w, p>> : w \in Words, p \in Path},
                   {<<w, m>> : w \in {"getmem", "setmem"}, m \in Memory}}
Sends    == [on : {"main", "probe", "hijack", "restore", "download"}, asks : Requests]

Typed ==
  /\ job \in Job
  /\ stack \in Seq(Seq(Entries))
  /\ printed \in Seq(Lines)
  /\ fetch \in [path : Path, serves : Int]
  /\ sent \in Seq(Sends)
  /\ touched \subseteq Path
  /\ job.command \notin Uploads => IsTree(remote)

\* What the tool is doing belongs to the command it was given.
Ended == {"recording", "done"}

Stages ==
  /\ at \notin Ended => result = "none"
  /\ at \in Ended => result \in {"ok", "error"}
  /\ at \in {"rooting", "walking"} => job.command = "tree"
  /\ at \in {"stating", "mirroring"} => job.command = "get"
  /\ at \in {"fetching", "storing"} => job.command \in {"get", "nand-dump"}
  /\ at \in {"probing", "reconnecting"} => job.command = "nand-dump"
  /\ at = "enabling" => job.command \in OwnConnections
  /\ at \in {"opening", "sending"} => job.command \in Uploads
  /\ at \in {"running", "saving"} => job.command \in Arms
  /\ at \in {"subscribing", "listening"} => job.command = "pix-notify"

\* What is still to be visited: in each of the levels of the stack.
Pending(s) == UNION {{s[i][k] : k \in 1 .. Len(s[i])} : i \in 1 .. Len(s)}

\* No place of the stack is at or below another.
Apart(s) ==
  \A i, j \in 1 .. Len(s) : \A k \in 1 .. Len(s[i]), l \in 1 .. Len(s[j]) :
    IsPrefix(s[i][k].path, s[j][l].path) => i = j /\ k = l

About(p) == {<<"dirlist", p>>, <<"getfile", p>>}
AskedFor(p) == \E i \in 1 .. Len(sent) : sent[i].asks \in About(p)
Shows(p) == \E i \in 1 .. Len(printed) : printed[i].path = p

Visited(p) == AskedFor(p) \/ Shows(p) \/ (at = "fetching" /\ p = fetch.path)

\* Nothing that was visited is at or below what is still to be visited.
Ahead ==
  at \notin Ended =>
    \A e \in Pending(stack) : \A p \in Path : IsPrefix(e.path, p) => ~ Visited(p)

\* When nothing, or nothing of a path, can have been said to the console.
Fresh == {"start", "running", "rooting", "stating", "opening", "sending", "subscribing", "probing"}
Wordy == {"enabling", "reconnecting"}

\* Before an invocation ends, bye has been said by a probe at most.
Spoken ==
  /\ sent \in Seq(Sends)
  /\ AskedOnce
  /\ \A i \in 1 .. Len(sent) : sent[i].asks = <<"bye">> => sent[i].on = "probe"

\* All that was said was said by the probe.
Probed == \A i \in 1 .. Len(sent) : sent[i].on = "probe" /\ sent[i].asks \in Harmless

Asked ==
  /\ AskedOnce
  /\ at \in Fresh => sent = << >> /\ printed = << >> /\ stack = << >>
  /\ at = "enabling" => Probed
  /\ at \in Wordy => \A p \in Path : ~ AskedFor(p)
  /\ at \notin Ended => Spoken
  /\ at = "fetching" => ~ AskedFor(fetch.path)
  /\ at \in {"walking", "mirroring"} => stack # << >>
  /\ Apart(stack)
  /\ Ahead

-----------------------------------------------------------------------------
(* tree *)

\* How long the name of a root is.
Base == IF job.path = << >> THEN 1 ELSE Len(job.path)
RootOf(p) == SubSeq(p, 1, Base)
IsRoot(p) == Len(p) = Base /\ (job.path # << >> => p = job.path)

InDepth(n) == job.depth = 0 \/ n <= job.depth

\* Whose directory was listed, before the first n lines were out, or a root.
Founded(p, n) ==
  IsRoot(p) \/ \E k \in 1 .. n : printed[k] = [path |-> Front(p), listing |-> "listed"]

Rooted(p, n) == IsRoot(p) \/ \E k \in 1 .. n : printed[k].path = RootOf(p)

\* Level i of the stack holds paths i - 1 below a root.
LevelOf(e, i) ==
  /\ Len(e.path) = Base + i - 1
  /\ IsRoot(RootOf(e.path))
  /\ Founded(e.path, Len(printed)) /\ Rooted(e.path, Len(printed))

\* Of what nobody changed, what is shown or still to be.
Found(p) == Shows(p) \/ \E e \in Pending(stack) : e.path = p

Tree ==
  job.command = "tree" =>
    /\ \A i, j \in 1 .. Len(printed) : printed[i].path = printed[j].path => i = j
    /\ \A i \in 1 .. Len(stack) : InDepth(i - 1) /\ \A k \in 1 .. Len(stack[i]) : LevelOf(stack[i][k], i)
    /\ \A i \in 1 .. Len(printed) :
         LET p == printed[i].path
         IN /\ Len(p) >= Base /\ IsRoot(RootOf(p)) /\ InDepth(Len(p) - Base)
            /\ Founded(p, i - 1) /\ Rooted(p, i - 1)
    /\ at \notin {"start", "rooting"} /\ result # "error" =>
         \A p \in DOMAIN remote :
           (/\ Untouched(p) /\ (IsDir(p) \/ job.files)
            /\ (p \in Roots \/ (Len(p) > 1 /\ WasListed(Front(p))))) => Found(p)
    /\ at \notin {"start", "rooting", "walking"} /\ result # "error" => stack = << >>

-----------------------------------------------------------------------------
(* get -r, and the NAND dump *)

Here(p) == p \in DOMAIN local /\ local[p] = remote[p]
Awaited(p) == \E e \in Pending(stack) : IsPrefix(e.path, p)
Fetching(p) == at \in {"fetching", "storing"} /\ p = fetch.path

\* Everything that nobody changed is here, or will be.
Covered ==
  \A p \in DOMAIN remote :
    IsPrefix(job.path, p) /\ Untouched(p) => Here(p) \/ Awaited(p) \/ Fetching(p)

Mirror ==
  /\ result # "error" => \A p \in DOMAIN local : local[p] # Part
  /\ at = "storing" => fetch.serves # Part
  /\ job.command = "nand-dump" =>
       /\ at \in {"fetching", "storing"} => fetch.path = Flash
       /\ at = "storing" => fetch.serves = Image
       /\ at \in {"storing", "leaving"} \cup Ended /\ result # "error" => stack = << >>
       /\ at \in {"leaving"} \cup Ended /\ result # "error" => Flash \in DOMAIN local /\ local[Flash] = Image
       /\ at \notin Ended => stack = << >>
  /\ job.command = "get" =>
       /\ at \in Fresh => local = << >>
       /\ at \in {"leaving"} \cup Ended /\ result # "error" => stack = << >>
       /\ at = "storing" => fetch.serves # Dir
       /\ at = "storing" /\ fetch.path \in DOMAIN remote /\ Untouched(fetch.path) /\ stack # << >> =>
            fetch.serves = remote[fetch.path]
       /\ stack = << >> /\ at \in {"fetching", "storing"} => local = << >>
       /\ \A e \in Pending(stack) :
            /\ e.dir \/ Len(e.path) > 1
            /\ Untouched(e.path) => e.path \in DOMAIN remote /\ IsDir(e.path) = e.dir
       /\ stack # << >> /\ at \in {"fetching", "storing"} => Len(fetch.path) > 1
       /\ stack # << >> /\ result # "error" => Covered
       /\ stack = << >> /\ result # "error" /\ job.path \in DOMAIN local /\ local[job.path] = Dir => Covered

ToolInv == Typed /\ Stages /\ Asked /\ Tree /\ Mirror

-----------------------------------------------------------------------------
(* Paths: what is at or below what. *)

LEMMA PrefixIndex ==
  ASSUME NEW p \in Path, NEW q \in Path
  PROVE  IsPrefix(p, q) <=> Len(p) <= Len(q) /\ \A i \in 1 .. Len(p) : p[i] = q[i]
<1>1. ASSUME Len(p) <= Len(q)
      PROVE  /\ SubSeq(p, 1, Len(p)) \in Path /\ Len(SubSeq(p, 1, Len(p))) = Len(p)
             /\ SubSeq(q, 1, Len(p)) \in Path /\ Len(SubSeq(q, 1, Len(p))) = Len(p)
             /\ \A i \in 1 .. Len(p) : SubSeq(p, 1, Len(p))[i] = p[i] /\ SubSeq(q, 1, Len(p))[i] = q[i]
  BY <1>1 DEF Path
<1>2. ASSUME Len(p) <= Len(q), \A i \in 1 .. Len(p) : p[i] = q[i]
      PROVE  SubSeq(p, 1, Len(p)) = SubSeq(q, 1, Len(p))
  <2>1. \A i \in 1 .. Len(p) : SubSeq(p, 1, Len(p))[i] = SubSeq(q, 1, Len(p))[i]
    BY <1>1, <1>2
  <2> QED
    BY <1>1, <1>2, <2>1, SeqEqual DEF Path
<1> QED
  BY <1>1, <1>2 DEF IsPrefix

LEMMA PrefixRefl ==
  ASSUME NEW p \in Path
  PROVE  IsPrefix(p, p)
BY PrefixIndex DEF Path

LEMMA PrefixTrans ==
  ASSUME NEW p \in Path, NEW q \in Path, NEW r \in Path, IsPrefix(p, q), IsPrefix(q, r)
  PROVE  IsPrefix(p, r)
<1>1. /\ Len(p) \in Nat /\ Len(q) \in Nat /\ Len(r) \in Nat
      /\ Len(p) <= Len(q) /\ \A i \in 1 .. Len(p) : p[i] = q[i]
      /\ Len(q) <= Len(r) /\ \A i \in 1 .. Len(q) : q[i] = r[i]
  BY PrefixIndex DEF Path
<1>2. Len(p) <= Len(r) /\ \A i \in 1 .. Len(p) : p[i] = r[i]
  BY <1>1
<1> QED
  BY <1>2, PrefixIndex

\* A path of the same length is at or below another only if it is that one.
LEMMA PrefixSame ==
  ASSUME NEW p \in Path, NEW q \in Path, IsPrefix(p, q), Len(q) <= Len(p)
  PROVE  p = q
<1>1. Len(p) = Len(q) /\ \A i \in 1 .. Len(p) : p[i] = q[i]
  BY PrefixIndex DEF Path
<1> QED
  BY <1>1, SeqEqual DEF Path

\* Of two paths above a third, one is above the other.
LEMMA PrefixChain ==
  ASSUME NEW p \in Path, NEW q \in Path, NEW r \in Path, IsPrefix(p, r), IsPrefix(q, r),
         Len(p) <= Len(q)
  PROVE  IsPrefix(p, q)
<1>1. /\ Len(p) \in Nat /\ Len(q) \in Nat /\ Len(r) \in Nat
      /\ Len(p) <= Len(r) /\ \A i \in 1 .. Len(p) : p[i] = r[i]
      /\ Len(q) <= Len(r) /\ \A i \in 1 .. Len(q) : q[i] = r[i]
  BY PrefixIndex DEF Path
<1>2. Len(p) <= Len(q) /\ \A i \in 1 .. Len(p) : p[i] = q[i]
  BY <1>1
<1> QED
  BY <1>2, PrefixIndex

LEMMA PrefixOf ==
  ASSUME NEW p \in Path, NEW n \in 0 .. Len(p)
  PROVE  /\ SubSeq(p, 1, n) \in Path /\ Len(SubSeq(p, 1, n)) = n
         /\ \A i \in 1 .. n : SubSeq(p, 1, n)[i] = p[i]
         /\ IsPrefix(SubSeq(p, 1, n), p)
<1>1. /\ SubSeq(p, 1, n) \in Path /\ Len(SubSeq(p, 1, n)) = n
      /\ \A i \in 1 .. n : SubSeq(p, 1, n)[i] = p[i]
  BY DEF Path
<1>2. n <= Len(p)
  BY DEF Path
<1>3. \A q \in Path : Len(q) = n /\ (\A i \in 1 .. n : q[i] = p[i]) => IsPrefix(q, p)
  BY <1>2, PrefixIndex
<1> QED
  BY <1>1, <1>3

\* A prefix is known by its length.
LEMMA PrefixIs ==
  ASSUME NEW p \in Path, NEW q \in Path, IsPrefix(p, q)
  PROVE  p = SubSeq(q, 1, Len(p)) /\ Len(p) \in 0 .. Len(q)
<1>1. Len(p) \in 0 .. Len(q)
  BY PrefixIndex DEF Path
<1>2. /\ SubSeq(q, 1, Len(p)) \in Path /\ Len(SubSeq(q, 1, Len(p))) = Len(p)
      /\ IsPrefix(SubSeq(q, 1, Len(p)), q)
  BY <1>1, PrefixOf
<1>3. \A r \in Path : Len(r) = Len(p) /\ IsPrefix(r, q) => p = r
  <2> SUFFICES ASSUME NEW r \in Path, Len(r) = Len(p), IsPrefix(r, q)
               PROVE  p = r
    OBVIOUS
  <2>1. Len(p) <= Len(r) /\ Len(r) <= Len(p)
    BY DEF Path
  <2>2. IsPrefix(p, r)
    BY <2>1, PrefixChain
  <2> QED
    BY <2>1, <2>2, PrefixSame
<1> QED
  BY <1>1, <1>2, <1>3

\* What lies directly in a directory, and Front, which names the directory.
Child(q, p) == Len(q) = Len(p) + 1 /\ IsPrefix(p, q)

LEMMA ChildFront ==
  ASSUME NEW p \in Path, NEW q \in Path
  PROVE  Child(q, p) <=> Len(q) >= 1 /\ p = Front(q)
<1>1. ASSUME Len(q) >= 1
      PROVE  Front(q) \in Path /\ Len(Front(q)) = Len(q) - 1 /\ IsPrefix(Front(q), q)
  <2>1. Len(q) - 1 \in 0 .. Len(q)
    BY <1>1 DEF Path
  <2> QED
    BY <2>1, PrefixOf DEF Front
<1>2. ASSUME Child(q, p)
      PROVE  p = Front(q) /\ Len(q) >= 1
  BY <1>2, PrefixIs DEF Child, Front, Path
<1> QED
  BY <1>1, <1>2 DEF Child, Path

LEMMA ChildBelow ==
  ASSUME NEW p \in Path, NEW q \in Path, NEW r \in Path, Child(q, p), IsPrefix(r, q)
  PROVE  r = q \/ IsPrefix(r, p)
<1>1. Len(r) <= Len(q) /\ Len(q) = Len(p) + 1 /\ Len(r) \in Nat /\ Len(p) \in Nat
  BY PrefixIndex DEF Child, Path
<1>2. CASE Len(r) = Len(q)
  BY <1>2, PrefixSame
<1>3. CASE Len(r) <= Len(p)
  BY <1>3, PrefixChain DEF Child
<1> QED
  BY <1>1, <1>2, <1>3

LEMMA ChildrenAre ==
  ASSUME NEW p \in Path, DOMAIN remote \subseteq Path
  PROVE  Children(p) = {q \in DOMAIN remote : Child(q, p)}
BY DEF Children, Child, IsStrictPrefix, Path

-----------------------------------------------------------------------------
(* Listings: every entry of a directory, once. *)

EachOnce(s, S) ==
  /\ s \in Seq(S)
  /\ \A i, j \in 1 .. Len(s) : s[i] = s[j] => i = j
  /\ \A e \in S : \E i \in 1 .. Len(s) : s[i] = e

LEMMA AnyOrder ==
  ASSUME NEW S, IsFiniteSet(S), NEW s \in SetToSeqs(S)
  PROVE  EachOnce(s, S)
<1> DEFINE n == Cardinality(S)
<1>1. n \in Nat /\ s \in [1 .. n -> S] /\ \A i, j \in 1 .. n : i # j => s[i] # s[j]
  BY FS_CardinalityType DEF SetToSeqs
<1>2. s \in Injection(1 .. n, S)
  BY <1>1 DEF Injection, IsInjective
<1>3. IsFiniteSet(1 .. n) /\ Cardinality(1 .. n) = n
  BY <1>1, FS_Interval
<1>4. s \in Surjection(1 .. n, S)
  BY <1>2, <1>3, FS_Injection
<1>5. s \in Seq(S) /\ Len(s) = n
  BY <1>1
<1> QED
  BY <1>1, <1>4, <1>5 DEF EachOnce, Surjection

\* A set ordered by Before has its entries at the places InOrder gives them.
LEMMA Ordered ==
  ASSUME NEW S, IsFiniteSet(S),
         \A a \in S : ~ Before(a, a),
         \A a, b, c \in S : Before(a, b) /\ Before(b, c) => Before(a, c),
         \A a, b \in S : a # b => Before(a, b) \/ Before(b, a)
  PROVE  EachOnce(InOrder(S), S)
<1> DEFINE n == Cardinality(S)
           Earlier(e) == {x \in S : Before(x, e)}
           rank == [e \in S |-> Cardinality(Earlier(e)) + 1]
<1>1. n \in Nat
  BY FS_CardinalityType
<1>2. ASSUME NEW e \in S
      PROVE  IsFiniteSet(Earlier(e)) /\ Cardinality(Earlier(e)) \in 0 .. n - 1
  <2>1. Earlier(e) \in SUBSET S /\ e \notin Earlier(e)
    OBVIOUS
  <2>2. IsFiniteSet(Earlier(e)) /\ Cardinality(Earlier(e)) <= n
        /\ (n = Cardinality(Earlier(e)) => S = Earlier(e))
    BY <2>1, FS_Subset
  <2>3. Cardinality(Earlier(e)) \in Nat
    BY <2>2, FS_CardinalityType
  <2>4. n # Cardinality(Earlier(e))
    BY <2>1, <2>2
  <2> HIDE DEF Earlier, n
  <2> QED
    BY <1>1, <2>2, <2>3, <2>4
<1>3. ASSUME NEW a \in S, NEW b \in S, Before(a, b)
      PROVE  Cardinality(Earlier(a)) < Cardinality(Earlier(b))
  <2>1. Earlier(a) \in SUBSET Earlier(b) /\ a \in Earlier(b) /\ a \notin Earlier(a)
    BY <1>3
  <2>2. Cardinality(Earlier(a)) <= Cardinality(Earlier(b))
        /\ (Cardinality(Earlier(b)) = Cardinality(Earlier(a)) => Earlier(b) = Earlier(a))
    BY <2>1, <1>2, FS_Subset
  <2>3. Earlier(b) # Earlier(a)
    BY <2>1
  <2>4. Cardinality(Earlier(a)) \in 0 .. n - 1 /\ Cardinality(Earlier(b)) \in 0 .. n - 1
    BY <1>2
  <2> HIDE DEF Earlier, n
  <2> QED
    BY <1>1, <2>2, <2>3, <2>4
<1>4. \A e \in S : rank[e] = Cardinality(Earlier(e)) + 1
  OBVIOUS
<1>5. rank = [e \in S |-> rank[e]]
  OBVIOUS
<1>6. \A i \in 1 .. n : InOrder(S)[i] = CHOOSE e \in S : Cardinality(Earlier(e)) = i - 1
  BY Zenon DEF InOrder
<1>7. (\A i \in 1 .. n : InOrder(S)[i] \in S) => InOrder(S) \in [1 .. n -> S]
  BY DEF InOrder
<1> HIDE DEF Earlier, n, rank
<1>8. \A a, b \in S : rank[a] = rank[b] => a = b
  <2> SUFFICES ASSUME NEW a \in S, NEW b \in S, rank[a] = rank[b], a # b
               PROVE  FALSE
    OBVIOUS
  <2>1. Cardinality(Earlier(a)) \in 0 .. n - 1 /\ Cardinality(Earlier(b)) \in 0 .. n - 1
    BY <1>2
  <2>2. Cardinality(Earlier(a)) = Cardinality(Earlier(b))
    BY <1>1, <1>4, <2>1
  <2> QED
    BY <1>1, <1>3, <2>1, <2>2
<1>9. \A e \in S : rank[e] \in 1 .. n
  BY <1>1, <1>2, <1>4
<1>10. rank \in Injection(S, 1 .. n)
  BY <1>5, <1>8, <1>9 DEF Injection, IsInjective
<1>11. IsFiniteSet(1 .. n) /\ Cardinality(1 .. n) = Cardinality(S)
  BY <1>1, FS_Interval DEF n
<1>12. rank \in Surjection(S, 1 .. n)
  BY <1>10, <1>11, FS_Injection
<1>13. \A i \in 1 .. n : \E e \in S : rank[e] = i
  BY <1>12 DEF Surjection
<1>14. \A i \in 1 .. n : InOrder(S)[i] \in S /\ rank[InOrder(S)[i]] = i
  <2> SUFFICES ASSUME NEW i \in 1 .. n
               PROVE  InOrder(S)[i] \in S /\ rank[InOrder(S)[i]] = i
    OBVIOUS
  <2>1. PICK e \in S : rank[e] = i
    BY <1>13
  <2>2. Cardinality(Earlier(e)) = i - 1
    BY <1>1, <1>2, <1>4, <2>1
  <2>3. InOrder(S)[i] \in S /\ Cardinality(Earlier(InOrder(S)[i])) = i - 1
    BY <1>6, <2>2
  <2> QED
    BY <1>1, <1>4, <2>3
<1>15. InOrder(S) \in Seq(S) /\ Len(InOrder(S)) = n
  <2>1. InOrder(S) \in [1 .. n -> S]
    BY <1>7, <1>14
  <2> QED
    BY <1>1, <2>1
<1>16. \A e \in S : InOrder(S)[rank[e]] = e
  BY <1>8, <1>9, <1>14
<1>17. \A i, j \in 1 .. Len(InOrder(S)) : InOrder(S)[i] = InOrder(S)[j] => i = j
  BY <1>14, <1>15
<1>18. \A e \in S : \E i \in 1 .. Len(InOrder(S)) : InOrder(S)[i] = e
  BY <1>9, <1>15, <1>16
<1> QED
  BY <1>15, <1>17, <1>18 DEF EachOnce

-----------------------------------------------------------------------------
(* What is in a directory. *)

LEMMA ListingIs ==
  ASSUME IsTree(remote), NEW p \in Path
  PROVE  /\ IsFiniteSet(Listing(p)) /\ Listing(p) \subseteq Entries
         /\ \A e \in Listing(p) : /\ e.path \in DOMAIN remote /\ Child(e.path, p)
                                  /\ e.dir = IsDir(e.path)
         /\ \A a, b \in Listing(p) : a.path = b.path => a = b
         /\ \A q \in DOMAIN remote : Child(q, p) => [path |-> q, dir |-> IsDir(q)] \in Listing(p)
<1>1. DOMAIN remote \subseteq Path /\ IsFiniteSet(DOMAIN remote)
  BY DEF IsTree, Path
<1>2. Children(p) = {q \in DOMAIN remote : Child(q, p)}
  BY <1>1, ChildrenAre
<1>3. IsFiniteSet(Children(p))
  BY <1>1, <1>2, FS_Subset
<1> DEFINE f == [q \in Children(p) |-> [path |-> q, dir |-> IsDir(q)]]
<1>4. f \in Surjection(Children(p), Listing(p))
  BY DEF Listing, Surjection
<1>5. IsFiniteSet(Listing(p))
  BY <1>3, <1>4, FS_Surjection
<1>6. \A q \in DOMAIN remote : IsDir(q) \in BOOLEAN
  BY DEF IsDir, Holds
<1> QED
  BY <1>1, <1>2, <1>5, <1>6 DEF Listing, Entries

LEMMA ListingOrdered ==
  ASSUME IsTree(remote), NEW p \in Path, NEW S \in SUBSET Listing(p)
  PROVE  IsFiniteSet(S) /\ EachOnce(InOrder(S), S)
<1>1. IsFiniteSet(S)
  BY ListingIs, FS_Subset
<1>2. \A e \in S : Last(e.path) \in Nat /\ e.dir \in BOOLEAN
  BY ListingIs DEF Last, Entries, Path, Child
<1>3. \A a \in S : ~ Before(a, a)
  BY <1>2 DEF Before
<1>4. \A a, b, c \in S : Before(a, b) /\ Before(b, c) => Before(a, c)
  BY <1>2 DEF Before
<1>5. ASSUME NEW a \in S, NEW b \in S, a # b
      PROVE  Before(a, b) \/ Before(b, a)
  <2>1. a.path # b.path /\ Child(a.path, p) /\ Child(b.path, p) /\ a.path \in Path /\ b.path \in Path
    BY <1>5, ListingIs DEF Entries
  <2>2. Last(a.path) # Last(b.path)
    <3> SUFFICES ASSUME Last(a.path) = Last(b.path)
                 PROVE  FALSE
      OBVIOUS
    <3>1. /\ Len(a.path) = Len(p) + 1 /\ Len(b.path) = Len(p) + 1
          /\ \A i \in 1 .. Len(p) : a.path[i] = p[i] /\ b.path[i] = p[i]
      BY <2>1, PrefixIndex DEF Child
    <3>2. \A i \in 1 .. Len(a.path) : a.path[i] = b.path[i]
      BY <3>1 DEF Last, Path
    <3> QED
      BY <2>1, <3>1, <3>2, SeqEqual DEF Path
  <2> QED
    BY <1>2, <2>2 DEF Before
<1> QED
  BY <1>1, <1>3, <1>4, <1>5, Ordered

-----------------------------------------------------------------------------
(* The stack: what is still to be visited, when an entry is taken from it, *)
(* when a directory is put on it, and when one is through.                 *)

Stacks == Seq(Seq(Entries))
RestOf(s) == Front(s) \o << Tail(Last(s)) >>

LEMMA PendingIs ==
  ASSUME NEW s
  PROVE  \A e : e \in Pending(s) <=> \E i \in 1 .. Len(s) : \E k \in 1 .. Len(s[i]) : e = s[i][k]
BY DEF Pending

LEMMA PendingTyped ==
  ASSUME NEW s \in Stacks
  PROVE  Pending(s) \subseteq Entries
<1> SUFFICES ASSUME NEW i \in 1 .. Len(s), NEW k \in 1 .. Len(s[i])
             PROVE  s[i][k] \in Entries
  BY PendingIs
<1>1. s[i] \in Seq(Entries)
  BY DEF Stacks
<1> QED
  BY <1>1

LEMMA NothingPending == Pending(<< >>) = {} /\ Apart(<< >>)
BY PendingIs DEF Apart

LEMMA FrontIs ==
  ASSUME NEW X, NEW s \in Seq(X), s # << >>
  PROVE  /\ Len(s) \in Nat \ {0} /\ s[Len(s)] \in X
         /\ Front(s) \in Seq(X) /\ Len(Front(s)) = Len(s) - 1
         /\ \A i \in 1 .. Len(s) - 1 : Front(s)[i] = s[i]
<1>1. Len(s) \in Nat \ {0} /\ s[Len(s)] \in X
  OBVIOUS
<1>2. 1 \in 1 .. Len(s) + 1 /\ Len(s) - 1 \in 0 .. Len(s)
  BY <1>1
<1>3. Front(s) = SubSeq(s, 1, Len(s) - 1)
  BY DEF Front
<1> DEFINE n == Len(s) - 1
<1>4. n \in Nat /\ n <= Len(s)
  BY <1>1
<1>5. SubSeq(s, 1, n) \in Seq(X) /\ Len(SubSeq(s, 1, n)) = n /\ \A i \in 1 .. n : SubSeq(s, 1, n)[i] = s[i]
  <2> HIDE DEF n
  <2> QED
    BY <1>4
<1> QED
  BY <1>1, <1>3, <1>5

LEMMA WithOneMore ==
  ASSUME NEW X, NEW s \in Seq(X), NEW x \in X
  PROVE  /\ s \o << x >> \in Seq(X) /\ Len(s \o << x >>) = Len(s) + 1
         /\ \A i \in 1 .. Len(s) : (s \o << x >>)[i] = s[i]
         /\ (s \o << x >>)[Len(s) + 1] = x
         /\ Append(s, x) = s \o << x >>
OBVIOUS

LEMMA PopShape ==
  ASSUME NEW s \in Stacks, s # << >>, Last(s) # << >>
  PROVE  LET r == RestOf(s)
             n == Len(s)
         IN /\ r \in Stacks /\ n \in Nat \ {0} /\ Len(r) = n /\ r # << >>
            /\ \A i \in 1 .. n - 1 : r[i] = s[i]
            /\ Len(s[n]) \in Nat \ {0} /\ Len(r[n]) = Len(s[n]) - 1
            /\ \A k \in 1 .. Len(s[n]) - 1 : r[n][k] = s[n][k + 1]
            /\ Head(Last(s)) = s[n][1] /\ s[n][1] \in Entries
<1> DEFINE n == Len(s)
<1>1. n \in Nat \ {0} /\ s[n] \in Seq(Entries) /\ s[n] # << >>
  BY DEF Stacks, Last
<1>2. /\ Tail(s[n]) \in Seq(Entries) /\ Len(Tail(s[n])) = Len(s[n]) - 1 /\ Len(s[n]) \in Nat \ {0}
      /\ \A k \in 1 .. Len(s[n]) - 1 : Tail(s[n])[k] = s[n][k + 1]
      /\ Head(s[n]) = s[n][1] /\ s[n][1] \in Entries
  BY <1>1
<1>3. /\ Front(s) \in Stacks /\ Len(Front(s)) = n - 1
      /\ \A i \in 1 .. n - 1 : Front(s)[i] = s[i]
  BY <1>1, FrontIs DEF Stacks
<1>4. /\ RestOf(s) \in Stacks /\ Len(RestOf(s)) = n
      /\ \A i \in 1 .. n - 1 : RestOf(s)[i] = s[i]
      /\ RestOf(s)[n] = Tail(s[n])
  <2>1. Tail(Last(s)) = Tail(s[n]) /\ Front(s) \in Seq(Seq(Entries))
    BY <1>3 DEF Stacks, Last
  <2>2. /\ RestOf(s) \in Seq(Seq(Entries)) /\ Len(RestOf(s)) = Len(Front(s)) + 1
        /\ \A i \in 1 .. Len(Front(s)) : RestOf(s)[i] = Front(s)[i]
        /\ RestOf(s)[Len(Front(s)) + 1] = Tail(s[n])
    <3>1. Tail(s[n]) \in Seq(Entries)
      BY <1>2
    <3>2. RestOf(s) = Front(s) \o << Tail(s[n]) >>
      BY <2>1 DEF RestOf
    <3> HIDE DEF n
    <3>3. \A f \in Seq(Seq(Entries)), x \in Seq(Entries) :
            /\ f \o << x >> \in Seq(Seq(Entries)) /\ Len(f \o << x >>) = Len(f) + 1
            /\ \A i \in 1 .. Len(f) : (f \o << x >>)[i] = f[i]
            /\ (f \o << x >>)[Len(f) + 1] = x
      BY WithOneMore
    <3> QED
      BY <2>1, <3>1, <3>2, <3>3
  <2> HIDE DEF n
  <2> QED
    BY <1>1, <1>3, <2>2 DEF Stacks
<1>5. RestOf(s) # << >>
  BY <1>1, <1>4
<1> QED
  BY <1>1, <1>2, <1>4, <1>5 DEF Last

LEMMA PopPending ==
  ASSUME NEW s \in Stacks, s # << >>, Last(s) # << >>
  PROVE  Pending(s) = Pending(RestOf(s)) \cup {Head(Last(s))}
<1> DEFINE r == RestOf(s)
           n == Len(s)
<1>1. /\ n \in Nat \ {0} /\ Len(r) = n
      /\ \A i \in 1 .. n - 1 : r[i] = s[i]
      /\ Len(s[n]) \in Nat \ {0} /\ Len(r[n]) = Len(s[n]) - 1
      /\ \A k \in 1 .. Len(s[n]) - 1 : r[n][k] = s[n][k + 1]
      /\ Head(Last(s)) = s[n][1]
  BY PopShape
<1> HIDE DEF r, n
<1>2. ASSUME NEW e \in Pending(s)
      PROVE  e \in Pending(r) \cup {Head(Last(s))}
  <2>1. PICK i \in 1 .. n : \E k \in 1 .. Len(s[i]) : e = s[i][k]
    BY PendingIs DEF n
  <2>2. PICK k \in 1 .. Len(s[i]) : e = s[i][k]
    BY <2>1
  <2>3. CASE i \in 1 .. n - 1
    BY <1>1, <2>2, <2>3, PendingIs
  <2>4. CASE i = n /\ k = 1
    BY <1>1, <2>2, <2>4
  <2>5. CASE i = n /\ k # 1
    <3>1. k - 1 \in 1 .. Len(r[n]) /\ k - 1 \in 1 .. Len(s[n]) - 1 /\ (k - 1) + 1 = k
      BY <1>1, <2>2, <2>5
    <3>2. r[n][k - 1] = e
      BY <1>1, <2>2, <2>5, <3>1
    <3>3. n \in 1 .. Len(r)
      BY <1>1
    <3> QED
      BY <3>1, <3>2, <3>3, PendingIs
  <2> QED
    BY <1>1, <2>1, <2>2, <2>3, <2>4, <2>5
<1>3. ASSUME NEW e \in Pending(r)
      PROVE  e \in Pending(s)
  <2>1. PICK i \in 1 .. n : \E k \in 1 .. Len(r[i]) : e = r[i][k]
    BY <1>1, PendingIs
  <2>2. PICK k \in 1 .. Len(r[i]) : e = r[i][k]
    BY <2>1
  <2>3. CASE i \in 1 .. n - 1
    BY <1>1, <2>2, <2>3, PendingIs DEF n
  <2>4. CASE i = n
    <3>1. k + 1 \in 1 .. Len(s[n]) /\ k \in 1 .. Len(s[n]) - 1
      BY <1>1, <2>2, <2>4
    <3>2. n \in 1 .. Len(s) /\ s[n][k + 1] = e
      BY <1>1, <2>2, <2>4, <3>1 DEF n
    <3> QED
      BY <3>1, <3>2, PendingIs
  <2> QED
    BY <1>1, <2>1, <2>3, <2>4
<1>4. Head(Last(s)) \in Pending(s)
  <2>1. n \in 1 .. Len(s) /\ 1 \in 1 .. Len(s[n])
    BY <1>1 DEF n
  <2> QED
    BY <1>1, <2>1, PendingIs
<1> QED
  BY <1>2, <1>3, <1>4 DEF r

LEMMA PopApart ==
  ASSUME NEW s \in Stacks, s # << >>, Last(s) # << >>, Apart(s)
  PROVE  /\ Apart(RestOf(s))
         /\ \A f \in Pending(RestOf(s)) : ~ IsPrefix(f.path, Head(Last(s)).path)
                                       /\ ~ IsPrefix(Head(Last(s)).path, f.path)
<1> DEFINE r == RestOf(s)
           n == Len(s)
           shift(i) == IF i = n THEN 1 ELSE 0
<1>1. /\ n \in Nat \ {0} /\ Len(r) = n
      /\ \A i \in 1 .. n - 1 : r[i] = s[i]
      /\ Len(s[n]) \in Nat \ {0} /\ Len(r[n]) = Len(s[n]) - 1
      /\ \A k \in 1 .. Len(s[n]) - 1 : r[n][k] = s[n][k + 1]
      /\ Head(Last(s)) = s[n][1]
      /\ \A i \in 1 .. n : Len(s[i]) \in Nat
  BY PopShape DEF Stacks
<1> HIDE DEF r, n
<1>2. ASSUME NEW i \in 1 .. n, NEW k \in 1 .. Len(r[i])
      PROVE  k + shift(i) \in 1 .. Len(s[i]) /\ r[i][k] = s[i][k + shift(i)]
  <2>1. CASE i = n
    BY <1>1, <2>1
  <2>2. CASE i # n
    BY <1>1, <2>2
  <2> QED
    BY <2>1, <2>2
<1>3. ASSUME NEW i \in 1 .. n, NEW j \in 1 .. n, NEW k \in 1 .. Len(r[i]), NEW l \in 1 .. Len(r[j]),
             IsPrefix(r[i][k].path, r[j][l].path)
      PROVE  i = j /\ k = l
  <2>1. /\ k + shift(i) \in 1 .. Len(s[i]) /\ r[i][k] = s[i][k + shift(i)]
        /\ l + shift(j) \in 1 .. Len(s[j]) /\ r[j][l] = s[j][l + shift(j)]
    BY <1>2
  <2> HIDE DEF shift
  <2>2. IsPrefix(s[i][k + shift(i)].path, s[j][l + shift(j)].path)
    BY <1>3, <2>1
  <2>3. i = j /\ k + shift(i) = l + shift(j)
    BY <2>1, <2>2 DEF Apart, n
  <2> USE DEF shift
  <2> QED
    BY <2>3
<1>4. ASSUME NEW f \in Pending(r)
      PROVE  ~ IsPrefix(f.path, s[n][1].path) /\ ~ IsPrefix(s[n][1].path, f.path)
  <2>1. PICK i \in 1 .. n : \E k \in 1 .. Len(r[i]) : f = r[i][k]
    BY <1>1, PendingIs
  <2>2. PICK k \in 1 .. Len(r[i]) : f = r[i][k]
    BY <2>1
  <2>3. f = s[i][k + shift(i)] /\ k + shift(i) \in 1 .. Len(s[i]) /\ n \in 1 .. n /\ 1 \in 1 .. Len(s[n])
    BY <1>1, <1>2, <2>2
  <2>4. ~ (i = n /\ k + shift(i) = 1)
    OBVIOUS
  <2> QED
    BY <2>3, <2>4 DEF Apart, n
<1> QED
  BY <1>1, <1>3, <1>4 DEF Apart, r

LEMMA PushShape ==
  ASSUME NEW s \in Stacks, NEW l \in Seq(Entries)
  PROVE  /\ Append(s, l) \in Stacks /\ Len(Append(s, l)) = Len(s) + 1 /\ Append(s, l) # << >>
         /\ \A i \in 1 .. Len(s) : Append(s, l)[i] = s[i]
         /\ Append(s, l)[Len(s) + 1] = l
<1>1. Len(s) + 1 # 0
  BY DEF Stacks
<1> QED
  <2>1. s \in Seq(Seq(Entries))
    BY DEF Stacks
  <2>2. /\ Append(s, l) \in Seq(Seq(Entries)) /\ Len(Append(s, l)) = Len(s) + 1
        /\ \A i \in 1 .. Len(s) : Append(s, l)[i] = s[i]
        /\ Append(s, l)[Len(s) + 1] = l
    BY <2>1, WithOneMore
  <2>3. Append(s, l) # << >>
    BY <1>1, <2>2
  <2> QED
    BY <2>2, <2>3 DEF Stacks

LEMMA PushPending ==
  ASSUME NEW s \in Stacks, NEW S \in SUBSET Entries, NEW l, EachOnce(l, S)
  PROVE  Pending(Append(s, l)) = Pending(s) \cup S
<1> DEFINE n == Len(s)
           t == Append(s, l)
<1>1. /\ n \in Nat /\ Len(t) = n + 1
      /\ \A i \in 1 .. n : t[i] = s[i]
      /\ t[n + 1] = l
  BY PushShape DEF EachOnce, Stacks
<1>2. \A e : e \in S <=> \E k \in 1 .. Len(l) : e = l[k]
  BY DEF EachOnce
<1> HIDE DEF n, t
<1>3. \A e : e \in Pending(s) <=> \E i \in 1 .. n : \E k \in 1 .. Len(t[i]) : e = t[i][k]
  BY <1>1, PendingIs DEF n
<1>4. \A e : e \in Pending(t) <=> \E i \in 1 .. n + 1 : \E k \in 1 .. Len(t[i]) : e = t[i][k]
  BY <1>1, PendingIs
<1>5. \A i : i \in 1 .. n + 1 <=> i \in 1 .. n \/ i = n + 1
  BY <1>1
<1> QED
  BY <1>1, <1>2, <1>3, <1>4, <1>5 DEF t

\* The entries of a directory that was taken from the stack go on it.
LEMMA PushApart ==
  ASSUME NEW s \in Stacks, NEW d \in Path, NEW S \in SUBSET Entries, NEW l, EachOnce(l, S),
         \A e \in S : Child(e.path, d),
         \A a, b \in S : a.path = b.path => a = b,
         Apart(s),
         \A f \in Pending(s) : ~ IsPrefix(f.path, d) /\ ~ IsPrefix(d, f.path)
  PROVE  Apart(Append(s, l))
<1> DEFINE n == Len(s)
           t == Append(s, l)
<1>1. /\ n \in Nat /\ Len(t) = n + 1
      /\ \A i \in 1 .. n : t[i] = s[i] /\ s[i] \in Seq(Entries)
      /\ t[n + 1] = l
  BY PushShape DEF EachOnce, Stacks
<1> HIDE DEF n, t
<1>2. ASSUME NEW e \in S, NEW f \in Pending(s)
      PROVE  ~ IsPrefix(e.path, f.path) /\ ~ IsPrefix(f.path, e.path)
  <2>1. e.path \in Path /\ f.path \in Path
    BY PendingTyped DEF Entries
  <2>2. Child(e.path, d) /\ IsPrefix(d, e.path) /\ ~ IsPrefix(f.path, d) /\ ~ IsPrefix(d, f.path)
    BY DEF Child
  <2>3. ~ IsPrefix(e.path, f.path)
    BY <2>1, <2>2, PrefixTrans
  <2>4. ~ IsPrefix(f.path, e.path)
    BY <2>1, <2>2, ChildBelow
  <2> QED
    BY <2>3, <2>4
<1>3. ASSUME NEW a \in S, NEW b \in S, IsPrefix(a.path, b.path)
      PROVE  a = b
  <2>1. a.path \in Path /\ b.path \in Path /\ Len(a.path) = Len(b.path)
    BY DEF Entries, Child
  <2>2. a.path = b.path
    BY <1>3, <2>1, PrefixSame DEF Path
  <2> QED
    BY <2>2
<1>4. \A k \in 1 .. Len(l) : l[k] \in S
  BY DEF EachOnce
<1>5. \A k, m \in 1 .. Len(l) : l[k] = l[m] => k = m
  BY DEF EachOnce
<1> SUFFICES ASSUME NEW i \in 1 .. n + 1, NEW j \in 1 .. n + 1, NEW k \in 1 .. Len(t[i]),
                    NEW m \in 1 .. Len(t[j]), IsPrefix(t[i][k].path, t[j][m].path)
             PROVE  i = j /\ k = m
  BY <1>1 DEF Apart, t
<1>6. CASE i \in 1 .. n /\ j \in 1 .. n
  BY <1>1, <1>6 DEF Apart, n
<1>7. CASE i \in 1 .. n /\ j = n + 1
  <2>1. t[i][k] \in Pending(s) /\ t[j][m] \in S
    BY <1>1, <1>4, <1>7, PendingIs DEF n
  <2> QED
    BY <1>2, <2>1
<1>8. CASE i = n + 1 /\ j \in 1 .. n
  <2>1. t[j][m] \in Pending(s) /\ t[i][k] \in S
    BY <1>1, <1>4, <1>8, PendingIs DEF n
  <2> QED
    BY <1>2, <2>1
<1>9. CASE i = n + 1 /\ j = n + 1
  BY <1>1, <1>3, <1>4, <1>5, <1>9
<1> QED
  BY <1>1, <1>6, <1>7, <1>8, <1>9

\* A directory that is through leaves nothing behind.
LEMMA ReturnShape ==
  ASSUME NEW s \in Stacks, s # << >>, Last(s) = << >>
  PROVE  /\ Front(s) \in Stacks /\ Len(Front(s)) = Len(s) - 1
         /\ \A i \in 1 .. Len(s) - 1 : Front(s)[i] = s[i]
         /\ Len(s) = 1 => Front(s) = << >>
         /\ Len(s) # 1 => Front(s) # << >>
         /\ Pending(Front(s)) = Pending(s)
         /\ Apart(s) => Apart(Front(s))
<1> DEFINE n == Len(s)
           t == Front(s)
<1>1. /\ t \in Stacks /\ Len(t) = n - 1 /\ n \in Nat \ {0} /\ Len(s[n]) = 0
      /\ \A i \in 1 .. n - 1 : t[i] = s[i]
  BY FrontIs DEF Stacks, Last
<1>2. (n = 1 => t = << >>) /\ (n # 1 => t # << >>)
  BY <1>1 DEF Stacks
<1> HIDE DEF t
<1>3. \A i : i \in 1 .. n <=> i \in 1 .. n - 1 \/ i = n
  BY <1>1
<1>4. \A e : e \in Pending(t) <=> e \in Pending(s)
  <2>1. \A e : e \in Pending(t) <=> \E i \in 1 .. n - 1 : \E k \in 1 .. Len(s[i]) : e = s[i][k]
    BY <1>1, PendingIs
  <2>2. \A e : e \in Pending(s) <=> \E i \in 1 .. n : \E k \in 1 .. Len(s[i]) : e = s[i][k]
    BY PendingIs
  <2>3. ~ \E k \in 1 .. Len(s[n]) : TRUE
    BY <1>1
  <2> HIDE DEF n
  <2> QED
    BY <1>3, <2>1, <2>2, <2>3
<1>5. Apart(s) => Apart(t)
  <2>1. \A i \in 1 .. Len(t) : i \in 1 .. Len(s) /\ t[i] = s[i]
    BY <1>1
  <2> QED
    BY <2>1 DEF Apart
<1> QED
  BY <1>1, <1>2, <1>4, <1>5 DEF t

-----------------------------------------------------------------------------
(* The console's files, and what another program does to them. *)

LEMMA TreeIs ==
  ASSUME NEW fs, IsTree(fs)
  PROVE  /\ DOMAIN fs \subseteq Path /\ IsFiniteSet(DOMAIN fs) /\ << >> \notin DOMAIN fs
         /\ \A p \in DOMAIN fs : fs[p] \in Nat /\ Len(p) \in Nat \ {0}
         /\ \A p \in DOMAIN fs : \A q \in Path :
              IsPrefix(q, p) /\ q # p /\ q # << >> => q \in DOMAIN fs /\ fs[q] = Dir
<1>1. /\ DOMAIN fs \subseteq Path /\ IsFiniteSet(DOMAIN fs) /\ << >> \notin DOMAIN fs
      /\ \A p \in DOMAIN fs : fs[p] \in Nat
  BY DEF IsTree, Path
<1>2. \A p \in DOMAIN fs : Len(p) \in Nat \ {0}
  BY <1>1 DEF Path
<1>3. ASSUME NEW p \in DOMAIN fs, NEW q \in Path, IsPrefix(q, p), q # p, q # << >>
      PROVE  q \in DOMAIN fs /\ fs[q] = Dir
  <2>1. p \in Path /\ q = SubSeq(p, 1, Len(q)) /\ Len(q) \in 0 .. Len(p)
    BY <1>1, <1>3, PrefixIs
  <2>2. Len(q) # Len(p)
    BY <1>3, <2>1, PrefixSame DEF Path
  <2>3. Len(q) # 0
    BY <1>3 DEF Path
  <2>4. Len(q) \in 1 .. Len(p) - 1
    BY <1>2, <2>1, <2>2, <2>3
  <2> QED
    BY <2>1, <2>4 DEF IsTree
<1> QED
  BY <1>1, <1>2, <1>3

\* And the other way round.
LEMMA TreeWhen ==
  ASSUME NEW fs, DOMAIN fs \subseteq Path, IsFiniteSet(DOMAIN fs), << >> \notin DOMAIN fs,
         \A p \in DOMAIN fs : fs[p] \in Nat,
         \A p \in DOMAIN fs : \A q \in Path :
           IsPrefix(q, p) /\ q # p /\ q # << >> => q \in DOMAIN fs /\ fs[q] = Dir
  PROVE  IsTree(fs)
<1> SUFFICES ASSUME NEW p \in DOMAIN fs, NEW n \in 1 .. Len(p) - 1
             PROVE  SubSeq(p, 1, n) \in DOMAIN fs /\ fs[SubSeq(p, 1, n)] = Dir
  BY DEF IsTree, Path
<1>1. Len(p) \in Nat /\ n \in 0 .. Len(p)
  BY DEF Path
<1>2. /\ SubSeq(p, 1, n) \in Path /\ Len(SubSeq(p, 1, n)) = n
      /\ IsPrefix(SubSeq(p, 1, n), p)
  BY <1>1, PrefixOf
<1>3. SubSeq(p, 1, n) # p /\ SubSeq(p, 1, n) # << >>
  BY <1>1, <1>2
<1> QED
  BY <1>2, <1>3

\* A file or a directory is put where there is none, in a directory.
LEMMA PutTree ==
  ASSUME NEW fs, IsTree(fs), NEW p \in Path, Len(p) > 1, NEW what \in Nat,
         Front(p) \in DOMAIN fs, fs[Front(p)] = Dir, ~ (p \in DOMAIN fs /\ fs[p] = Dir)
  PROVE  IsTree(Put(fs, p, what))
<1> DEFINE g == Put(fs, p, what)
<1>1. /\ DOMAIN fs \subseteq Path /\ IsFiniteSet(DOMAIN fs) /\ << >> \notin DOMAIN fs
      /\ \A r \in DOMAIN fs : fs[r] \in Nat /\ Len(r) \in Nat \ {0}
      /\ \A r \in DOMAIN fs : \A q \in Path :
           IsPrefix(q, r) /\ q # r /\ q # << >> => q \in DOMAIN fs /\ fs[q] = Dir
  BY TreeIs
<1>2. /\ DOMAIN g = DOMAIN fs \cup {p} /\ g[p] = what
      /\ \A q \in DOMAIN fs : q # p => g[q] = fs[q]
  BY DEF Put
<1> HIDE DEF g
<1>3. IsFiniteSet(DOMAIN g)
  BY <1>1, <1>2, FS_AddElement
<1>4. \A q \in DOMAIN g : g[q] \in Nat
  BY <1>1, <1>2
<1>5. p # << >>
  OBVIOUS
<1>6. ASSUME NEW r \in DOMAIN g, NEW q \in Path, IsPrefix(q, r), q # r, q # << >>
      PROVE  q \in DOMAIN g /\ g[q] = Dir
  <2>1. CASE r \in DOMAIN fs
    <3>1. q \in DOMAIN fs /\ fs[q] = Dir
      BY <1>1, <1>6, <2>1
    <3> QED
      BY <1>2, <3>1
  <2>2. CASE r = p
    <3>1. Front(p) \in Path /\ Child(p, Front(p))
      BY <1>1, ChildFront
    <3>2. IsPrefix(q, Front(p))
      BY <1>6, <2>2, <3>1, ChildBelow
    <3>3. q \in DOMAIN fs /\ fs[q] = Dir
      BY <1>1, <1>6, <3>2
    <3> QED
      BY <1>2, <3>3
  <2> QED
    BY <1>2, <2>1, <2>2
<1>7. DOMAIN g \subseteq Path /\ << >> \notin DOMAIN g
  BY <1>1, <1>2, <1>5
<1> QED
  BY <1>3, <1>4, <1>6, <1>7, TreeWhen DEF g

LEMMA PutDrive ==
  ASSUME NEW fs, IsTree(fs)
  PROVE  IsTree(Put(fs, Flash, Dir))
<1> DEFINE g == Put(fs, Flash, Dir)
<1>1. /\ DOMAIN fs \subseteq Path /\ IsFiniteSet(DOMAIN fs) /\ << >> \notin DOMAIN fs
      /\ \A r \in DOMAIN fs : fs[r] \in Nat /\ Len(r) \in Nat \ {0}
      /\ \A r \in DOMAIN fs : \A q \in Path :
           IsPrefix(q, r) /\ q # r /\ q # << >> => q \in DOMAIN fs /\ fs[q] = Dir
  BY TreeIs
<1>2. /\ DOMAIN g = DOMAIN fs \cup {Flash} /\ g[Flash] = Dir
      /\ \A q \in DOMAIN fs : q # Flash => g[q] = fs[q]
  BY DEF Put
<1>3. Flash \in Path /\ Len(Flash) = 1 /\ Flash # << >> /\ Dir \in Nat
  BY DEF Flash, Path, Dir
<1> HIDE DEF g
<1>4. IsFiniteSet(DOMAIN g)
  BY <1>1, <1>2, FS_AddElement
<1>5. \A q \in DOMAIN g : g[q] \in Nat
  BY <1>1, <1>2, <1>3
<1>6. ASSUME NEW r \in DOMAIN g, NEW q \in Path, IsPrefix(q, r), q # r, q # << >>
      PROVE  q \in DOMAIN g /\ g[q] = Dir
  <2>1. CASE r \in DOMAIN fs
    <3>1. q \in DOMAIN fs /\ fs[q] = Dir
      BY <1>1, <1>6, <2>1
    <3> QED
      BY <1>2, <3>1
  <2>2. CASE r = Flash
    <3>1. Len(q) <= 1 /\ Len(q) \in Nat
      BY <1>3, <1>6, <2>2, PrefixIndex DEF Path
    <3>2. Len(q) # 0
      BY <1>6 DEF Path
    <3>3. IsPrefix(q, Flash) /\ Len(Flash) <= Len(q)
      BY <1>3, <1>6, <2>2, <3>1, <3>2
    <3>4. q = Flash
      BY <1>3, <3>3, PrefixSame
    <3> QED
      BY <1>6, <2>2, <3>4
  <2> QED
    BY <1>2, <2>1, <2>2
<1>7. DOMAIN g \subseteq Path /\ << >> \notin DOMAIN g
  BY <1>1, <1>2, <1>3
<1> QED
  BY <1>4, <1>5, <1>6, <1>7, TreeWhen DEF g

\* What is at and below a path is taken away.
LEMMA CutTree ==
  ASSUME NEW fs, IsTree(fs), NEW p \in Path
  PROVE  IsTree([q \in {r \in DOMAIN fs : ~ IsPrefix(p, r)} |-> fs[q]])
<1> DEFINE D == {r \in DOMAIN fs : ~ IsPrefix(p, r)}
           g == [q \in D |-> fs[q]]
<1>1. /\ DOMAIN fs \subseteq Path /\ IsFiniteSet(DOMAIN fs) /\ << >> \notin DOMAIN fs
      /\ \A r \in DOMAIN fs : fs[r] \in Nat
      /\ \A r \in DOMAIN fs : \A q \in Path :
           IsPrefix(q, r) /\ q # r /\ q # << >> => q \in DOMAIN fs /\ fs[q] = Dir
  BY TreeIs
<1>2. DOMAIN g = D /\ \A q \in D : g[q] = fs[q]
  OBVIOUS
<1>3. IsFiniteSet(D)
  BY <1>1, FS_Subset
<1>4. ASSUME NEW r \in D, NEW q \in Path, IsPrefix(q, r), q # r, q # << >>
      PROVE  q \in D /\ fs[q] = Dir
  <2>1. q \in DOMAIN fs /\ fs[q] = Dir
    BY <1>1, <1>4
  <2>2. ~ IsPrefix(p, q)
    BY <1>1, <1>4, PrefixTrans
  <2> QED
    BY <2>1, <2>2
<1>5. D \subseteq Path /\ << >> \notin D /\ \A q \in D : fs[q] \in Nat
  BY <1>1
<1> HIDE DEF D
<1>6. /\ DOMAIN g \subseteq Path /\ IsFiniteSet(DOMAIN g) /\ << >> \notin DOMAIN g
      /\ \A q \in DOMAIN g : g[q] \in Nat
      /\ \A r \in DOMAIN g : \A q \in Path :
           IsPrefix(q, r) /\ q # r /\ q # << >> => q \in DOMAIN g /\ g[q] = Dir
  BY <1>2, <1>3, <1>4, <1>5
<1> HIDE DEF g
<1>7. IsTree(g)
  BY <1>6, TreeWhen
<1> QED
  BY <1>7 DEF g, D

\* What nobody touched is there as it was, or is not there as it was not.
LEMMA EditKeeps ==
  ASSUME Edit, IsTree(remote), touched \subseteq Path
  PROVE  /\ IsTree(remote') /\ touched' \subseteq Path
         /\ \A p \in Path : Untouched(p)' =>
              /\ Untouched(p)
              /\ p \in DOMAIN remote' <=> p \in DOMAIN remote
              /\ p \in DOMAIN remote => remote'[p] = remote[p]
<1>1. PICK p \in {q \in Known : Len(q) > 1 /\ IsDir(Front(q))} :
        /\ touched' = touched \cup {p}
        /\ \/ Holds(p) /\ remote' = [q \in {r \in DOMAIN remote : ~ IsPrefix(p, r)} |-> remote[q]]
           \/ ~ IsDir(p) /\ remote' = Put(remote, p, IF Holds(p) THEN remote[p] + 1 ELSE 1)
           \/ ~ Holds(p) /\ remote' = Put(remote, p, Dir)
  BY DEF Edit
<1>2. p \in Path
  BY ToolAssumption DEF Known, IsTree, Path
<1>3. Len(p) > 1 /\ Front(p) \in DOMAIN remote /\ remote[Front(p)] = Dir
  BY DEF IsDir, Holds
<1>4. IsTree(remote')
  <2>1. CASE remote' = [q \in {r \in DOMAIN remote : ~ IsPrefix(p, r)} |-> remote[q]]
    BY <1>2, <2>1, CutTree
  <2>2. CASE ~ IsDir(p) /\ remote' = Put(remote, p, IF Holds(p) THEN remote[p] + 1 ELSE 1)
    <3>1. (IF Holds(p) THEN remote[p] + 1 ELSE 1) \in Nat
      BY DEF IsTree, Holds
    <3>2. ~ (p \in DOMAIN remote /\ remote[p] = Dir)
      BY <2>2 DEF IsDir, Holds
    <3> QED
      BY <1>2, <1>3, <2>2, <3>1, <3>2, PutTree
  <2>3. CASE ~ Holds(p) /\ remote' = Put(remote, p, Dir)
    <3>1. Dir \in Nat
      BY DEF Dir
    <3>2. ~ (p \in DOMAIN remote /\ remote[p] = Dir)
      BY <2>3 DEF Holds
    <3> QED
      BY <1>2, <1>3, <2>3, <3>1, <3>2, PutTree
  <2> QED
    BY <1>1, <2>1, <2>2, <2>3
<1>5. ASSUME NEW q \in Path, Untouched(q)'
      PROVE  /\ Untouched(q)
             /\ q \in DOMAIN remote' <=> q \in DOMAIN remote
             /\ q \in DOMAIN remote => remote'[q] = remote[q]
  <2>1. ~ IsPrefix(p, q) /\ Untouched(q)
    BY <1>1, <1>5 DEF Untouched
  <2>2. q # p
    BY <1>2, <2>1, PrefixRefl
  <2>3. CASE remote' = [r \in {s \in DOMAIN remote : ~ IsPrefix(p, s)} |-> remote[r]]
    BY <2>1, <2>3
  <2>4. CASE \E what : remote' = Put(remote, p, what)
    BY <2>1, <2>2, <2>4 DEF Put
  <2> QED
    BY <1>1, <2>1, <2>3, <2>4
<1> QED
  BY <1>1, <1>2, <1>4, <1>5

\* What nobody touched lies in directories nobody touched.
LEMMA UntouchedAbove ==
  ASSUME NEW p \in Path, NEW q \in Path, IsPrefix(q, p), Untouched(p), touched \subseteq Path
  PROVE  Untouched(q)
BY PrefixTrans DEF Untouched

-----------------------------------------------------------------------------
(* Steps that visit nothing: one typed command, an upload, the end. *)

LEMMA WordsAre ==
  /\ \A w \in Words : <<w>> \in Requests
  /\ \A w \in Words, p \in Path : <<w, p>> \in Requests
  /\ \A w \in {"getmem", "setmem"}, m \in Memory : <<w, m>> \in Requests
  /\ \A v, w : <<v>> = <<w>> => v = w
  /\ \A v, w, p, q : <<v, p>> = <<w, q>> => v = w /\ p = q
  /\ \A v, w, p : <<v>> # <<w, p>>
BY DEF Requests

LEMMA NothingSaid ==
  ASSUME sent = << >>
  PROVE  Spoken /\ Probed /\ \A p : ~ AskedFor(p)
BY DEF Spoken, Probed, AskedOnce, AskedFor

LEMMA SameWords ==
  ASSUME sent' = sent
  PROVE  /\ AskedOnce' <=> AskedOnce
         /\ Spoken' <=> Spoken
         /\ Probed' <=> Probed
         /\ \A p : AskedFor(p)' <=> AskedFor(p)
BY DEF AskedOnce, Spoken, Probed, AskedFor

LEMMA ConnectionIs ==
  /\ Connection \in {"main", "probe", "download"}
  /\ Connection = "probe" <=> job.command = "nand-dump" /\ at = "probing"
BY DEF Connection

\* When nothing is said twice, nor after bye.
LEMMA SaidOnce ==
  ASSUME DOMAIN sent' = 1 .. Len(sent'),
         \A i \in 1 .. Len(sent') : \A j \in 1 .. Len(sent') : i < j =>
           /\ sent'[i].asks = sent'[j].asks => sent'[i].on # sent'[j].on /\ sent'[i].asks \in Harmless
           /\ sent'[i].asks = <<"bye">> => sent'[i].on # sent'[j].on
  PROVE  AskedOnce'
BY DEF AskedOnce, Harmless

\* One more thing said, which is new, or harmless and new on its connection.
LEMMA Saying ==
  ASSUME Spoken, NEW on \in {"main", "probe", "hijack", "restore", "download"}, NEW x \in Requests,
         \A i \in 1 .. Len(sent) :
           /\ sent[i].asks = x => sent[i].on # on /\ x \in Harmless
           /\ sent[i].asks = <<"bye">> => sent[i].on # on,
         sent' = Append(sent, [on |-> on, asks |-> x])
  PROVE  /\ sent' \in Seq(Sends) /\ AskedOnce'
         /\ (x = <<"bye">> => on = "probe") => Spoken'
         /\ on = "probe" /\ x \in Harmless /\ Probed => Probed'
         /\ \A p : AskedFor(p)' <=> AskedFor(p) \/ x \in About(p)
<1> DEFINE e == [on |-> on, asks |-> x]
<1>1. sent \in Seq(Sends) /\ e \in Sends /\ e.on = on /\ e.asks = x
  BY DEF Spoken, Sends
<1>2. /\ sent' \in Seq(Sends) /\ Len(sent') = Len(sent) + 1 /\ Len(sent) \in Nat
      /\ \A i \in 1 .. Len(sent) : sent'[i] = sent[i]
      /\ sent'[Len(sent) + 1] = e
      /\ DOMAIN sent' = 1 .. Len(sent') /\ DOMAIN sent = 1 .. Len(sent)
  <2> HIDE DEF e
  <2>1. sent' = Append(sent, e)
    BY DEF e
  <2> QED
    BY <1>1, <2>1, WithOneMore
<1> HIDE DEF e
<1>3. \A i : i \in 1 .. Len(sent') <=> i \in 1 .. Len(sent) \/ i = Len(sent) + 1
  BY <1>2
<1>4. AskedOnce'
  <2> SUFFICES ASSUME NEW i \in 1 .. Len(sent'), NEW j \in 1 .. Len(sent'), i < j
               PROVE  /\ sent'[i].asks = sent'[j].asks =>
                           sent'[i].on # sent'[j].on /\ sent'[i].asks \in Harmless
                      /\ sent'[i].asks = <<"bye">> => sent'[i].on # sent'[j].on
    BY <1>2, SaidOnce
  <2>1. i \in 1 .. Len(sent) /\ sent'[i] = sent[i]
    BY <1>2, <1>3
  <2>2. CASE j \in 1 .. Len(sent)
    <3>1. sent'[j] = sent[j]
      BY <1>2, <2>2
    <3> QED
      BY <1>2, <2>1, <2>2, <3>1 DEF Spoken, AskedOnce
  <2>3. CASE j = Len(sent) + 1
    BY <1>1, <1>2, <2>1, <2>3
  <2> QED
    BY <1>3, <2>2, <2>3
<1>5. (\A i \in 1 .. Len(sent) : sent[i].asks = <<"bye">> => sent[i].on = "probe")
  BY DEF Spoken
<1>6. (x = <<"bye">> => on = "probe") => Spoken'
  <2> SUFFICES ASSUME x = <<"bye">> => on = "probe", NEW i \in 1 .. Len(sent'), sent'[i].asks = <<"bye">>
               PROVE  sent'[i].on = "probe"
    BY <1>2, <1>4 DEF Spoken
  <2>1. CASE i \in 1 .. Len(sent)
    BY <1>2, <1>5, <2>1
  <2>2. CASE i = Len(sent) + 1
    BY <1>1, <1>2, <2>2
  <2> QED
    BY <1>3, <2>1, <2>2
<1>7. on = "probe" /\ x \in Harmless /\ Probed => Probed'
  BY <1>1, <1>2, <1>3 DEF Probed, Harmless
<1>8. \A p : AskedFor(p)' <=> AskedFor(p) \/ x \in About(p)
  BY <1>1, <1>2, <1>3 DEF AskedFor, About
<1> QED
  BY <1>2, <1>4, <1>6, <1>7, <1>8

LEMMA CommandWords ==
  /\ Commands \subseteq Words /\ "bye" \notin Commands
  /\ {"bye", "notify", "getfileattributes", "sendfile", "dirlist", "getfile", "drivelist",
       "modules", "altaddr"} \subseteq Words
  /\ Arms \subseteq Commands /\ Uploads \subseteq Commands /\ OwnConnections \subseteq Commands
  /\ {"get", "tree", "nand-dump"} \cap Uploads = {}
  /\ {"get", "tree"} \cap OwnConnections = {}
  /\ {"get", "tree", "nand-dump"} \cap Arms = {}
  /\ {"get", "tree", "nand-dump"} \cap LocalOnly = {}
  /\ "nand-dump" \in OwnConnections /\ "drivemap-enable" \in OwnConnections
BY DEF Words, Commands, Arms, Uploads, LocalOnly, OwnConnections, InfoArms, FileArms, HostArms,
       ProcessArms, MemoryArms, ControlArms, OtherArms

Visits == {"fetching", "storing", "walking", "mirroring"}

\* What may be said where nothing is visited.
Talks ==
  /\ sent' \in Seq(Sends) /\ AskedOnce'
  /\ at' \in Fresh => sent' = << >>
  /\ at' = "enabling" => Probed'
  /\ at' \notin Ended => Spoken'
  /\ \A p \in Path : AskedFor(p)' <=> AskedFor(p)

\* A step that visits nothing, as the invariant sees it.
Plain ==
  /\ UNCHANGED <<job, stack, printed, fetch, local>>
  /\ touched' \subseteq Path
  /\ job.command \notin Uploads => touched' = touched /\ IsTree(remote')
  /\ job.command \in {"get", "tree"} => remote' = remote
  /\ at \notin Visits /\ at' \notin Visits
  /\ result' # "error" => result # "error"
  /\ Stages'
  /\ at' \in Fresh => at \in Fresh
  /\ at' \in Wordy => at \in Fresh \cup Wordy
  /\ at \in Ended => at' \in Ended
  /\ at' \notin {"start", "rooting"} /\ result' # "error" /\ job.command = "tree" =>
       at \notin {"start", "rooting"}
  /\ at' \in {"leaving"} \cup Ended /\ result' # "error" /\ job.command \in {"tree", "get", "nand-dump"} =>
       at \in {"leaving"} \cup Ended
  /\ Talks

\* What the tree says, said of the same tree.
LEMMA SameTree ==
  ASSUME UNCHANGED <<job, stack, printed>>
  PROVE  /\ \A n : InDepth(n)' <=> InDepth(n)
         /\ \A p, n : (Founded(p, n)' <=> Founded(p, n)) /\ (Rooted(p, n)' <=> Rooted(p, n))
         /\ \A p : (IsRoot(p)' <=> IsRoot(p)) /\ RootOf(p)' = RootOf(p)
         /\ \A p : (WasListed(p)' <=> WasListed(p)) /\ (Found(p)' <=> Found(p)) /\ (Shows(p)' <=> Shows(p))
         /\ \A e, i : LevelOf(e, i)' <=> LevelOf(e, i)
         /\ Base' = Base
<1>1. Base' = Base /\ Pending(stack)' = Pending(stack)
  BY DEF Base, Pending
<1>2. \A n : InDepth(n)' <=> InDepth(n)
  BY DEF InDepth
<1>3. \A p : (IsRoot(p)' <=> IsRoot(p)) /\ RootOf(p)' = RootOf(p)
  BY <1>1 DEF IsRoot, RootOf
<1>4. \A p, n : (Founded(p, n)' <=> Founded(p, n)) /\ (Rooted(p, n)' <=> Rooted(p, n))
  BY <1>3 DEF Founded, Rooted
<1>5. \A p : (WasListed(p)' <=> WasListed(p)) /\ (Shows(p)' <=> Shows(p))
  BY DEF WasListed, Shows
<1>6. \A p : Found(p)' <=> Found(p)
  BY <1>1, <1>5 DEF Found
<1>7. \A e, i : LevelOf(e, i)' <=> LevelOf(e, i)
  BY <1>1, <1>3, <1>4 DEF LevelOf
<1> QED
  BY <1>1, <1>2, <1>3, <1>4, <1>5, <1>6, <1>7

LEMMA PlainKeeps ==
  ASSUME ToolInv, Plain
  PROVE  ToolInv'
<1> USE DEF ToolInv
<1>1. Typed'
  BY DEF Plain, Talks, Typed
<1>2. Stages'
  BY DEF Plain
<1>3. Asked'
  <2>1. \A e : e \in Pending(stack) <=> e \in Pending(stack)'
    BY DEF Plain, Pending
  <2>2. \A p \in Path : Visited(p)' => Visited(p)
    BY DEF Plain, Talks, Visits, Visited, Shows
  <2>3. Ahead'
    BY <2>1, <2>2 DEF Asked, Ahead, Plain
  <2>4. Apart(stack)'
    BY DEF Asked, Apart, Plain
  <2>5. at' \in Fresh => sent' = << >> /\ printed' = << >> /\ stack' = << >>
    BY DEF Plain, Talks, Asked
  <2>6. (at' = "fetching" => ~ AskedFor(fetch.path)') /\ (at' \in {"walking", "mirroring"} => stack' # << >>)
    BY DEF Plain, Visits
  <2>7. at' \in Wordy => \A p \in Path : ~ AskedFor(p)'
    <3>1. at \in Fresh => \A p : ~ AskedFor(p)
      BY NothingSaid DEF Asked
    <3> QED
      BY <3>1 DEF Plain, Talks, Asked
  <2> QED
    BY <2>3, <2>4, <2>5, <2>6, <2>7 DEF Asked, Plain, Talks
<1>4. Tree'
  <2> SUFFICES ASSUME job.command = "tree"
               PROVE  Tree'
    BY DEF Tree, Plain
  <2>1. /\ UNCHANGED <<job, stack, printed, remote, touched>>
        /\ at' \notin {"start", "rooting"} /\ result' # "error" => at \notin {"start", "rooting"} /\ result # "error"
        /\ at' \notin {"start", "rooting", "walking"} /\ result' # "error" =>
             at \notin {"start", "rooting", "walking"} /\ result # "error"
    BY CommandWords DEF Plain, Visits
  <2>2. \A p : (Untouched(p)' <=> Untouched(p)) /\ (IsDir(p)' <=> IsDir(p))
    BY <2>1 DEF Untouched, IsDir, Holds
  <2>3. Roots' = Roots
    BY <2>1 DEF Roots, Children
  <2> QED
    BY <2>1, <2>2, <2>3, SameTree DEF Tree
<1>5. Mirror'
  <2>1. result' # "error" => result # "error"
    BY DEF Plain
  <2>2. (result' # "error" => \A p \in DOMAIN local' : local'[p] # Part) /\ at' # "storing"
    BY <2>1 DEF Plain, Mirror, Visits
  <2>3. job'.command = "nand-dump" =>
          /\ at' \notin {"fetching", "storing"}
          /\ at' \in {"storing", "leaving"} \cup Ended /\ result' # "error" => stack' = << >>
          /\ at' \in {"leaving"} \cup Ended /\ result' # "error" => Flash \in DOMAIN local' /\ local'[Flash] = Image
          /\ at' \notin Ended => stack' = << >>
    BY <2>1 DEF Plain, Mirror, Visits, Ended
  <2>4. ASSUME job'.command = "get"
        PROVE  /\ at' \in Fresh => local' = << >>
               /\ at' \in {"leaving"} \cup Ended /\ result' # "error" => stack' = << >>
               /\ \A e \in Pending(stack') :
                    /\ e.dir \/ Len(e.path) > 1
                    /\ Untouched(e.path)' => e.path \in DOMAIN remote' /\ IsDir(e.path)' = e.dir
               /\ stack' # << >> /\ result' # "error" => Covered'
               /\ stack' = << >> /\ result' # "error" /\ job'.path \in DOMAIN local' /\ local'[job'.path] = Dir => Covered'
    <3>1. UNCHANGED <<job, stack, local, remote, touched>> /\ job.command = "get"
      BY <2>4, CommandWords DEF Plain
    <3>2. Covered => Covered'
      BY <3>1 DEF Plain, Visits, Covered, Untouched, Here, Awaited, Fetching, Pending
    <3>3. (at' \in Fresh => at \in Fresh)
          /\ (at' \in {"leaving"} \cup Ended /\ result' # "error" => at \in {"leaving"} \cup Ended)
      BY <3>1 DEF Plain
    <3> QED
      BY <2>1, <3>1, <3>2, <3>3 DEF Mirror, Untouched, IsDir, Holds
  <2> QED
    BY <2>2, <2>3, <2>4 DEF Mirror, Plain, Visits
<1> QED
  BY <1>1, <1>2, <1>3, <1>4, <1>5

LEMMA SaidIs ==
  ASSUME NEW x
  PROVE  /\ Answers(x) => sent' = Append(sent, Exchange(x)) /\ link = "up" /\ link' = "up"
         /\ Fails(x) => sent' = sent \/ sent' = Append(sent, Exchange(x))
BY DEF Answers, Fails, Refuses, Breaks

LEMMA EndsIs ==
  ASSUME NEW outcome, Ends(outcome)
  PROVE  at' \in Ended /\ result' = outcome
BY DEF Ends, Ended

LEMMA FirstIs ==
  ASSUME NEW c \in Commands \ LocalOnly
  PROVE  /\ First(c) \in {"running", "leaving", "rooting", "stating", "opening", "probing",
                          "enabling", "subscribing"}
         /\ First(c) = "running" => c \in Arms
         /\ First(c) = "leaving" => c = "ping"
         /\ First(c) = "rooting" => c = "tree"
         /\ First(c) = "stating" => c = "get"
         /\ First(c) = "opening" => c \in Uploads
         /\ First(c) = "probing" => c = "nand-dump"
         /\ First(c) = "enabling" => c = "drivemap-enable"
         /\ First(c) = "subscribing" => c = "pix-notify"
         /\ c = "tree" => First(c) = "rooting"
<1>1. c \in Arms \/ c \in Uploads \/ c \in OwnConnections \/ c \in {"ping", "tree", "get"}
  BY DEF Commands
<1>2. c \in OwnConnections <=> c \in {"drivemap-enable", "nand-dump", "pix-notify"}
  BY DEF OwnConnections
<1>3. {"ping", "tree", "get"} \cap Uploads = {} /\ {"ping", "tree", "get"} \cap Arms = {}
      /\ Uploads \cap OwnConnections = {} /\ Arms \cap OwnConnections = {} /\ Arms \cap Uploads = {}
  BY DEF Arms, Uploads, OwnConnections, InfoArms, FileArms, HostArms,
         ProcessArms, MemoryArms, ControlArms, OtherArms
<1>4. CASE c \in Arms
  BY <1>3, <1>4, c # "tree" DEF First
<1>5. CASE c \in Uploads
  BY <1>3, <1>5, c \notin Arms, c \notin {"ping", "tree", "get"} DEF First, Uploads
<1>6. CASE c \in OwnConnections
  BY <1>2, <1>3, <1>6, c \notin Arms, c \notin Uploads DEF First
<1>7. CASE c \in {"ping", "tree", "get"}
  BY <1>3, <1>7, c \notin Arms, c \notin Uploads DEF First
<1> QED
  BY <1>1, <1>4, <1>5, <1>6, <1>7

\* What is said, and when.
LEMMA SaysNothing ==
  ASSUME ToolInv, sent' = sent, at' \in Fresh => at \in Fresh,
         at' = "enabling" => at \in Fresh \cup {"enabling"}, at' \notin Ended => at \notin Ended
  PROVE  Talks
<1>1. at \in Fresh => sent = << >> /\ Probed
  BY NothingSaid DEF ToolInv, Asked
<1> QED
  BY <1>1, SameWords DEF ToolInv, Typed, Asked, Talks

LEMMA SaysFirst ==
  ASSUME ToolInv, at \in Fresh, at' \notin Fresh, at' # "enabling",
         NEW x \in Requests \ {<<"bye">>}, \A p \in Path : x \notin About(p),
         sent' = Append(sent, Exchange(x))
  PROVE  Talks
<1>1. sent = << >> /\ Spoken /\ \A p : ~ AskedFor(p)
  BY NothingSaid DEF ToolInv, Asked
<1>2. Len(sent) = 0
  BY <1>1
<1>3. sent' \in Seq(Sends) /\ AskedOnce' /\ Spoken' /\ \A p : AskedFor(p)' <=> AskedFor(p) \/ x \in About(p)
  BY <1>1, <1>2, ConnectionIs, Saying DEF Exchange
<1> QED
  BY <1>1, <1>3 DEF Talks

LEMMA SaysBye ==
  ASSUME ToolInv, at = "leaving", at' \in Ended, sent' = Append(sent, Exchange(<<"bye">>))
  PROVE  Talks
<1>1. Spoken /\ Connection # "probe" /\ at' \notin Fresh /\ at' # "enabling"
  BY ConnectionIs DEF ToolInv, Asked, Ended, Fresh
<1>2. <<"bye">> \in Requests /\ \A p : <<"bye">> \notin About(p)
  BY WordsAre, CommandWords DEF About
<1>3. \A i \in 1 .. Len(sent) : sent[i].asks = <<"bye">> => sent[i].on # Connection
  BY <1>1 DEF Spoken
<1>4. sent' \in Seq(Sends) /\ AskedOnce' /\ \A p : AskedFor(p)' <=> AskedFor(p) \/ <<"bye">> \in About(p)
  BY <1>1, <1>2, <1>3, ConnectionIs, Saying DEF Exchange, Harmless
<1> QED
  BY <1>1, <1>2, <1>4 DEF Talks

LEMMA StartIsPlain ==
  ASSUME ToolInv, Start
  PROVE  Plain
<1>1. job.command \in Commands \ LocalOnly /\ at = "start" /\ result = "none"
  BY DEF Start, ToolInv, Typed, Job, Stages, Ended
<1>2. UNCHANGED <<job, remote, touched, local, stack, fetch, printed, sent>>
  BY DEF Start, NothingElse, tool
<1>3. \/ at' = First(job.command) /\ result' = result
      \/ at' \in Ended /\ result' = "error"
  BY EndsIs DEF Start, Proceeds, Ended
<1>4. touched' \subseteq Path /\ (job.command \notin Uploads => IsTree(remote'))
  BY <1>2 DEF ToolInv, Typed
<1>5. Talks
  <2>1. at \in Fresh /\ at \notin Ended
    BY <1>1 DEF Fresh, Ended
  <2> QED
    BY <1>2, <2>1, SaysNothing
<1>6. CASE at' = First(job.command) /\ result' = result
  <2>1. /\ at' \in {"running", "leaving", "rooting", "stating", "opening", "probing",
                    "enabling", "subscribing"}
        /\ at' = "running" => job.command \in Arms
        /\ at' = "leaving" => job.command = "ping"
        /\ at' = "rooting" => job.command = "tree"
        /\ at' = "stating" => job.command = "get"
        /\ at' = "opening" => job.command \in Uploads
        /\ at' = "probing" => job.command = "nand-dump"
        /\ at' = "enabling" => job.command = "drivemap-enable"
        /\ at' = "subscribing" => job.command = "pix-notify"
        /\ job.command = "tree" => at' = "rooting"
    BY <1>1, <1>6, FirstIs
  <2> QED
    BY <1>1, <1>2, <1>4, <1>6, <1>5, <2>1, CommandWords DEF Plain, Stages, Visits, Fresh, Wordy, Ended
<1>7. CASE at' \in Ended /\ result' = "error"
  BY <1>1, <1>2, <1>4, <1>7, <1>5 DEF Plain, Stages, Visits, Fresh, Wordy, Ended
<1> QED
  BY <1>3, <1>6, <1>7

\* A command line that nothing is said of but what it says.
LEMMA WordIsPlain ==
  ASSUME ToolInv, NothingElse, at \in Fresh \ {"start", "rooting", "stating"},
         at' \notin Fresh \cup Wordy, NEW w \in Words \ {"bye"},
         sent' = sent \/ sent' = Append(sent, Exchange(<<w>>)),
         at' \notin Visits, Stages', result' # "error" => result # "error",
         at' \in Ended /\ job.command \in {"tree", "get", "nand-dump"} => result' = "error",
         at' = "leaving" => job.command \notin {"tree", "get", "nand-dump"}
  PROVE  Plain
<1>1. UNCHANGED <<job, remote, touched, local, stack, fetch, printed>>
  BY DEF NothingElse, tool
<1>2. touched' \subseteq Path /\ (job.command \notin Uploads => IsTree(remote'))
  BY <1>1 DEF ToolInv, Typed
<1>3. at \notin Visits /\ at \notin Ended /\ at \notin {"start", "rooting"} /\ at' # "enabling"
  BY DEF Visits, Fresh, Ended, Wordy
<1>4. Talks
  <2>1. <<w>> \in Requests \ {<<"bye">>} /\ \A p \in Path : <<w>> \notin About(p)
    BY WordsAre DEF About
  <2> QED
    BY <1>3, <2>1, SaysNothing, SaysFirst
<1> QED
  BY <1>1, <1>2, <1>3, <1>4 DEF Plain

LEMMA CommandIsPlain ==
  ASSUME ToolInv, RunCommand \/ Subscribe
  PROVE  Plain
<1> USE DEF Visits, Fresh, Wordy, Ended, Stages
<1>1. CASE RunCommand
  <2>1. /\ at = "running" /\ NothingElse /\ job.command \in Words \ {"bye"} /\ job' = job
        /\ job.command \notin {"tree", "get", "nand-dump"}
    BY <1>1, CommandWords DEF RunCommand, ToolInv, Typed, Job, NothingElse, tool
  <2>2. sent' = sent \/ sent' = Append(sent, Exchange(<<job.command>>))
    BY <1>1, SaidIs DEF RunCommand
  <2>3. (at' \in {"saving", "leaving"} /\ result' = result) \/ (at' \in Ended /\ result' = "error")
    BY <1>1, EndsIs DEF RunCommand, Proceeds
  <2>4. job.command \in Arms /\ result = "none"
    BY <2>1 DEF ToolInv
  <2> QED
    BY <2>1, <2>2, <2>3, <2>4, WordIsPlain
<1>2. CASE Subscribe
  <2>1. at = "subscribing" /\ NothingElse /\ "notify" \in Words \ {"bye"} /\ job' = job
    BY <1>2, CommandWords DEF Subscribe, NothingElse, tool
  <2>2. sent' = sent \/ sent' = Append(sent, Exchange(<<"notify">>))
    BY <1>2, SaidIs DEF Subscribe
  <2>3. (at' = "listening" /\ result' = result) \/ (at' \in Ended /\ result' = "error")
    BY <1>2, EndsIs DEF Subscribe, Proceeds
  <2>4. result = "none" /\ job.command = "pix-notify"
    BY <2>1 DEF ToolInv
  <2> QED
    BY <2>1, <2>2, <2>3, <2>4, WordIsPlain
<1> QED
  BY <1>1, <1>2

\* The steps that say nothing, and the last word.
LEMMA EndIsPlain ==
  ASSUME ToolInv, RunLocal \/ SaveScreenshot \/ Leave \/ WriteCapture \/ ListenUntilDeadline
                  \/ ListenUntilClosed \/ OpenSource
  PROVE  Plain
<1> USE DEF Visits, Fresh, Wordy, Ended, Stages
<1>0. ASSUME sent' = sent, at' \notin Fresh \cup Wordy, at' \in Ended \/ at \notin Ended
      PROVE  Talks
  BY <1>0, SaysNothing
<1>1. UNCHANGED <<job, remote, touched, local, stack, fetch, printed>>
  BY DEF RunLocal, SaveScreenshot, Leave, WriteCapture, ListenUntilDeadline, ListenUntilClosed,
       OpenSource, NothingElse, tool
<1>2. touched' \subseteq Path /\ (job.command \notin Uploads => IsTree(remote'))
  BY <1>1 DEF ToolInv, Typed
<1>3. CASE RunLocal
  <2>1. at = "start" /\ job.command \in LocalOnly /\ sent' = sent
    BY <1>3 DEF RunLocal
  <2>2. at' \in Ended /\ result' \in {"ok", "error"}
    BY <1>3, EndsIs DEF RunLocal
  <2>3. job.command \notin {"tree", "get", "nand-dump"} /\ result = "none"
    BY <2>1, CommandWords DEF ToolInv
  <2> QED
    BY <1>0, <1>1, <1>2, <2>1, <2>2, <2>3 DEF Plain
<1>4. CASE SaveScreenshot
  <2>1. at = "saving" /\ sent' = sent
    BY <1>4 DEF SaveScreenshot
  <2>2. (at' = "leaving" /\ result' = result) \/ (at' \in Ended /\ result' = "error")
    BY <1>4, EndsIs DEF SaveScreenshot, Proceeds
  <2>3. job.command \notin {"tree", "get", "nand-dump"} /\ result = "none"
    BY <2>1, CommandWords DEF ToolInv
  <2> QED
    BY <1>0, <1>1, <1>2, <2>1, <2>2, <2>3 DEF Plain
<1>5. CASE Leave
  <2>1. at = "leaving" /\ (sent' = sent \/ sent' = Append(sent, Exchange(<<"bye">>)))
    BY <1>5, SaidIs DEF Leave
  <2>2. at' \in Ended /\ result' = "ok"
    BY <1>5, EndsIs DEF Leave
  <2>3. result = "none"
    BY <2>1 DEF ToolInv
  <2>4. Talks
    BY <1>0, <2>1, <2>2, SaysBye
  <2> QED
    BY <1>1, <1>2, <2>1, <2>2, <2>3, <2>4 DEF Plain
<1>6. CASE WriteCapture
  <2>1. at = "recording" /\ at' = "done" /\ result' \in {result, "error"} /\ sent' = sent
    BY <1>6 DEF WriteCapture
  <2>2. result \in {"ok", "error"}
    BY <2>1 DEF ToolInv
  <2> QED
    BY <1>0, <1>1, <1>2, <2>1, <2>2 DEF Plain
<1>7. CASE ListenUntilDeadline \/ ListenUntilClosed
  <2>1. at = "listening" /\ sent' = sent
    BY <1>7 DEF ListenUntilDeadline, ListenUntilClosed
  <2>2. at' \in Ended /\ result' \in {"ok", "error"}
    BY <1>7, EndsIs DEF ListenUntilDeadline, ListenUntilClosed
  <2>3. result = "none"
    BY <2>1 DEF ToolInv
  <2>4. job.command \notin {"tree", "get", "nand-dump"} /\ job.command \notin Uploads
    BY <2>1 DEF ToolInv, Uploads
  <2> QED
    BY <1>0, <1>1, <1>2, <2>1, <2>2, <2>3, <2>4 DEF Plain
<1>8. CASE OpenSource
  <2>1. at = "opening" /\ sent' = sent
    BY <1>8 DEF OpenSource
  <2>2. (at' = "sending" /\ result' = result) \/ (at' \in Ended /\ result' = "error")
    BY <1>8, EndsIs DEF OpenSource, Proceeds
  <2>3. job.command \notin {"tree", "get", "nand-dump"} /\ job.command \in Uploads /\ result = "none"
    BY <2>1, CommandWords DEF ToolInv
  <2>4. Talks
    BY <2>1, <2>2, SaysNothing
  <2>5. Stages'
    BY <1>1, <2>2, <2>3
  <2> QED
    BY <1>1, <1>2, <2>1, <2>2, <2>3, <2>4, <2>5 DEF Plain
<1> QED
  BY <1>3, <1>4, <1>5, <1>6, <1>7, <1>8

LEMMA UploadIsPlain ==
  ASSUME ToolInv, Upload
  PROVE  Plain
<1> USE DEF Visits, Fresh, Wordy, Ended, Stages
<1>1. UNCHANGED <<job, local, stack, fetch, printed>> /\ at = "sending" /\ touched' = touched \cup {job.path}
  BY DEF Upload
<1>2. job.command \in Uploads /\ job.command \notin {"tree", "get", "nand-dump"} /\ result = "none"
      /\ job.path \in Path /\ touched \subseteq Path
  BY <1>1, CommandWords DEF ToolInv, Typed, Job, Path
<1>3. sent' = sent \/ sent' = Append(sent, Exchange(<<"sendfile", job.path>>))
  BY SaidIs DEF Upload
<1>4. (at' = "leaving" /\ result' = result) \/ (at' \in Ended /\ result' = "error")
  BY EndsIs DEF Upload, Proceeds
<1>5. <<"sendfile", job.path>> \in Requests \ {<<"bye">>}
      /\ \A p \in Path : <<"sendfile", job.path>> \notin About(p)
  BY <1>2, WordsAre, CommandWords DEF About
<1>6. Talks
  BY <1>1, <1>3, <1>4, <1>5, SaysNothing, SaysFirst
<1> QED
  BY <1>1, <1>2, <1>3, <1>4, <1>6 DEF Plain

LEMMA ProbeIsPlain ==
  ASSUME ToolInv, Probe
  PROVE  Plain
<1> USE DEF Visits, Fresh, Wordy, Ended, Stages
<1>1. UNCHANGED <<job, remote, touched, local, stack, fetch, printed>> /\ at = "probing"
  BY DEF Probe, NothingElse, tool
<1>2. touched' \subseteq Path /\ (job.command \notin Uploads => IsTree(remote'))
  BY <1>1 DEF ToolInv, Typed
<1>3. at' \in {"enabling", "reconnecting"} /\ result' = result
  BY DEF Probe, Proceeds
<1>4. /\ result = "none" /\ job.command = "nand-dump" /\ job.command \notin {"tree", "get"}
      /\ job.command \in OwnConnections
  BY <1>1, CommandWords DEF ToolInv
<1>5. sent = << >> /\ Connection = "probe" /\ \A p : ~ AskedFor(p)
  BY <1>1, <1>4, ConnectionIs, NothingSaid DEF ToolInv, Asked
<1> DEFINE list == [on |-> "probe", asks |-> <<"drivelist">>]
           bye == [on |-> "probe", asks |-> <<"bye">>]
<1>6. sent' = << list, bye >> \/ sent' = << list >>
  BY <1>5 DEF Probe, Exchange
<1>7. /\ list \in Sends /\ bye \in Sends
      /\ list.asks = <<"drivelist">> /\ bye.asks = <<"bye">> /\ list.on = "probe" /\ bye.on = "probe"
      /\ <<"drivelist">> # <<"bye">> /\ {<<"drivelist">>, <<"bye">>} = Harmless
      /\ \A p : <<"drivelist">> \notin About(p) /\ <<"bye">> \notin About(p)
  BY WordsAre, CommandWords DEF Sends, Harmless, About
<1> HIDE DEF list, bye
<1>8. /\ sent' \in Seq(Sends) /\ DOMAIN sent' = 1 .. Len(sent')
      /\ \A i \in 1 .. Len(sent') : (i = 1 /\ sent'[i] = list) \/ (i = 2 /\ sent'[i] = bye)
  <2>1. CASE sent' = << list >>
    <3>1. << list >> \in Seq(Sends) /\ Len(<< list >>) = 1 /\ << list >>[1] = list
      BY <1>7
    <3> QED
      BY <2>1, <3>1
  <2>2. CASE sent' = << list, bye >>
    <3>1. /\ << list, bye >> \in Seq(Sends) /\ Len(<< list, bye >>) = 2
          /\ << list, bye >>[1] = list /\ << list, bye >>[2] = bye
      BY <1>7
    <3> QED
      BY <2>2, <3>1
  <2> QED
    BY <1>6, <2>1, <2>2
<1>9. AskedOnce' /\ Probed' /\ Spoken' /\ \A p : ~ AskedFor(p)'
  BY <1>7, <1>8 DEF AskedOnce, Probed, Spoken, AskedFor, Harmless
<1>10. Talks
  BY <1>3, <1>5, <1>8, <1>9 DEF Talks
<1> QED
  BY <1>1, <1>2, <1>3, <1>4, <1>10 DEF Plain

\* What enable asks: nothing of a path, and only the list of drives twice.
LEMMA EnableAsksAre ==
  /\ \A i \in 1 .. Enabled :
       /\ EnableAsks[i] \in Sends /\ EnableAsks[i].on \in {"hijack", "restore"}
       /\ EnableAsks[i].asks # <<"bye">> /\ \A p : EnableAsks[i].asks \notin About(p)
  /\ \A i, j \in 1 .. Enabled : i < j /\ EnableAsks[i].asks = EnableAsks[j].asks =>
       EnableAsks[i].on # EnableAsks[j].on /\ EnableAsks[i].asks \in Harmless
<1>1. /\ Enabling[1] = <<"modules">> /\ Enabling[2] = <<"drivelist">>
      /\ Enabling[3] = <<"getmem", "flag">> /\ Enabling[4] = <<"setmem", "drivemap">>
      /\ Enabling[5] = <<"altaddr">> /\ Enabling[6] = <<"setmem", "handler">>
      /\ Enabling[7] = <<"getmem", "handler">> /\ Enabling[8] = <<"setmem", "flag">>
      /\ Enabling[9] = <<"drivelist">>
  BY DEF Enabling
<1>2. \A i \in 1 .. 9 :
        /\ EnableAsks[i] = [on |-> IF i <= 5 THEN "hijack" ELSE "restore", asks |-> Enabling[i]]
        /\ EnableAsks[i].on = IF i <= 5 THEN "hijack" ELSE "restore"
        /\ EnableAsks[i].asks = Enabling[i]
  BY DEF EnableAsks, Enabled, Invoked
<1>3. \A i \in 1 .. 9 :
        Enabling[i] \in Requests /\ Enabling[i] # <<"bye">> /\ \A p : Enabling[i] \notin About(p)
  <2>1. \A i \in 1 .. 9 : i = 1 \/ i = 2 \/ i = 3 \/ i = 4 \/ i = 5 \/ i = 6 \/ i = 7 \/ i = 8 \/ i = 9
    OBVIOUS
  <2>2. /\ <<"modules">> \in Requests /\ <<"drivelist">> \in Requests /\ <<"altaddr">> \in Requests
        /\ \A w \in {"getmem", "setmem"}, m \in {"flag", "handler", "drivemap"} : <<w, m>> \in Requests
    BY WordsAre, CommandWords DEF Memory
  <2>3. /\ \A w, p : w # "bye" => <<w>> # <<"bye">> /\ <<w>> \notin About(p)
        /\ \A w, m, p : w \in {"getmem", "setmem"} => <<w, m>> # <<"bye">> /\ <<w, m>> \notin About(p)
    BY WordsAre DEF About
  <2> QED
    BY <1>1, <2>1, <2>2, <2>3
<1>4. \A i, j \in 1 .. 9 : i < j /\ Enabling[i] = Enabling[j] => i = 2 /\ j = 9
  <2>1. /\ \A v, w : v # w => <<v>> # <<w>>
        /\ \A v, w, p, q : v # w \/ p # q => <<v, p>> # <<w, q>>
        /\ \A v, w, p : <<v>> # <<w, p>>
    BY WordsAre
  <2>2. \A i \in 1 .. 9 : i = 1 \/ i = 2 \/ i = 3 \/ i = 4 \/ i = 5 \/ i = 6 \/ i = 7 \/ i = 8 \/ i = 9
    OBVIOUS
  <2> QED
    BY <1>1, <2>1, <2>2
<1> QED
  BY <1>1, <1>2, <1>3, <1>4 DEF Enabled, Sends, Harmless

LEMMA EnableSays ==
  ASSUME Spoken, Probed, NEW n \in 0 .. Enabled, sent' = sent \o SubSeq(EnableAsks, 1, n)
  PROVE  Spoken' /\ \A p : ~ AskedFor(p)' /\ ~ AskedFor(p)
<1> DEFINE t == SubSeq(EnableAsks, 1, n)
           L == Len(sent)
<1>1. sent \in Seq(Sends) /\ L \in Nat /\ DOMAIN sent = 1 .. L
  BY DEF Spoken
<1>2. t \in Seq(Sends) /\ Len(t) = n /\ n \in Nat /\ \A i \in 1 .. n : t[i] = EnableAsks[i]
  <2>1. n \in Int /\ 1 \in Int /\ n \in Nat /\ \A i \in 1 .. n : EnableAsks[i] \in Sends
    BY EnableAsksAre DEF Enabled
  <2> QED
    BY <2>1, SubSeqProperties
<1>3. /\ sent' \in Seq(Sends) /\ Len(sent') = L + n /\ DOMAIN sent' = 1 .. L + n
      /\ \A i \in 1 .. L + n : sent'[i] = IF i <= L THEN sent[i] ELSE EnableAsks[i - L]
  <2> HIDE DEF t
  <2>1. sent' = sent \o t
    BY DEF t
  <2>2. /\ sent' \in Seq(Sends) /\ Len(sent') = L + n
        /\ \A i \in 1 .. L + n : sent'[i] = IF i <= L THEN sent[i] ELSE t[i - L]
    BY <1>1, <1>2, <2>1, ConcatProperties
  <2> QED
    BY <1>1, <1>2, <2>2
<1> HIDE DEF t, L
<1>4. \A i \in 1 .. L : sent[i].on = "probe" /\ sent[i].asks \in Harmless
  BY DEF Probed, L
<1>5. ASSUME NEW i \in 1 .. L + n
      PROVE  \/ i \in 1 .. L /\ sent'[i] = sent[i]
             \/ i - L \in 1 .. Enabled /\ sent'[i] = EnableAsks[i - L]
  BY <1>1, <1>2, <1>3 DEF Enabled
<1>6. \A p : \A i \in 1 .. L : sent[i].asks \notin About(p)
  <2>1. \A p, x : x \in Harmless => x \notin About(p)
    BY WordsAre DEF Harmless, About
  <2> QED
    BY <1>4, <2>1
<1>7. AskedOnce'
  <2>1. DOMAIN sent' = 1 .. Len(sent') /\ Len(sent') = L + n
    BY <1>3
  <2> SUFFICES ASSUME NEW i \in 1 .. Len(sent'), NEW j \in 1 .. Len(sent'), i < j
               PROVE  /\ sent'[i].asks = sent'[j].asks =>
                           sent'[i].on # sent'[j].on /\ sent'[i].asks \in Harmless
                      /\ sent'[i].asks = <<"bye">> => sent'[i].on # sent'[j].on
    BY <2>1, SaidOnce
  <2>2. i \in 1 .. L + n /\ j \in 1 .. L + n
    BY <2>1
  <2>3. CASE j \in 1 .. L
    <3>1. i \in 1 .. L /\ sent'[i] = sent[i] /\ sent'[j] = sent[j]
      BY <1>1, <1>2, <1>3, <2>3, <2>2
    <3> QED
      BY <1>1, <2>3, <3>1 DEF Spoken, AskedOnce
  <2>4. CASE i \in 1 .. L /\ j - L \in 1 .. Enabled /\ sent'[j] = EnableAsks[j - L]
    <3>1. sent'[i] = sent[i]
      BY <1>1, <1>2, <1>3, <2>4, <2>2
    <3>2. EnableAsks[j - L].on \in {"hijack", "restore"}
      BY <2>4, EnableAsksAre
    <3> QED
      BY <1>4, <2>4, <3>1, <3>2
  <2>5. CASE /\ i - L \in 1 .. Enabled /\ sent'[i] = EnableAsks[i - L]
             /\ j - L \in 1 .. Enabled /\ sent'[j] = EnableAsks[j - L]
    <3>1. i - L < j - L
      BY <1>1, <1>2, <2>2
    <3> QED
      BY <2>5, <3>1, EnableAsksAre
  <2>6. i \in 1 .. L \/ j \notin 1 .. L
    BY <1>1, <1>2, <2>2
  <2> QED
    BY <1>5, <2>2, <2>3, <2>4, <2>5, <2>6
<1>8. \A i \in 1 .. Len(sent') : sent'[i].asks = <<"bye">> => sent'[i].on = "probe"
  <2> SUFFICES ASSUME NEW i \in 1 .. L + n, sent'[i].asks = <<"bye">>
               PROVE  sent'[i].on = "probe"
    BY <1>3
  <2> QED
    BY <1>4, <1>5, EnableAsksAre
<1>9. \A p : ~ AskedFor(p)
  BY <1>6 DEF AskedFor, L
<1>10. \A p : ~ AskedFor(p)'
  <2> SUFFICES ASSUME NEW p, NEW i \in 1 .. L + n
               PROVE  sent'[i].asks \notin About(p)
    BY <1>3 DEF AskedFor, About
  <2> QED
    BY <1>5, <1>6, EnableAsksAre
<1> QED
  BY <1>3, <1>7, <1>8, <1>9, <1>10 DEF Spoken

LEMMA EnableIsPlain ==
  ASSUME ToolInv, Enable
  PROVE  Plain
<1> USE DEF Visits, Fresh, Wordy, Ended, Stages
<1>1. UNCHANGED <<job, touched, local, stack, fetch, printed>> /\ at = "enabling"
      /\ remote' \in {remote, Put(remote, Flash, Dir)}
  BY DEF Enable
<1>2. job.command \in OwnConnections /\ result = "none"
  BY <1>1 DEF ToolInv
<1>3. touched' \subseteq Path /\ (job.command \notin Uploads => IsTree(remote'))
  BY <1>1, PutDrive DEF ToolInv, Typed
<1>4. \/ at' \in Ended /\ result' = "error"
      \/ at' \in Ended /\ result' = "ok" /\ job.command = "drivemap-enable"
      \/ at' = "reconnecting" /\ result' = result /\ job.command = "nand-dump"
  BY EndsIs DEF Enable, Proceeds
<1>5. job.command \notin {"tree", "get"}
  BY <1>2, CommandWords
<1>6. Talks
  <2>1. PICK n \in 0 .. Enabled : sent' = sent \o SubSeq(EnableAsks, 1, n)
    BY DEF Enable
  <2>2. Spoken /\ Probed
    BY <1>1 DEF ToolInv, Asked
  <2>3. Spoken' /\ \A p : ~ AskedFor(p)' /\ ~ AskedFor(p)
    BY <2>1, <2>2, EnableSays
  <2>4. at' \notin Fresh /\ at' # "enabling"
    BY <1>4
  <2> QED
    BY <2>3, <2>4 DEF Talks, Spoken
<1> QED
  BY <1>1, <1>2, <1>3, <1>4, <1>5, <1>6 DEF Plain

-----------------------------------------------------------------------------
(* The other program. *)

LEMMA EditTouches ==
  ASSUME Edit, touched \subseteq Path
  PROVE  touched' \subseteq Path
BY ToolAssumption DEF Edit, Known, IsTree, Path

LEMMA EditKeepsInv ==
  ASSUME ToolInv, Edit
  PROVE  ToolInv'
<1> USE DEF ToolInv
<1>1. UNCHANGED <<job, at, link, local, stack, fetch, printed, result, sent>>
  BY DEF Edit
<1>2. touched \subseteq Path /\ touched' \subseteq Path
  BY EditTouches DEF Typed
<1>3. ASSUME job.command \notin Uploads
      PROVE  /\ IsTree(remote) /\ IsTree(remote')
             /\ \A p \in Path : Untouched(p)' =>
                  /\ Untouched(p)
                  /\ p \in DOMAIN remote' <=> p \in DOMAIN remote
                  /\ p \in DOMAIN remote => remote'[p] = remote[p]
                  /\ IsDir(p)' <=> IsDir(p)
  <2>1. IsTree(remote)
    BY <1>3 DEF Typed
  <2> QED
    BY <1>2, <2>1, EditKeeps DEF IsDir, Holds
<1>4. Typed'
  BY <1>1, <1>2, <1>3 DEF Typed
<1>5. Stages'
  BY <1>1 DEF Stages
<1>6. Asked'
  <2>1. \A p : (AskedFor(p)' <=> AskedFor(p)) /\ (Visited(p)' <=> Visited(p))
    BY <1>1 DEF AskedFor, Visited, Shows
  <2>2. Pending(stack)' = Pending(stack) /\ (Apart(stack)' <=> Apart(stack))
    BY <1>1 DEF Pending, Apart
  <2>3. Ahead'
    BY <1>1, <2>1, <2>2 DEF Asked, Ahead
  <2> QED
    BY <1>1, <2>1, <2>2, <2>3, SameWords DEF Asked
<1>7. Tree'
  <2> SUFFICES ASSUME job.command = "tree"
               PROVE  Tree'
    BY <1>1 DEF Tree
  <2>1. /\ DOMAIN remote \subseteq Path /\ DOMAIN remote' \subseteq Path
        /\ \A p \in Path : Untouched(p)' =>
             /\ Untouched(p)
             /\ p \in DOMAIN remote' <=> p \in DOMAIN remote
             /\ p \in DOMAIN remote => remote'[p] = remote[p]
             /\ IsDir(p)' <=> IsDir(p)
    BY <1>3, CommandWords, TreeIs
  <2>2. ASSUME NEW p \in DOMAIN remote', Untouched(p)', p \in Roots'
        PROVE  p \in Roots
    <3>1. p \in DOMAIN remote
      BY <2>1, <2>2
    <3>2. CASE job.path # << >>
      BY <1>1, <2>2, <3>2 DEF Roots
    <3>3. CASE job.path = << >>
      BY <1>1, <2>2, <3>1, <3>3 DEF Roots, Children
    <3> QED
      BY <3>2, <3>3
  <2>3. ASSUME at' \notin {"start", "rooting"}, result' # "error", NEW p \in DOMAIN remote',
               Untouched(p)', IsDir(p)' \/ job'.files,
               p \in Roots' \/ (Len(p) > 1 /\ WasListed(Front(p))')
        PROVE  Found(p)'
    <3>1. p \in DOMAIN remote /\ Untouched(p) /\ (IsDir(p) \/ job.files)
      BY <1>1, <2>1, <2>3
    <3>2. p \in Roots \/ (Len(p) > 1 /\ WasListed(Front(p)))
      BY <1>1, <2>2, <2>3, SameTree
    <3> QED
      BY <1>1, <2>3, <3>1, <3>2, SameTree DEF Tree
  <2> QED
    BY <1>1, <2>3, SameTree DEF Tree
<1>8. Mirror'
  <2>1. CASE job.command # "get"
    BY <1>1, <2>1 DEF Mirror
  <2>2. CASE job.command = "get"
    <3>1. /\ DOMAIN remote \subseteq Path /\ DOMAIN remote' \subseteq Path
          /\ \A p \in Path : Untouched(p)' =>
               /\ Untouched(p)
               /\ p \in DOMAIN remote' <=> p \in DOMAIN remote
               /\ p \in DOMAIN remote => remote'[p] = remote[p]
               /\ IsDir(p)' <=> IsDir(p)
      BY <1>3, <2>2, CommandWords, TreeIs
    <3>2. Pending(stack)' = Pending(stack) /\ Pending(stack) \subseteq Entries
      BY <1>1, PendingTyped DEF Pending, Typed, Stacks
    <3>3. Covered => Covered'
      <4> SUFFICES ASSUME Covered, NEW p \in DOMAIN remote', IsPrefix(job'.path, p), Untouched(p)'
                   PROVE  Here(p)' \/ Awaited(p)' \/ Fetching(p)'
        BY DEF Covered
      <4>1. p \in DOMAIN remote /\ Untouched(p) /\ remote'[p] = remote[p] /\ IsPrefix(job.path, p)
        BY <1>1, <3>1
      <4>2. Here(p) \/ Awaited(p) \/ Fetching(p)
        BY <4>1 DEF Covered
      <4> QED
        BY <1>1, <3>2, <4>1, <4>2 DEF Here, Awaited, Fetching
    <3>4. \A e \in Pending(stack') :
            /\ e.dir \/ Len(e.path) > 1
            /\ Untouched(e.path)' => e.path \in DOMAIN remote' /\ IsDir(e.path)' = e.dir
      <4> SUFFICES ASSUME NEW e \in Pending(stack)
                   PROVE  /\ e.dir \/ Len(e.path) > 1
                          /\ Untouched(e.path)' => e.path \in DOMAIN remote' /\ IsDir(e.path)' = e.dir
        BY <3>2
      <4>1. e.path \in Path /\ (e.dir \/ Len(e.path) > 1)
            /\ (Untouched(e.path) => e.path \in DOMAIN remote /\ IsDir(e.path) = e.dir)
        BY <2>2, <3>2 DEF Mirror, Entries
      <4>2. IsDir(e.path) \in BOOLEAN /\ IsDir(e.path)' \in BOOLEAN
        BY DEF IsDir
      <4> QED
        BY <3>1, <4>1, <4>2
    <3>5. (at = "storing" /\ fetch.path \in DOMAIN remote /\ Untouched(fetch.path) /\ stack # << >> =>
             fetch.serves = remote[fetch.path])'
      <4>1. fetch.path \in Path /\ (Untouched(fetch.path)' => Untouched(fetch'.path))
        BY <1>1, <3>1 DEF Typed
      <4> QED
        BY <1>1, <2>2, <3>1, <4>1 DEF Mirror
    <3> QED
      BY <1>1, <2>2, <3>2, <3>3, <3>4, <3>5 DEF Mirror
  <2> QED
    BY <2>1, <2>2
<1> QED
  BY <1>4, <1>5, <1>6, <1>7, <1>8

-----------------------------------------------------------------------------
(* Steps that visit. *)

\* A request about a path nobody asked about.
LEMMA Requesting ==
  ASSUME Asked, at \in Visits, NEW p \in Path, ~ AskedFor(p), NEW x \in About(p),
         sent' = sent \/ sent' = Append(sent, Exchange(x))
  PROVE  Spoken' /\ \A q \in Path : AskedFor(q)' => AskedFor(q) \/ q = p
<1>1. Spoken /\ Connection # "probe"
  BY ConnectionIs DEF Asked, Visits, Ended
<1>2. CASE sent' = sent
  BY <1>1, <1>2, SameWords
<1>3. CASE sent' = Append(sent, Exchange(x))
  <2>1. x \in Requests /\ x # <<"bye">> /\ \A q \in Path : x \in About(q) => q = p
    BY WordsAre, CommandWords DEF About
  <2>2. \A i \in 1 .. Len(sent) :
          /\ sent[i].asks # x
          /\ sent[i].asks = <<"bye">> => sent[i].on # Connection
    BY <1>1 DEF Spoken, AskedFor
  <2>3. Spoken' /\ \A q : AskedFor(q)' <=> AskedFor(q) \/ x \in About(q)
    BY <1>1, <1>3, <2>1, <2>2, ConnectionIs, Saying DEF Exchange
  <2> QED
    BY <2>1, <2>3
<1> QED
  BY <1>2, <1>3

\* The entry on top, and what is left.
LEMMA Visiting ==
  ASSUME ToolInv, at \in {"walking", "mirroring"}, Top # << >>
  PROVE  /\ stack \in Stacks /\ stack # << >> /\ Last(stack) # << >>
         /\ Rest = RestOf(stack) /\ Rest \in Stacks /\ Rest # << >>
         /\ Entry = Head(Last(stack)) /\ Entry \in Entries /\ Entry.path \in Path
         /\ Pending(stack) = Pending(Rest) \cup {Entry}
         /\ Pending(Rest) \subseteq Entries
         /\ Apart(Rest)
         /\ \A f \in Pending(Rest) : ~ IsPrefix(f.path, Entry.path) /\ ~ IsPrefix(Entry.path, f.path)
         /\ \A p \in Path : IsPrefix(Entry.path, p) => ~ Visited(p)
         /\ \A f \in Pending(Rest) : \A p \in Path : IsPrefix(f.path, p) => ~ Visited(p)
         /\ ~ AskedFor(Entry.path) /\ ~ Shows(Entry.path)
<1>1. stack \in Stacks /\ stack # << >> /\ Last(stack) # << >> /\ Apart(stack) /\ Ahead /\ at \notin Ended
  BY DEF ToolInv, Typed, Stacks, Asked, Top, Ended
<1>2. Rest = RestOf(stack) /\ Entry = Head(Last(stack))
  BY DEF Rest, RestOf, Entry, Top
<1>3. Rest \in Stacks /\ Rest # << >> /\ Entry \in Entries
  BY <1>1, <1>2, PopShape
<1>4. Entry.path \in Path /\ IsPrefix(Entry.path, Entry.path)
  BY <1>3, PrefixRefl DEF Entries
<1>5. Pending(stack) = Pending(Rest) \cup {Entry}
  BY <1>1, <1>2, PopPending
<1>6. /\ Apart(Rest)
      /\ \A f \in Pending(Rest) : ~ IsPrefix(f.path, Entry.path) /\ ~ IsPrefix(Entry.path, f.path)
  BY <1>1, <1>2, PopApart
<1>7. \A f \in Pending(Rest) \cup {Entry} : \A p \in Path : IsPrefix(f.path, p) => ~ Visited(p)
  BY <1>1, <1>5 DEF Ahead
<1>8. ~ Visited(Entry.path)
  BY <1>4, <1>7
<1> QED
  BY <1>1, <1>2, <1>3, <1>4, <1>5, <1>6, <1>7, <1>8, PendingTyped DEF Visited

\* What a step that visits one entry does to what has been visited.
LEMMA AskedAfter ==
  ASSUME ToolInv, at \in {"walking", "mirroring"}, Top # << >>,
         stack' \in Stacks, stack' # << >>, Apart(stack)',
         \A f \in Pending(stack)' : f \in Pending(Rest) \/ (f.path \in Path /\ Child(f.path, Entry.path)),
         Spoken',
         \A p \in Path : Visited(p)' => Visited(p) \/ p = Entry.path,
         at' \in {"walking", "mirroring", "fetching"},
         at' = "fetching" => ~ AskedFor(fetch.path)'
  PROVE  Asked'
<1>1. Ahead'
  <2> SUFFICES ASSUME NEW f \in Pending(stack)', NEW p \in Path, IsPrefix(f.path, p), Visited(p)'
               PROVE  FALSE
    BY DEF Ahead
  <2>1. Visited(p) \/ p = Entry.path
    OBVIOUS
  <2>2. CASE f \in Pending(Rest)
    BY <2>1, <2>2, Visiting
  <2>3. CASE f.path \in Path /\ Child(f.path, Entry.path)
    <3>1. Entry.path \in Path /\ IsPrefix(Entry.path, f.path) /\ Len(f.path) = Len(Entry.path) + 1
      BY <2>3, Visiting DEF Child
    <3>2. IsPrefix(Entry.path, p)
      BY <2>3, <3>1, PrefixTrans
    <3>3. p = Entry.path
      BY <2>1, <3>2, Visiting
    <3>4. Len(f.path) <= Len(Entry.path) /\ Len(Entry.path) \in Nat
      BY <2>3, <3>1, <3>3, PrefixIndex DEF Path
    <3> QED
      BY <3>1, <3>4
  <2> QED
    BY <2>2, <2>3
<1>2. at' \notin Fresh /\ at' \notin Wordy /\ at' \notin Ended /\ at' # "enabling"
  BY DEF Fresh, Wordy, Ended
<1> QED
  BY <1>1, <1>2 DEF Asked, Spoken

\* Of the entry just taken from the stack, the directory it names goes on it.
LEMMA Entering ==
  ASSUME ToolInv, at \in {"walking", "mirroring"}, Top # << >>, IsTree(remote),
         NEW S \in SUBSET Listing(Entry.path), NEW l, EachOnce(l, S), stack' = Append(Rest, l)
  PROVE  /\ stack' \in Stacks /\ stack' # << >> /\ Apart(stack)'
         /\ Pending(stack)' = Pending(Rest) \cup S
         /\ Len(stack') = Len(stack) + 1 /\ stack'[Len(stack) + 1] = l
         /\ \A i \in 1 .. Len(stack) : stack'[i] = Rest[i]
         /\ \A f \in Pending(stack)' : f \in Pending(Rest) \/ (f.path \in Path /\ Child(f.path, Entry.path))
<1>1. /\ S \in SUBSET Entries /\ l \in Seq(Entries)
      /\ \A e \in S : e.path \in Path /\ Child(e.path, Entry.path)
      /\ \A a, b \in S : a.path = b.path => a = b
  <2>1. Entry.path \in Path
    BY Visiting
  <2>2. /\ S \in SUBSET Entries
        /\ \A e \in S : Child(e.path, Entry.path)
        /\ \A a, b \in S : a.path = b.path => a = b
    BY <2>1, ListingIs
  <2>3. l \in Seq(S) /\ Seq(S) \subseteq Seq(Entries)
    BY <2>2 DEF EachOnce
  <2> QED
    BY <2>2, <2>3 DEF Entries
<1>2. /\ stack' \in Stacks /\ Len(stack') = Len(Rest) + 1 /\ stack' # << >>
      /\ \A i \in 1 .. Len(Rest) : stack'[i] = Rest[i]
      /\ stack'[Len(Rest) + 1] = l
  BY <1>1, Visiting, PushShape
<1>3. Len(Rest) = Len(stack)
  BY Visiting, PopShape
<1>4. Pending(Append(Rest, l)) = Pending(Rest) \cup S
  BY <1>1, Visiting, PushPending
<1>5. Apart(Append(Rest, l))
  BY <1>1, Visiting, PushApart
<1>6. Pending(stack)' = Pending(Rest) \cup S /\ Apart(stack)'
  <2>1. Pending(stack)' = Pending(stack') /\ (Apart(stack)' <=> Apart(stack'))
    BY DEF Pending, Apart
  <2> QED
    BY <1>4, <1>5, <2>1
<1> QED
  BY <1>1, <1>2, <1>3, <1>6

LEMMA TreeOther ==
  ASSUME job.command # "tree", job' = job
  PROVE  Tree'
BY DEF Tree

LEMMA MirrorOther ==
  ASSUME Mirror, job.command \notin {"get", "nand-dump"}, job' = job, local' = local, at' # "storing",
         result' # "error" => result # "error"
  PROVE  Mirror'
BY DEF Mirror

-----------------------------------------------------------------------------
(* tree: one more line. *)

LEMMA OneMoreLine ==
  ASSUME ToolInv, at = "walking", Top # << >>, NEW how \in {"none", "listed", "unreadable"},
         printed' = Line(how), job' = job
  PROVE  /\ printed' \in Seq(Lines) /\ Len(printed) \in Nat /\ Len(printed') = Len(printed) + 1
         /\ \A i \in 1 .. Len(printed) : printed'[i] = printed[i]
         /\ printed'[Len(printed) + 1] = [path |-> Entry.path, listing |-> how]
         /\ \A p : Shows(p)' <=> Shows(p) \/ p = Entry.path
         /\ \A p : WasListed(p)' <=> WasListed(p) \/ (how = "listed" /\ p = Entry.path)
         /\ \A p, n : n \in 0 .. Len(printed) =>
              (Founded(p, n) => Founded(p, n)') /\ (Rooted(p, n) => Rooted(p, n)')
         /\ \A p : Founded(p, Len(printed)) => Founded(p, Len(printed))'
         /\ \A p : Rooted(p, Len(printed)) => Rooted(p, Len(printed))'
         /\ \A n : InDepth(n)' <=> InDepth(n)
         /\ \A p : (IsRoot(p)' <=> IsRoot(p)) /\ RootOf(p)' = RootOf(p)
         /\ Base' = Base /\ Base \in Nat \ {0}
<1> DEFINE ln == [path |-> Entry.path, listing |-> how]
           N == Len(printed)
<1>1. printed \in Seq(Lines) /\ ln \in Lines
  BY Visiting DEF ToolInv, Typed, Lines
<1>2. printed' = Append(printed, ln)
  BY DEF Line
<1>3. /\ printed' \in Seq(Lines) /\ N \in Nat /\ Len(printed') = N + 1
      /\ \A i \in 1 .. N : printed'[i] = printed[i]
      /\ printed'[N + 1] = ln
      /\ DOMAIN printed' = 1 .. N + 1 /\ DOMAIN printed = 1 .. N
  BY <1>1, <1>2, WithOneMore
<1>4. ln.path = Entry.path /\ ln.listing = how
  OBVIOUS
<1>5. \A i : i \in 1 .. N + 1 <=> i \in 1 .. N \/ i = N + 1
  BY <1>3
<1>6. /\ Base' = Base /\ Base \in Nat \ {0}
      /\ \A n : InDepth(n)' <=> InDepth(n)
      /\ \A p : (IsRoot(p)' <=> IsRoot(p)) /\ RootOf(p)' = RootOf(p)
  <2>1. job.path \in Seq(Nat)
    BY DEF ToolInv, Typed, Job
  <2>2. Base' = Base /\ Base \in Nat \ {0}
    BY <2>1 DEF Base
  <2> QED
    BY <2>2 DEF InDepth, IsRoot, RootOf
<1> HIDE DEF ln, N
<1>7. \A p : Shows(p)' <=> Shows(p) \/ p = Entry.path
  BY <1>3, <1>4, <1>5 DEF Shows, N
<1>8. \A p : WasListed(p)' <=> WasListed(p) \/ (how = "listed" /\ p = Entry.path)
  BY <1>3, <1>4, <1>5 DEF WasListed, N, ln
<1>9. \A p, n : n \in 0 .. N => (Founded(p, n) => Founded(p, n)') /\ (Rooted(p, n) => Rooted(p, n)')
  BY <1>3, <1>6 DEF Founded, Rooted
<1>10. /\ \A p : Founded(p, Len(printed)) => Founded(p, Len(printed))'
       /\ \A p : Rooted(p, Len(printed)) => Rooted(p, Len(printed))'
  BY <1>3, <1>5, <1>6 DEF Founded, Rooted, N
<1> QED
  BY <1>3, <1>6, <1>7, <1>8, <1>9, <1>10 DEF N, ln

\* The lines that are out, and the entries that are left.
LEMMA LineKeepsTree ==
  ASSUME ToolInv, at = "walking", Top # << >>, NEW how \in {"none", "listed", "unreadable"},
         printed' = Line(how), job' = job
  PROVE  /\ \A i, j \in 1 .. Len(printed') : printed'[i].path = printed'[j].path => i = j
         /\ \A i \in 1 .. Len(stack) :
              InDepth(i - 1)' /\ \A k \in 1 .. Len(Rest[i]) : \A e : e = Rest[i][k] => LevelOf(e, i)'
         /\ (\A i \in 1 .. Len(printed) :
               LET p == printed[i].path
               IN /\ Len(p) >= Base /\ IsRoot(RootOf(p)) /\ InDepth(Len(p) - Base)
                  /\ Founded(p, i - 1) /\ Rooted(p, i - 1))'
         /\ LevelOf(Entry, Len(stack)) /\ Len(stack) \in Nat \ {0} /\ InDepth(Len(stack) - 1)
<1> DEFINE N == Len(printed)
           n == Len(stack)
<1>1. job.command = "tree"
  BY DEF ToolInv, Stages
<1>2. /\ \A i, j \in 1 .. Len(printed) : printed[i].path = printed[j].path => i = j
      /\ \A i \in 1 .. Len(stack) : InDepth(i - 1) /\ \A k \in 1 .. Len(stack[i]) : LevelOf(stack[i][k], i)
      /\ \A i \in 1 .. Len(printed) :
           /\ Len(printed[i].path) >= Base /\ IsRoot(RootOf(printed[i].path)) /\ InDepth(Len(printed[i].path) - Base)
           /\ Founded(printed[i].path, i - 1) /\ Rooted(printed[i].path, i - 1)
  BY <1>1 DEF ToolInv, Tree
<1>3. /\ N \in Nat /\ Len(printed') = N + 1
      /\ \A i \in 1 .. N : printed'[i] = printed[i]
      /\ printed'[N + 1].path = Entry.path
      /\ \A p, m : m \in 0 .. N => (Founded(p, m) => Founded(p, m)') /\ (Rooted(p, m) => Rooted(p, m)')
      /\ \A p : Founded(p, N) => Founded(p, Len(printed))'
      /\ \A p : Rooted(p, N) => Rooted(p, Len(printed))'
      /\ \A m : InDepth(m)' <=> InDepth(m)
      /\ \A p : (IsRoot(p)' <=> IsRoot(p)) /\ RootOf(p)' = RootOf(p)
      /\ Base' = Base /\ Base \in Nat \ {0}
  BY OneMoreLine
<1>4. /\ n \in Nat \ {0} /\ Len(Rest) = n
      /\ \A i \in 1 .. n - 1 : Rest[i] = stack[i]
      /\ Len(stack[n]) \in Nat \ {0} /\ Len(Rest[n]) = Len(stack[n]) - 1
      /\ \A k \in 1 .. Len(stack[n]) - 1 : Rest[n][k] = stack[n][k + 1]
      /\ Entry = stack[n][1]
  BY Visiting, PopShape
<1>5. ~ Shows(Entry.path)
  BY Visiting
<1> HIDE DEF N, n
<1>6. \A i : i \in 1 .. N + 1 <=> i \in 1 .. N \/ i = N + 1
  BY <1>3
<1>7. \A i \in 1 .. N : printed[i].path # Entry.path
  BY <1>5 DEF Shows, N
<1>8. \A i, j \in 1 .. N + 1 : printed'[i].path = printed'[j].path => i = j
  BY <1>2, <1>3, <1>6, <1>7 DEF N
<1>9. \A e, i : LevelOf(e, i) => LevelOf(e, i)'
  BY <1>3 DEF LevelOf, N
<1>10. ASSUME NEW i \in 1 .. n
       PROVE  InDepth(i - 1)' /\ \A k \in 1 .. Len(Rest[i]) : \A e : e = Rest[i][k] => LevelOf(e, i)'
  <2>1. InDepth(i - 1)'
    BY <1>2, <1>3 DEF n
  <2>2. \A k \in 1 .. Len(Rest[i]) : LevelOf(Rest[i][k], i)
    <3>1. CASE i \in 1 .. n - 1
      BY <1>2, <1>4, <3>1 DEF n
    <3>2. CASE i = n
      <4>1. \A k \in 1 .. Len(Rest[n]) : k \in 1 .. Len(stack[n]) - 1 /\ k + 1 \in 1 .. Len(stack[n])
        BY <1>4
      <4> QED
        BY <1>2, <1>4, <3>2, <4>1 DEF n
    <3> QED
      BY <1>4, <3>1, <3>2
  <2> QED
    BY <1>9, <2>1, <2>2
<1>11. LevelOf(Entry, n) /\ InDepth(n - 1)
  <2>1. n \in 1 .. n /\ 1 \in 1 .. Len(stack[n])
    BY <1>4
  <2> QED
    BY <1>2, <1>4, <2>1 DEF n
<1>12. ASSUME NEW i \in 1 .. N + 1, NEW p, p = printed'[i].path
       PROVE  /\ Len(p) >= Base /\ IsRoot(RootOf(p)) /\ InDepth(Len(p) - Base)
              /\ Founded(p, i - 1)' /\ Rooted(p, i - 1)'
  <2>1. CASE i \in 1 .. N
    <3>1. i - 1 \in 0 .. N
      BY <1>3
    <3>2. p = printed[i].path
      BY <1>3, <1>12, <2>1
    <3> QED
      BY <1>2, <1>3, <2>1, <3>1, <3>2 DEF N
  <2>2. CASE i = N + 1
    <3>1. /\ Len(Entry.path) = Base + n - 1 /\ IsRoot(RootOf(Entry.path))
          /\ Founded(Entry.path, N) /\ Rooted(Entry.path, N)
      BY <1>11 DEF LevelOf, N
    <3>2. i - 1 = N /\ N \in 0 .. N /\ Len(Entry.path) >= Base /\ Len(Entry.path) - Base = n - 1
      BY <1>3, <1>4, <2>2, <3>1
    <3>3. p = Entry.path
      BY <1>3, <1>12, <2>2
    <3> QED
      BY <1>3, <1>11, <2>2, <3>1, <3>2, <3>3
  <2> QED
    BY <1>6, <2>1, <2>2
<1>13. (\A i \in 1 .. Len(printed) :
          LET p == printed[i].path
          IN /\ Len(p) >= Base /\ IsRoot(RootOf(p)) /\ InDepth(Len(p) - Base)
             /\ Founded(p, i - 1) /\ Rooted(p, i - 1))'
  BY <1>3, <1>12 DEF InDepth, IsRoot, RootOf, Founded, Rooted
<1> QED
  BY <1>3, <1>4, <1>8, <1>10, <1>11, <1>13 DEF N, n

\* The levels of the stack, whatever it becomes.
Levels(s) ==
  \A i \in 1 .. Len(s) : InDepth(i - 1) /\ \A k \in 1 .. Len(s[i]) : \A e : e = s[i][k] => LevelOf(e, i)

LEMMA LevelsAre ==
  (\A i \in 1 .. Len(stack) : InDepth(i - 1) /\ \A k \in 1 .. Len(stack[i]) : LevelOf(stack[i][k], i))
    <=> Levels(stack)
BY DEF Levels

\* A line whose entry is not followed, or a directory that could not be read.
LEMMA PassKeeps ==
  ASSUME ToolInv, at = "walking", Top # << >>, NEW how \in {"none", "unreadable"},
         printed' = Line(how), stack' = Rest,
         UNCHANGED <<at, result, local, fetch>>, UNCHANGED tool,
         sent' = sent \/ sent' = Append(sent, Exchange(Lists(Entry.path)))
  PROVE  ToolInv'
<1> USE DEF ToolInv
<1>1. UNCHANGED <<job, remote, touched>> /\ job.command = "tree"
  BY DEF tool, Stages
<1>2. /\ stack \in Stacks /\ Rest \in Stacks /\ Rest # << >> /\ Entry.path \in Path
      /\ Pending(stack) = Pending(Rest) \cup {Entry} /\ Apart(Rest)
      /\ ~ AskedFor(Entry.path)
  BY Visiting
<1>3. Pending(stack)' = Pending(Rest) /\ Apart(stack)'
  BY <1>2 DEF Pending, Apart
<1>4. /\ Spoken'
      /\ \A q \in Path : AskedFor(q)' => AskedFor(q) \/ q = Entry.path
  BY <1>2, Requesting DEF Lists, About, Visits
<1>5. /\ printed' \in Seq(Lines) /\ Len(printed') = Len(printed) + 1
      /\ \A p : Shows(p)' <=> Shows(p) \/ p = Entry.path
      /\ \A p : WasListed(p)' <=> WasListed(p)
  BY <1>1, OneMoreLine
<1>6. Typed'
  BY <1>1, <1>2, <1>4, <1>5 DEF Typed, Stacks, Spoken
<1>7. Stages'
  BY <1>1 DEF Stages
<1>8. Asked'
  <2>1. \A p \in Path : Visited(p)' => Visited(p) \/ p = Entry.path
    BY <1>4, <1>5 DEF Visited
  <2> QED
    BY <1>2, <1>3, <1>4, <2>1, AskedAfter
<1>9. Tree'
  <2>1. /\ \A i, j \in 1 .. Len(printed') : printed'[i].path = printed'[j].path => i = j
        /\ \A i \in 1 .. Len(stack) :
             InDepth(i - 1)' /\ \A k \in 1 .. Len(Rest[i]) : \A e : e = Rest[i][k] => LevelOf(e, i)'
        /\ (\A i \in 1 .. Len(printed) :
              LET p == printed[i].path
              IN /\ Len(p) >= Base /\ IsRoot(RootOf(p)) /\ InDepth(Len(p) - Base)
                 /\ Founded(p, i - 1) /\ Rooted(p, i - 1))'
    BY <1>1, LineKeepsTree
  <2>2. Len(Rest) = Len(stack)
    BY Visiting, PopShape
  <2>3. Levels(stack)'
    BY <2>1, <2>2 DEF Levels
  <2>4. (\A i \in 1 .. Len(stack) : InDepth(i - 1) /\ \A k \in 1 .. Len(stack[i]) : LevelOf(stack[i][k], i))'
    BY <2>3, LevelsAre, PTL
  <2>5. \A p : (Untouched(p)' <=> Untouched(p)) /\ (IsDir(p)' <=> IsDir(p))
    BY <1>1 DEF Untouched, IsDir, Holds
  <2>6. Roots' = Roots
    BY <1>1 DEF Roots, Children
  <2>7. \A p : Found(p) => Found(p)'
    BY <1>2, <1>3, <1>5 DEF Found
  <2>8. \A p \in DOMAIN remote :
          (/\ Untouched(p) /\ (IsDir(p) \/ job.files)
           /\ (p \in Roots \/ (Len(p) > 1 /\ WasListed(Front(p))))) => Found(p)
    <3>1. at \notin {"start", "rooting"} /\ result # "error"
      BY DEF Stages, Ended
    <3> QED
      BY <1>1, <3>1 DEF Tree
  <2>9. (\A p \in DOMAIN remote :
          (/\ Untouched(p) /\ (IsDir(p) \/ job.files)
           /\ (p \in Roots \/ (Len(p) > 1 /\ WasListed(Front(p))))) => Found(p))'
    BY <1>1, <1>5, <2>5, <2>6, <2>7, <2>8
  <2> QED
    BY <2>1, <2>4, <2>9 DEF Tree
<1>10. Mirror'
  BY <1>1, MirrorOther
<1> QED
  BY <1>6, <1>7, <1>8, <1>9, <1>10

\* What lies in the directory just listed is one level further down.
LEMMA LevelBelow ==
  ASSUME ToolInv, at = "walking", Top # << >>, printed' = Line("listed"), job' = job,
         NEW e, e.path \in Path, Child(e.path, Entry.path),
         NEW i, i = Len(stack) + 1
  PROVE  LevelOf(e, i)'
<1> DEFINE p == Entry.path
           q == e.path
           N == Len(printed)
           n == Len(stack)
<1>1. /\ N \in Nat /\ Len(printed') = N + 1
      /\ \A k \in 1 .. N : printed'[k] = printed[k]
      /\ printed'[N + 1] = [path |-> p, listing |-> "listed"]
      /\ \A r : (IsRoot(r)' <=> IsRoot(r)) /\ RootOf(r)' = RootOf(r)
      /\ Base' = Base /\ Base \in Nat \ {0}
  BY OneMoreLine
<1>2. n \in Nat \ {0} /\ Len(p) = Base + n - 1 /\ IsRoot(RootOf(p)) /\ Rooted(p, N)
  BY LineKeepsTree DEF LevelOf
<1>3. p \in Path /\ q \in Path /\ Len(q) = Len(p) + 1 /\ IsPrefix(p, q) /\ p = Front(q)
  BY Visiting, ChildFront DEF Child
<1> HIDE DEF p, q, N, n
<1>4. RootOf(p) = RootOf(q) /\ Len(RootOf(p)) = Base
  <2>1. Base \in 0 .. Len(p) /\ Base \in 0 .. Len(q)
    BY <1>1, <1>2, <1>3
  <2>2. /\ RootOf(p) \in Path /\ Len(RootOf(p)) = Base /\ IsPrefix(RootOf(p), p)
    BY <1>3, <2>1, PrefixOf DEF RootOf
  <2>3. IsPrefix(RootOf(p), q)
    BY <1>3, <2>2, PrefixTrans
  <2> QED
    BY <1>3, <2>2, <2>3, PrefixIs DEF RootOf
<1>5. Len(q) = Base' + (n + 1) - 1
  BY <1>1, <1>2, <1>3
<1>6. IsRoot(RootOf(q))'
  <2>1. IsRoot(RootOf(q)) /\ RootOf(q)' = RootOf(q)
    BY <1>1, <1>2, <1>4
  <2>2. \A r : r = RootOf(q) => IsRoot(r)'
    BY <1>1, <2>1
  <2> QED
    BY <2>1, <2>2 DEF IsRoot
<1>7. N + 1 \in 1 .. Len(printed') /\ \A k \in 1 .. N : k \in 1 .. Len(printed')
  BY <1>1
<1>8. \E k \in 1 .. Len(printed') : printed'[k] = [path |-> Front(q), listing |-> "listed"]
  BY <1>1, <1>3, <1>7
<1>9. \E k \in 1 .. Len(printed') : printed'[k].path = RootOf(q)
  <2>1. CASE IsRoot(p)
    <3>1. p = RootOf(p)
      BY <1>3, <2>1, PrefixRefl, PrefixIs DEF IsRoot, RootOf
    <3> QED
      BY <1>1, <1>4, <1>7, <3>1
  <2>2. CASE \E k \in 1 .. N : printed[k].path = RootOf(p)
    BY <1>1, <1>4, <1>7, <2>2
  <2> QED
    BY <1>2, <2>1, <2>2 DEF Rooted
<1> QED
  BY <1>1, <1>5, <1>6, <1>8, <1>9 DEF LevelOf, Founded, Rooted, q, n

\* A directory that is listed and entered.
LEMMA IntoKeeps ==
  ASSUME ToolInv, at = "walking", Top # << >>, Descends,
         sent' = Append(sent, Exchange(Lists(Entry.path))), IsDir(Entry.path),
         printed' = Line("listed"), stack' = Append(Rest, Shown(Entry.path)),
         UNCHANGED <<at, result, local, fetch>>, UNCHANGED tool
  PROVE  ToolInv'
<1> USE DEF ToolInv
<1> DEFINE S == {e \in Listing(Entry.path) : job.files \/ e.dir}
           l == Shown(Entry.path)
           n == Len(stack)
<1>1. /\ UNCHANGED <<job, remote, touched>> /\ job.command = "tree" /\ IsTree(remote)
      /\ DOMAIN remote \subseteq Path
  BY CommandWords, TreeIs DEF tool, Stages, Typed
<1>2. /\ stack \in Stacks /\ Rest \in Stacks /\ Entry.path \in Path
      /\ Pending(stack) = Pending(Rest) \cup {Entry}
      /\ ~ AskedFor(Entry.path)
  BY Visiting
<1>3. S \in SUBSET Listing(Entry.path) /\ EachOnce(l, S)
  <2>1. S \in SUBSET Listing(Entry.path) /\ l = InOrder(S)
    BY DEF Shown
  <2> QED
    BY <1>1, <1>2, <2>1, ListingOrdered
<1>4. /\ stack' \in Stacks /\ stack' # << >> /\ Apart(stack)'
      /\ Pending(stack)' = Pending(Rest) \cup S
      /\ Len(stack') = n + 1 /\ stack'[n + 1] = l
      /\ \A i \in 1 .. n : stack'[i] = Rest[i]
      /\ \A f \in Pending(stack)' : f \in Pending(Rest) \/ (f.path \in Path /\ Child(f.path, Entry.path))
  <2>1. stack' = Append(Rest, l)
    OBVIOUS
  <2> HIDE DEF l, S, n
  <2> QED
    BY <1>1, <1>3, <2>1, Entering DEF n
<1>5. /\ Spoken'
      /\ \A q \in Path : AskedFor(q)' => AskedFor(q) \/ q = Entry.path
  BY <1>2, Requesting DEF Lists, About, Visits
<1>6. /\ printed' \in Seq(Lines) /\ Len(printed') = Len(printed) + 1
      /\ \A p : Shows(p)' <=> Shows(p) \/ p = Entry.path
      /\ \A p : WasListed(p)' <=> WasListed(p) \/ p = Entry.path
  BY <1>1, OneMoreLine
<1>7. Typed'
  BY <1>1, <1>4, <1>5, <1>6 DEF Typed, Stacks, Spoken
<1>8. Stages'
  BY <1>1 DEF Stages
<1>9. Asked'
  <2>1. \A p \in Path : Visited(p)' => Visited(p) \/ p = Entry.path
    BY <1>5, <1>6 DEF Visited
  <2> QED
    BY <1>4, <1>5, <2>1, AskedAfter
<1> HIDE DEF S, l
<1>10. Tree'
  <2>1. /\ \A i, j \in 1 .. Len(printed') : printed'[i].path = printed'[j].path => i = j
        /\ \A i \in 1 .. Len(stack) :
             InDepth(i - 1)' /\ \A k \in 1 .. Len(Rest[i]) : \A e : e = Rest[i][k] => LevelOf(e, i)'
        /\ (\A i \in 1 .. Len(printed) :
              LET p == printed[i].path
              IN /\ Len(p) >= Base /\ IsRoot(RootOf(p)) /\ InDepth(Len(p) - Base)
                 /\ Founded(p, i - 1) /\ Rooted(p, i - 1))'
        /\ n \in Nat \ {0}
    BY <1>1, LineKeepsTree
  <2>2. (\A m : m = n => InDepth(m)') /\ \A k \in 1 .. Len(l) : \A e : e = l[k] => \A i : i = n + 1 => LevelOf(e, i)'
    <3>1. \A m : m = n => InDepth(m)'
      <4>1. job.depth \in Nat
        BY DEF Typed, Job
      <4> QED
        BY <1>1, <2>1, <4>1 DEF Descends, InDepth
    <3>2. ASSUME NEW k \in 1 .. Len(l)
          PROVE  l[k].path \in Path /\ Child(l[k].path, Entry.path)
      <4>1. l[k] \in S
        BY <1>3 DEF EachOnce
      <4>2. l[k] \in Listing(Entry.path)
        BY <4>1 DEF S
      <4> QED
        BY <1>1, <1>2, <4>2, ListingIs DEF Entries
    <3> QED
      BY <1>1, <3>1, <3>2, LevelBelow
  <2>3. Levels(stack)'
    <3>1. \A i \in 1 .. Len(stack') : i \in 1 .. n \/ i = n + 1
      BY <1>4, <2>1
    <3>2. ASSUME NEW i \in 1 .. Len(stack')
          PROVE  InDepth(i - 1)' /\ \A k \in 1 .. Len(stack'[i]) : \A e : e = stack'[i][k] => LevelOf(e, i)'
      <4>1. CASE i \in 1 .. n
        BY <1>4, <2>1, <4>1
      <4>2. CASE i = n + 1
        <5>1. i - 1 = n
          BY <2>1, <4>2
        <5> QED
          BY <1>4, <2>2, <4>2, <5>1
      <4> QED
        BY <3>1, <4>1, <4>2
    <3> QED
      BY <3>2 DEF Levels
  <2>4. (\A i \in 1 .. Len(stack) : InDepth(i - 1) /\ \A k \in 1 .. Len(stack[i]) : LevelOf(stack[i][k], i))'
    BY <2>3, LevelsAre, PTL
  <2>5. \A p : (Untouched(p)' <=> Untouched(p)) /\ (IsDir(p)' <=> IsDir(p))
    BY <1>1 DEF Untouched, IsDir, Holds
  <2>6. Roots' = Roots
    BY <1>1 DEF Roots, Children
  <2>7. \A p : Found(p) => Found(p)'
    BY <1>2, <1>4, <1>6 DEF Found
  <2>8. \A p \in DOMAIN remote :
          (/\ Untouched(p) /\ (IsDir(p) \/ job.files)
           /\ (p \in Roots \/ (Len(p) > 1 /\ WasListed(Front(p))))) => Found(p)
    <3>1. at \notin {"start", "rooting"} /\ result # "error"
      BY DEF Stages, Ended
    <3> QED
      BY <1>1, <3>1 DEF Tree
  <2>9. ASSUME NEW p \in DOMAIN remote, IsDir(p) \/ job.files, Len(p) > 1, Front(p) = Entry.path
        PROVE  Found(p)'
    <3>1. p \in Path /\ Len(p) >= 1
      BY <1>1, <2>9 DEF Path
    <3>2. Child(p, Entry.path)
      BY <1>2, <2>9, <3>1, ChildFront
    <3>3. [path |-> p, dir |-> IsDir(p)] \in Listing(Entry.path)
      BY <1>1, <1>2, <3>2, ListingIs
    <3>4. [path |-> p, dir |-> IsDir(p)] \in S
      BY <2>9, <3>3 DEF S
    <3> QED
      BY <1>4, <3>4 DEF Found
  <2>10. (\A p \in DOMAIN remote :
          (/\ Untouched(p) /\ (IsDir(p) \/ job.files)
           /\ (p \in Roots \/ (Len(p) > 1 /\ WasListed(Front(p))))) => Found(p))'
    BY <1>1, <1>6, <2>5, <2>6, <2>7, <2>8, <2>9
  <2>11. at' = "walking"
    OBVIOUS
  <2> QED
    BY <2>1, <2>4, <2>10, <2>11 DEF Tree
<1>11. Mirror'
  BY <1>1, MirrorOther
<1> QED
  BY <1>7, <1>8, <1>9, <1>10, <1>11

LEMMA WalkKeeps ==
  ASSUME ToolInv, WalkPast \/ WalkInto
  PROVE  ToolInv'
<1>1. CASE WalkPast
  BY <1>1, PassKeeps DEF WalkPast
<1>2. CASE WalkInto
  <2>1. Answers(Lists(Entry.path)) => sent' = Append(sent, Exchange(Lists(Entry.path)))
    BY SaidIs
  <2>2. Fails(Lists(Entry.path)) => sent' = sent \/ sent' = Append(sent, Exchange(Lists(Entry.path)))
    BY SaidIs
  <2>3. CASE /\ Answers(Lists(Entry.path)) /\ IsDir(Entry.path)
             /\ printed' = Line("listed")
             /\ stack' = Append(Rest, Shown(Entry.path))
    BY <1>2, <2>1, <2>3, IntoKeeps DEF WalkInto
  <2>4. CASE /\ Fails(Lists(Entry.path))
             /\ printed' = Line("unreadable")
             /\ stack' = Rest
    BY <1>2, <2>2, <2>4, PassKeeps DEF WalkInto
  <2> QED
    BY <1>2, <2>3, <2>4 DEF WalkInto
<1> QED
  BY <1>1, <1>2

\* A directory that is through.
LEMMA ReturnKeeps ==
  ASSUME ToolInv, Return
  PROVE  ToolInv'
<1> USE DEF ToolInv
<1>1. /\ at \in {"walking", "mirroring"} /\ Last(stack) = << >>
      /\ UNCHANGED <<job, remote, touched, link, sent, local, fetch, printed>>
  BY DEF Return, Top, tool
<1>2. /\ stack \in Stacks /\ stack # << >> /\ Apart(stack) /\ at \notin Ended /\ result = "none"
      /\ at \notin Fresh /\ job.command \in {"tree", "get"}
  BY <1>1 DEF Typed, Stacks, Asked, Ended, Stages, Fresh
<1>3. /\ stack' = Front(stack) /\ result' = result
      /\ Len(stack) = 1 => at' = "leaving"
      /\ Len(stack) # 1 => at' = at
  <2>1. Len(stack) = 1 => Front(stack) = << >>
    BY <1>1, <1>2, ReturnShape
  <2> QED
    BY <2>1 DEF Return, Proceeds
<1>4. /\ stack' \in Stacks /\ Len(stack') = Len(stack) - 1 /\ Len(stack) \in Nat \ {0}
      /\ \A i \in 1 .. Len(stack) - 1 : stack'[i] = stack[i]
      /\ Len(stack) = 1 => stack' = << >>
      /\ Len(stack) # 1 => stack' # << >>
  BY <1>1, <1>2, <1>3, ReturnShape DEF Stacks
<1>5. Pending(stack)' = Pending(stack) /\ Apart(stack)'
  <2>1. Pending(Front(stack)) = Pending(stack) /\ Apart(Front(stack))
    BY <1>1, <1>2, ReturnShape
  <2>2. Pending(stack)' = Pending(stack') /\ (Apart(stack)' <=> Apart(stack'))
    BY DEF Pending, Apart
  <2> QED
    BY <1>3, <2>1, <2>2
<1>6. Typed'
  BY <1>1, <1>4 DEF Typed, Stacks
<1>7. Stages'
  BY <1>1, <1>2, <1>3 DEF Stages, Ended
<1>8. Asked'
  <2>1. \A p : (AskedFor(p)' <=> AskedFor(p)) /\ (Visited(p)' => Visited(p))
    BY <1>1, <1>3 DEF AskedFor, Visited, Shows
  <2>2. Ahead'
    BY <1>2, <1>5, <2>1 DEF Asked, Ahead
  <2>3. at' \notin Fresh /\ at' \notin Wordy /\ at' # "fetching"
    BY <1>1, <1>3 DEF Fresh, Wordy
  <2> QED
    BY <1>1, <1>2, <1>3, <1>4, <1>5, <2>2, <2>3, SameWords DEF Asked, Fresh, Wordy
<1>9. Tree'
  <2> SUFFICES ASSUME job.command = "tree"
               PROVE  Tree'
    BY <1>1 DEF Tree
  <2>1. at = "walking"
    BY <1>1 DEF Stages
  <2>2. /\ \A p : (Shows(p)' <=> Shows(p)) /\ (WasListed(p)' <=> WasListed(p))
        /\ \A p : Found(p)' <=> Found(p)
        /\ \A e, i : LevelOf(e, i)' <=> LevelOf(e, i)
        /\ \A n : InDepth(n)' <=> InDepth(n)
        /\ Base' = Base /\ \A p : (IsRoot(p)' <=> IsRoot(p)) /\ RootOf(p)' = RootOf(p)
        /\ \A p, n : (Founded(p, n)' <=> Founded(p, n)) /\ (Rooted(p, n)' <=> Rooted(p, n))
    <3>1. Base' = Base /\ \A p : (IsRoot(p)' <=> IsRoot(p)) /\ RootOf(p)' = RootOf(p)
      BY <1>1 DEF Base, IsRoot, RootOf
    <3>2. \A p, n : (Founded(p, n)' <=> Founded(p, n)) /\ (Rooted(p, n)' <=> Rooted(p, n))
      BY <1>1, <3>1 DEF Founded, Rooted
    <3>3. \A p : (Shows(p)' <=> Shows(p)) /\ (WasListed(p)' <=> WasListed(p))
      BY <1>1 DEF Shows, WasListed
    <3>4. \A p : Found(p)' <=> Found(p)
      BY <1>5, <3>3 DEF Found
    <3>5. \A n : InDepth(n)' <=> InDepth(n)
      BY <1>1 DEF InDepth
    <3>6. \A e, i : LevelOf(e, i)' <=> LevelOf(e, i)
      BY <1>1, <3>1, <3>2 DEF LevelOf
    <3> QED
      BY <3>1, <3>2, <3>3, <3>4, <3>5, <3>6
  <2>3. Levels(stack)'
    <3>1. Levels(stack)
      BY LevelsAre DEF Tree
    <3>2. \A i \in 1 .. Len(stack') : i \in 1 .. Len(stack) /\ stack'[i] = stack[i]
      BY <1>4
    <3> QED
      BY <2>2, <3>1, <3>2 DEF Levels
  <2>4. (\A i \in 1 .. Len(stack) : InDepth(i - 1) /\ \A k \in 1 .. Len(stack[i]) : LevelOf(stack[i][k], i))'
    BY <2>3, LevelsAre, PTL
  <2>5. (\A i \in 1 .. Len(printed) :
           LET p == printed[i].path
           IN /\ Len(p) >= Base /\ IsRoot(RootOf(p)) /\ InDepth(Len(p) - Base)
              /\ Founded(p, i - 1) /\ Rooted(p, i - 1))'
    <3>1. \A i \in 1 .. Len(printed) :
            LET p == printed[i].path
            IN /\ Len(p) >= Base /\ IsRoot(RootOf(p)) /\ InDepth(Len(p) - Base)
               /\ Founded(p, i - 1) /\ Rooted(p, i - 1)
      BY DEF Tree
    <3> QED
      BY <1>1, <3>1 DEF Base, RootOf, IsRoot, InDepth, Founded, Rooted
  <2>6. \A p : (Untouched(p)' <=> Untouched(p)) /\ (IsDir(p)' <=> IsDir(p))
    BY <1>1 DEF Untouched, IsDir, Holds
  <2>7. Roots' = Roots
    BY <1>1 DEF Roots, Children
  <2>8. \A p \in DOMAIN remote :
          (/\ Untouched(p) /\ (IsDir(p) \/ job.files)
           /\ (p \in Roots \/ (Len(p) > 1 /\ WasListed(Front(p))))) => Found(p)
    BY <1>2, <2>1 DEF Tree
  <2>9. (\A p \in DOMAIN remote :
          (/\ Untouched(p) /\ (IsDir(p) \/ job.files)
           /\ (p \in Roots \/ (Len(p) > 1 /\ WasListed(Front(p))))) => Found(p))'
    BY <1>1, <2>2, <2>6, <2>7, <2>8
  <2>10. at' \notin {"start", "rooting", "walking"} => stack' = << >>
    BY <1>3, <1>4, <2>1
  <2>11. (\A i, j \in 1 .. Len(printed) : printed[i].path = printed[j].path => i = j)'
    BY <1>1 DEF Tree
  <2> QED
    BY <2>4, <2>5, <2>9, <2>10, <2>11 DEF Tree
<1>10. Mirror'
  <2>1. CASE job.command = "tree"
    BY <1>1, <1>2, <1>3, <2>1, MirrorOther
  <2>2. CASE job.command = "get"
    <3>1. Covered => Covered'
      BY <1>1, <1>3, <1>5 DEF Covered, Untouched, Here, Awaited, Fetching
    <3>2. \A p : (Untouched(p)' <=> Untouched(p)) /\ (IsDir(p)' <=> IsDir(p))
      BY <1>1 DEF Untouched, IsDir, Holds
    <3>3. at' \notin {"storing", "fetching"} /\ at' \notin Fresh /\ (at' = "leaving" => stack' = << >>) /\ at' \notin Ended
      BY <1>1, <1>3, <1>4 DEF Fresh, Ended
    <3>4. Covered
      BY <1>2, <2>2 DEF Mirror
    <3>5. (\A e \in Pending(stack) :
             /\ e.dir \/ Len(e.path) > 1
             /\ Untouched(e.path) => e.path \in DOMAIN remote /\ IsDir(e.path) = e.dir)'
      <4>1. ASSUME NEW e \in Pending(stack)
            PROVE  /\ e.dir \/ Len(e.path) > 1
                   /\ Untouched(e.path)' => e.path \in DOMAIN remote /\ IsDir(e.path)' = e.dir
        <5>1. /\ e.dir \/ Len(e.path) > 1
              /\ Untouched(e.path) => e.path \in DOMAIN remote /\ IsDir(e.path) = e.dir
          BY <2>2 DEF Mirror
        <5>2. IsDir(e.path)' = IsDir(e.path)
          BY <1>1 DEF IsDir, Holds
        <5> QED
          BY <3>2, <5>1, <5>2
      <4> QED
        BY <1>1, <1>5, <4>1
    <3>6. \A p \in DOMAIN local' : local'[p] # Part
      BY <1>1, <1>2 DEF Mirror
    <3> QED
      BY <1>1, <2>2, <3>1, <3>3, <3>4, <3>5, <3>6 DEF Mirror
  <2> QED
    BY <1>2, <2>1, <2>2
<1> QED
  BY <1>6, <1>7, <1>8, <1>9, <1>10

-----------------------------------------------------------------------------
(* The first level. *)

LEMMA FirstLevel ==
  ASSUME NEW d \in Path, NEW S \in SUBSET Entries, NEW l, EachOnce(l, S),
         \A e \in S : Child(e.path, d),
         \A a, b \in S : a.path = b.path => a = b
  PROVE  /\ << l >> \in Stacks /\ << l >> # << >> /\ Len(<< l >>) = 1 /\ << l >>[1] = l
         /\ Pending(<< l >>) = S /\ Apart(<< l >>)
<1>1. << >> \in Stacks /\ Append(<< >>, l) = << l >>
  BY DEF Stacks
<1>2. l \in Seq(Entries)
  <2>1. l \in Seq(S) /\ Seq(S) \subseteq Seq(Entries)
    BY DEF EachOnce
  <2> QED
    BY <2>1
<1>3. Pending(<< l >>) = S
  BY <1>1, NothingPending, PushPending
<1>4. Apart(<< l >>)
  <2>1. Apart(Append(<< >>, l))
    BY <1>1, NothingPending, PushApart
  <2> QED
    BY <1>1, <2>1
<1> QED
  BY <1>2, <1>3, <1>4 DEF Stacks

LEMMA OneEntry ==
  ASSUME NEW p \in Path, p # << >>
  PROVE  /\ DirEntry(p) \in Entries /\ EachOnce(<<DirEntry(p)>>, {DirEntry(p)})
         /\ Front(p) \in Path /\ Child(p, Front(p)) /\ DirEntry(p).path = p /\ DirEntry(p).dir
<1>1. Len(p) >= 1 /\ Len(p) - 1 \in 0 .. Len(p)
  BY DEF Path
<1>2. Front(p) \in Path
  BY <1>1, PrefixOf DEF Front
<1>3. Child(p, Front(p))
  BY <1>1, <1>2, ChildFront
<1>4. EachOnce(<<DirEntry(p)>>, {DirEntry(p)})
  <2> DEFINE e == DirEntry(p)
  <2> HIDE DEF e
  <2>1. <<e>> \in Seq({e}) /\ Len(<<e>>) = 1 /\ <<e>>[1] = e
    OBVIOUS
  <2>2. EachOnce(<<e>>, {e})
    BY <2>1 DEF EachOnce
  <2> QED
    BY <2>2 DEF e
<1> QED
  BY <1>2, <1>3, <1>4 DEF DirEntry, Entries

\* One word is all that was said.
LEMMA OneWord ==
  ASSUME sent = << >>, NEW w \in Words \ {"bye"}, sent' = sent \/ sent' = Append(sent, Exchange(<<w>>))
  PROVE  Spoken' /\ \A p : ~ AskedFor(p)'
<1>1. Spoken /\ (\A p : ~ AskedFor(p)) /\ Len(sent) = 0
  BY NothingSaid
<1>2. CASE sent' = sent
  BY <1>1, <1>2, SameWords
<1>3. CASE sent' = Append(sent, Exchange(<<w>>))
  <2>1. <<w>> \in Requests /\ <<w>> # <<"bye">> /\ \A p : <<w>> \notin About(p)
    BY WordsAre DEF About
  <2>2. Spoken' /\ \A p : AskedFor(p)' <=> AskedFor(p) \/ <<w>> \in About(p)
    BY <1>1, <1>3, <2>1, ConnectionIs, Saying DEF Exchange
  <2> QED
    BY <1>1, <2>1, <2>2
<1> QED
  BY <1>2, <1>3

LEMMA RootsKeep ==
  ASSUME ToolInv, ListRoots
  PROVE  ToolInv'
<1> USE DEF ToolInv
<1>1. /\ at = "rooting" /\ job.command = "tree" /\ result = "none" /\ job.path \in Path
      /\ UNCHANGED <<job, remote, touched, local, fetch, printed>>
  BY DEF ListRoots, tool, Stages, Ended, Typed, Job, Path
<1>2. /\ sent = << >> /\ printed = << >> /\ stack = << >>
      /\ IsTree(remote) /\ DOMAIN remote \subseteq Path /\ touched \subseteq Path
  BY <1>1, CommandWords, TreeIs DEF Asked, Fresh, Typed
<1>3. /\ sent' = sent \/ sent' = Append(sent, Exchange(<<"drivelist">>))
      /\ "drivelist" \in Words \ {"bye"}
  BY SaidIs, CommandWords DEF ListRoots
<1>4. CASE Ends("error") /\ UNCHANGED stack
  <2>1. at' \in Ended /\ result' = "error"
    BY <1>4, EndsIs
  <2>2. at \in Fresh /\ at' \notin Fresh /\ at' # "enabling" /\ at \notin Ended
    BY <1>1, <2>1 DEF Fresh, Ended
  <2>3. Talks
    <3>1. <<"drivelist">> \in Requests \ {<<"bye">>} /\ \A p \in Path : <<"drivelist">> \notin About(p)
      BY <1>3, WordsAre DEF About
    <3> QED
      BY <1>3, <2>1, <2>2, <3>1, SaysNothing, SaysFirst
  <2>4. Plain
    BY <1>1, <1>2, <1>4, <2>1, <2>3, CommandWords DEF Plain, Stages, Visits, Fresh, Wordy, Ended
  <2> QED
    BY <2>4, PlainKeeps
<1>5. ASSUME NEW d \in Path, NEW S \in SUBSET Entries, NEW l, EachOnce(l, S), stack' = << l >>,
             Proceeds("walking"),
             \A e \in S : Child(e.path, d) /\ IsRoot(e.path),
             \A a, b \in S : a.path = b.path => a = b,
             \A p \in DOMAIN remote : p \in Roots /\ (IsDir(p) \/ job.files) => \E e \in S : e.path = p
      PROVE  ToolInv'
  <2>1. at' = "walking" /\ result' = result
    BY <1>5 DEF Proceeds
  <2>2. /\ stack' \in Stacks /\ stack' # << >> /\ Len(stack') = 1 /\ stack'[1] = l
        /\ Pending(stack') = S /\ Apart(stack')
    BY <1>5, FirstLevel
  <2>3. Pending(stack)' = S /\ Apart(stack)'
    <3>1. Pending(stack)' = Pending(stack') /\ (Apart(stack)' <=> Apart(stack'))
      BY DEF Pending, Apart
    <3> QED
      BY <2>2, <3>1
  <2>4. /\ Spoken'
        /\ \A p \in Path : ~ AskedFor(p)'
    BY <1>2, <1>3, OneWord
  <2>5. Typed'
    BY <1>1, <2>2, <2>4 DEF Typed, Stacks, Spoken
  <2>6. Stages'
    BY <1>1, <2>1 DEF Stages, Ended
  <2>7. Asked'
    <3>1. \A p \in Path : ~ Visited(p)'
      BY <1>1, <1>2, <2>1, <2>4 DEF Visited, Shows
    <3>2. Ahead'
      BY <3>1 DEF Ahead
    <3> QED
      BY <2>1, <2>2, <2>3, <2>4, <3>2 DEF Asked, Spoken, Fresh, Wordy, Ended
  <2>8. Tree'
    <3>1. \A e \in S : LevelOf(e, 1)'
      <4> SUFFICES ASSUME NEW e \in S
                   PROVE  LevelOf(e, 1)'
        OBVIOUS
      <4>1. e.path \in Path /\ IsRoot(e.path) /\ Base \in Nat \ {0} /\ Len(e.path) = Base
        BY <1>1, <1>5 DEF Entries, IsRoot, Base, Path
      <4>2. RootOf(e.path) = e.path
        BY <4>1, PrefixRefl, PrefixIs DEF RootOf
      <4>3. Base' = Base /\ RootOf(e.path)' = RootOf(e.path) /\ \A p : IsRoot(p)' <=> IsRoot(p)
        BY <1>1 DEF Base, RootOf, IsRoot
      <4>4. IsRoot(RootOf(e.path))'
        BY <4>1, <4>2, <4>3 DEF IsRoot
      <4>5. IsRoot(e.path)' /\ Len(e.path) = Base' + 1 - 1
        BY <4>1, <4>3
      <4> QED
        BY <4>4, <4>5 DEF LevelOf, Founded, Rooted
    <3>2. (\A i \in 1 .. Len(stack) : InDepth(i - 1) /\ \A k \in 1 .. Len(stack[i]) : LevelOf(stack[i][k], i))'
      <4>1. InDepth(0)'
        BY <1>1 DEF InDepth, Typed, Job
      <4>2. \A i \in 1 .. Len(stack') : i = 1
        BY <2>2
      <4>3. \A k \in 1 .. Len(l) : l[k] \in S
        BY <1>5 DEF EachOnce
      <4>4. Levels(stack)'
        BY <2>2, <3>1, <4>1, <4>2, <4>3 DEF Levels
      <4> QED
        BY <4>4, LevelsAre, PTL
    <3>3. printed' = << >> /\ 1 .. Len(printed') = {}
      BY <1>1, <1>2
    <3>4. /\ Roots' = Roots /\ remote' = remote
          /\ \A p : IsDir(p)' <=> IsDir(p)
          /\ \A p : ~ WasListed(p)'
      BY <1>1, <3>3 DEF Roots, Children, IsDir, Holds, WasListed
    <3>5. ASSUME NEW p \in DOMAIN remote, p \in Roots, IsDir(p) \/ job.files
          PROVE  Found(p)'
      BY <1>5, <2>3, <3>5 DEF Found
    <3> QED
      BY <1>1, <2>1, <3>2, <3>3, <3>4, <3>5 DEF Tree
  <2>9. Mirror'
    BY <1>1, <2>1, MirrorOther
  <2> QED
    BY <2>5, <2>6, <2>7, <2>8, <2>9
<1>6. CASE job.path # << >> /\ stack' = << <<DirEntry(job.path)>> >> /\ Proceeds("walking")
  <2> DEFINE S == {DirEntry(job.path)}
             l == <<DirEntry(job.path)>>
             d == Front(job.path)
  <2>1. /\ S \in SUBSET Entries /\ EachOnce(l, S) /\ d \in Path /\ stack' = << l >>
        /\ \A e \in S : Child(e.path, d) /\ e.path = job.path
    BY <1>1, <1>6, OneEntry
  <2>2. \A e \in S : IsRoot(e.path)
    BY <1>6, <2>1 DEF IsRoot, Base
  <2>3. \A p \in Roots : \E e \in S : e.path = p
    BY <1>6, <2>1 DEF Roots
  <2> HIDE DEF S, l, d
  <2>4. \A a, b \in S : a.path = b.path => a = b
    BY DEF S
  <2> QED
    BY <1>5, <1>6, <2>1, <2>2, <2>3, <2>4
<1>7. CASE /\ job.path = << >> /\ Proceeds("walking")
           /\ \E drives \in SetToSeqs(Listing(<< >>)) : stack' = << drives >>
  <2>1. PICK l \in SetToSeqs(Listing(<< >>)) : stack' = << l >>
    BY <1>7
  <2> DEFINE S == Listing(<< >>)
  <2>2. << >> \in Path
    BY DEF Path
  <2>3. /\ IsFiniteSet(S) /\ S \in SUBSET Entries
        /\ \A e \in S : Child(e.path, << >>)
        /\ \A a, b \in S : a.path = b.path => a = b
        /\ \A q \in DOMAIN remote : Child(q, << >>) => [path |-> q, dir |-> IsDir(q)] \in S
    BY <1>2, <2>2, ListingIs
  <2>4. EachOnce(l, S)
    BY <2>1, <2>3, AnyOrder
  <2>5. \A e \in S : IsRoot(e.path)
    BY <1>7, <2>3 DEF IsRoot, Base, Child
  <2>6. \A p \in DOMAIN remote : p \in Roots => \E e \in S : e.path = p
    <3>1. \A p \in Roots : p \in DOMAIN remote /\ Child(p, << >>)
      BY <1>2, <1>7, <2>2, ChildrenAre DEF Roots
    <3> QED
      BY <2>3, <3>1
  <2> HIDE DEF S
  <2> QED
    BY <1>5, <1>7, <2>1, <2>2, <2>3, <2>4, <2>5, <2>6
<1> QED
  BY <1>4, <1>6, <1>7 DEF ListRoots

-----------------------------------------------------------------------------
(* get: the end of it, and its beginning. *)

\* What fails is over, whatever was left half done.
LEMMA FailKeeps ==
  ASSUME ToolInv, at \notin Ended, job.command # "tree", at' \in Ended, result' = "error",
         UNCHANGED <<job, remote, touched, stack, printed>>,
         fetch' \in [path : Path, serves : Int],
         Spoken'
  PROVE  ToolInv'
<1> USE DEF ToolInv
<1>1. at' \notin Fresh /\ at' \notin Wordy /\ at' \notin {"walking", "mirroring", "fetching", "storing", "leaving"}
  BY DEF Fresh, Wordy, Ended
<1>2. Typed'
  BY DEF Typed, Spoken
<1>3. Stages'
  BY DEF Stages, Ended
<1>4. Asked'
  <2>1. Apart(stack)'
    BY DEF Asked, Apart
  <2>2. Ahead'
    BY DEF Ahead
  <2> QED
    BY <1>1, <2>1, <2>2 DEF Asked, Spoken, Fresh, Wordy, Ended
<1>5. Tree'
  BY TreeOther
<1>6. Mirror'
  <2>1. CASE job.command = "get"
    <3>1. \A p : (Untouched(p)' <=> Untouched(p)) /\ (IsDir(p)' <=> IsDir(p)) /\ IsDir(p)' = IsDir(p)
      BY DEF Untouched, IsDir, Holds
    <3>2. Pending(stack)' = Pending(stack)
      BY DEF Pending
    <3>3. ASSUME NEW e \in Pending(stack)
          PROVE  /\ e.dir \/ Len(e.path) > 1
                 /\ Untouched(e.path)' => e.path \in DOMAIN remote /\ IsDir(e.path)' = e.dir
      BY <2>1, <3>1 DEF Mirror
    <3> QED
      BY <1>1, <2>1, <3>2, <3>3 DEF Mirror
  <2>2. CASE job.command # "get"
    BY <1>1, <2>2 DEF Mirror
  <2> QED
    BY <2>1, <2>2
<1> QED
  BY <1>2, <1>3, <1>4, <1>5, <1>6

LEMMA StatKeeps ==
  ASSUME ToolInv, Stat
  PROVE  ToolInv'
<1> USE DEF ToolInv
<1>1. /\ at = "stating" /\ job.command = "get" /\ result = "none" /\ job.path \in Path
      /\ UNCHANGED <<job, remote, touched, local, printed>>
  BY DEF Stat, tool, Stages, Ended, Typed, Job, Path
<1>2. /\ sent = << >> /\ printed = << >> /\ stack = << >> /\ local = << >>
      /\ IsTree(remote) /\ DOMAIN remote \subseteq Path /\ << >> \notin DOMAIN remote
      /\ job.command # "tree" /\ at \notin Ended
      /\ fetch \in [path : Path, serves : Int]
  BY <1>1, CommandWords, TreeIs DEF Asked, Fresh, Typed, Mirror, Ended
<1>3. sent' = sent \/ sent' = Append(sent, Exchange(<<"getfileattributes">>))
  BY SaidIs DEF Stat
<1>4. /\ Spoken'
      /\ \A p \in Path : ~ AskedFor(p)'
  <2>1. "getfileattributes" \in Words \ {"bye"}
    BY CommandWords
  <2> QED
    BY <1>2, <1>3, <2>1, OneWord
<1>5. CASE Ends("error") /\ UNCHANGED stack /\ UNCHANGED fetch
  <2>1. at' \in Ended /\ result' = "error"
    BY <1>5, EndsIs
  <2>2. fetch' \in [path : Path, serves : Int]
    BY <1>2, <1>5
  <2> QED
    BY <1>1, <1>2, <1>4, <1>5, <2>1, <2>2, FailKeeps
<1>6. CASE Fetches(job.path) /\ Proceeds("fetching") /\ UNCHANGED stack
  <2>1. /\ at' = "fetching" /\ result' = result /\ stack' = << >>
        /\ fetch' = [path |-> job.path, serves |-> Part] /\ fetch'.path = job.path
    BY <1>2, <1>6 DEF Fetches, Proceeds
  <2>2. Pending(stack)' = {} /\ Apart(stack)'
    <3>1. Pending(stack') = {} /\ Apart(stack')
      BY <2>1, NothingPending
    <3> QED
      BY <3>1 DEF Pending, Apart
  <2>3. Typed'
    BY <1>1, <1>2, <1>4, <2>1 DEF Typed, Part, Spoken
  <2>4. Stages'
    BY <1>1, <2>1 DEF Stages, Ended
  <2>5. Asked'
    <3>1. Ahead'
      BY <2>2 DEF Ahead
    <3>2. ~ AskedFor(fetch.path)'
      <4>1. \A p : p = job.path => ~ AskedFor(p)'
        BY <1>1, <1>4
      <4> QED
        BY <2>1, <4>1 DEF AskedFor
    <3> QED
      BY <1>4, <2>1, <2>2, <3>1, <3>2 DEF Asked, Spoken, Fresh, Wordy, Ended
  <2>6. Tree'
    BY <1>1, <1>2, TreeOther
  <2>7. Mirror'
    BY <1>1, <1>2, <2>1, <2>2 DEF Mirror, Fresh, Ended
  <2> QED
    BY <2>3, <2>4, <2>5, <2>6, <2>7
<1>7. CASE IsDir(job.path) /\ stack' = << <<DirEntry(job.path)>> >> /\ Proceeds("mirroring") /\ UNCHANGED fetch
  <2> DEFINE e == DirEntry(job.path)
  <2>1. at' = "mirroring" /\ result' = result /\ job.path \in DOMAIN remote /\ job.path # << >>
    BY <1>2, <1>7 DEF Proceeds, IsDir, Holds
  <2>2. /\ e \in Entries /\ EachOnce(<<e>>, {e}) /\ Front(job.path) \in Path
        /\ Child(job.path, Front(job.path)) /\ e.path = job.path /\ e.dir
    BY <1>1, <2>1, OneEntry
  <2>3. stack' = << <<e>> >>
    BY <1>7
  <2> HIDE DEF e
  <2>4. /\ stack' \in Stacks /\ stack' # << >> /\ Pending(stack') = {e} /\ Apart(stack')
    <3>1. \A a, b \in {e} : a.path = b.path => a = b
      OBVIOUS
    <3>2. {e} \in SUBSET Entries /\ \A x \in {e} : Child(x.path, Front(job.path))
      BY <2>2
    <3>3. /\ << <<e>> >> \in Stacks /\ << <<e>> >> # << >>
          /\ Pending(<< <<e>> >>) = {e} /\ Apart(<< <<e>> >>)
      BY <2>2, <3>1, <3>2, FirstLevel
    <3> QED
      BY <2>3, <3>3
  <2>5. Pending(stack)' = {e} /\ Apart(stack)'
    <3>1. Pending(stack)' = Pending(stack') /\ (Apart(stack)' <=> Apart(stack'))
      BY DEF Pending, Apart
    <3> QED
      BY <2>4, <3>1
  <2>6. Typed'
    BY <1>1, <1>2, <1>4, <1>7, <2>4 DEF Typed, Stacks, Spoken
  <2>7. Stages'
    BY <1>1, <2>1 DEF Stages, Ended
  <2>8. Asked'
    <3>1. \A p \in Path : ~ Visited(p)'
      BY <1>1, <1>2, <1>4, <2>1 DEF Visited, Shows
    <3>2. Ahead'
      BY <3>1 DEF Ahead
    <3> QED
      BY <1>4, <2>1, <2>4, <2>5, <3>2 DEF Asked, Spoken, Fresh, Wordy, Ended
  <2>9. Tree'
    BY <1>1, <1>2, TreeOther
  <2>10. Mirror'
    <3>1. Covered'
      BY <1>1, <2>2, <2>5 DEF Covered, Awaited
    <3>2. \A x : x \in Pending(stack)' => x.dir /\ x.path \in DOMAIN remote' /\ IsDir(x.path)' = x.dir
      BY <1>1, <1>7, <2>1, <2>2, <2>5 DEF IsDir, Holds
    <3>3. /\ at' \notin Fresh /\ at' \notin {"storing", "fetching", "leaving"} /\ at' \notin Ended
          /\ stack' # << >> /\ local' = << >> /\ job'.command = "get"
      BY <1>1, <1>2, <2>1, <2>4 DEF Fresh, Ended
    <3>4. (\A x \in Pending(stack) :
             /\ x.dir \/ Len(x.path) > 1
             /\ Untouched(x.path) => x.path \in DOMAIN remote /\ IsDir(x.path) = x.dir)'
      BY <3>2
    <3> QED
      BY <3>1, <3>3, <3>4 DEF Mirror
  <2> QED
    BY <2>6, <2>7, <2>8, <2>9, <2>10
<1> QED
  BY <1>5, <1>6, <1>7 DEF Stat

-----------------------------------------------------------------------------
(* get -r: directories and files. *)

\* Of what lies in a directory nobody changed, everything is below one of the
\* entries of its listing.
LEMMA BelowAnEntry ==
  ASSUME IsTree(remote), NEW d \in Path, NEW p \in DOMAIN remote, IsPrefix(d, p), p # d
  PROVE  \E e \in Listing(d) : e.path \in Path /\ IsPrefix(e.path, p)
<1>1. DOMAIN remote \subseteq Path /\ p \in Path
  BY TreeIs
<1>2. Len(d) \in Nat /\ Len(p) \in Nat /\ Len(d) < Len(p)
  BY <1>1, PrefixIndex, PrefixSame DEF Path
<1> DEFINE q == SubSeq(p, 1, Len(d) + 1)
<1>3. Len(d) + 1 \in 0 .. Len(p)
  BY <1>2
<1>4. q \in Path /\ Len(q) = Len(d) + 1 /\ IsPrefix(q, p)
  BY <1>1, <1>3, PrefixOf
<1> HIDE DEF q
<1>5. IsPrefix(d, q)
  BY <1>1, <1>2, <1>4, PrefixChain
<1>6. q \in DOMAIN remote
  <2>1. q # << >>
    BY <1>2, <1>4
  <2> QED
    BY <1>4, <2>1, TreeIs
<1>7. [path |-> q, dir |-> IsDir(q)] \in Listing(d)
  BY <1>4, <1>5, <1>6, ListingIs DEF Child
<1> QED
  BY <1>4, <1>7

LEMMA MirrorDirKeeps ==
  ASSUME ToolInv, MirrorDir
  PROVE  ToolInv'
<1> USE DEF ToolInv
<1>1. /\ at = "mirroring" /\ Top # << >> /\ Entry.dir /\ job.command = "get" /\ result = "none"
      /\ UNCHANGED <<job, remote, touched, fetch, printed>>
      /\ at \notin Ended /\ job.command # "tree" /\ fetch \in [path : Path, serves : Int]
  BY DEF MirrorDir, tool, Stages, Ended, Typed
<1>2. /\ stack \in Stacks /\ Rest \in Stacks /\ Entry.path \in Path
      /\ Pending(stack) = Pending(Rest) \cup {Entry} /\ Entry \in Entries
      /\ ~ AskedFor(Entry.path)
  BY <1>1, Visiting
<1>3. /\ IsTree(remote) /\ DOMAIN remote \subseteq Path
      /\ \A p \in DOMAIN remote : remote[p] \in Nat /\ Len(p) \in Nat \ {0}
  BY <1>1, CommandWords, TreeIs DEF Typed
<1>4. sent' = sent \/ sent' = Append(sent, Exchange(Lists(Entry.path)))
  BY SaidIs DEF MirrorDir
<1>5. /\ Spoken'
      /\ \A q \in Path : AskedFor(q)' => AskedFor(q) \/ q = Entry.path
  BY <1>1, <1>2, <1>4, Requesting DEF Lists, About, Visits
<1>6. CASE Ends("error") /\ UNCHANGED stack
  <2>1. at' \in Ended /\ result' = "error"
    BY <1>6, EndsIs
  <2> QED
    BY <1>1, <1>5, <1>6, <2>1, FailKeeps
<1>7. ASSUME local' = Put(local, Entry.path, Dir), IsDir(Entry.path), UNCHANGED <<at, result>>,
             NEW l \in SetToSeqs(Listing(Entry.path)), stack' = Append(Rest, l)
      PROVE  ToolInv'
  <2> DEFINE S == Listing(Entry.path)
  <2>1. /\ IsFiniteSet(S) /\ S \subseteq Entries
        /\ \A e \in S : /\ e.path \in DOMAIN remote /\ Child(e.path, Entry.path)
                        /\ e.dir = IsDir(e.path)
    BY <1>2, <1>3, ListingIs
  <2>2. EachOnce(l, S)
    BY <2>1, AnyOrder
  <2>3. /\ stack' \in Stacks /\ stack' # << >> /\ Apart(stack)'
        /\ Pending(stack)' = Pending(Rest) \cup S
        /\ \A f \in Pending(stack)' : f \in Pending(Rest) \/ (f.path \in Path /\ Child(f.path, Entry.path))
    BY <1>1, <1>3, <1>7, <2>2, Entering
  <2> HIDE DEF S
  <2>4. Typed'
    BY <1>1, <1>5, <2>3 DEF Typed, Stacks, Spoken
  <2>5. Stages'
    BY <1>1, <1>7 DEF Stages
  <2>6. Asked'
    <3>1. \A p \in Path : Visited(p)' => Visited(p) \/ p = Entry.path
      BY <1>1, <1>5, <1>7 DEF Visited, Shows
    <3> QED
      BY <1>1, <1>5, <1>7, <2>3, <3>1, AskedAfter
  <2>7. Tree'
    BY <1>1, TreeOther
  <2>8. Mirror'
    <3>1. /\ DOMAIN local' = DOMAIN local \cup {Entry.path} /\ local'[Entry.path] = Dir
          /\ \A q \in DOMAIN local : q # Entry.path => local'[q] = local[q]
      BY <1>7 DEF Put
    <3>2. \A p \in DOMAIN local' : local'[p] # Part
      BY <1>1, <3>1 DEF Mirror, Dir, Part
    <3>3. Entry.path \in DOMAIN remote /\ remote[Entry.path] = Dir
      BY <1>7 DEF IsDir, Holds
    <3>4. Covered'
      <4> SUFFICES ASSUME NEW p \in DOMAIN remote, IsPrefix(job.path, p), Untouched(p)
                   PROVE  Here(p)' \/ Awaited(p)'
        BY <1>1 DEF Covered, Untouched
      <4>1. Here(p) \/ Awaited(p)
        <5>1. Covered
          <6>1. stack # << >> /\ result # "error"
            BY <1>1, Visiting
          <6> QED
            BY <1>1, <6>1 DEF Mirror
        <5> QED
          BY <1>1, <5>1 DEF Covered, Fetching
      <4>2. Here(p) => Here(p)'
        BY <1>1, <3>1, <3>3 DEF Here
      <4>3. ASSUME NEW e \in Pending(Rest), IsPrefix(e.path, p)
            PROVE  Awaited(p)'
        BY <2>3, <4>3 DEF Awaited
      <4>4. ASSUME IsPrefix(Entry.path, p)
            PROVE  Here(p)' \/ Awaited(p)'
        <5>1. CASE p = Entry.path
          BY <1>1, <3>1, <3>3, <5>1 DEF Here
        <5>2. CASE p # Entry.path
          <6>1. \E e \in S : e.path \in Path /\ IsPrefix(e.path, p)
            BY <1>2, <1>3, <4>4, <5>2, BelowAnEntry DEF S
          <6> QED
            BY <2>3, <6>1 DEF Awaited
        <5> QED
          BY <5>1, <5>2
      <4> QED
        BY <1>2, <4>1, <4>2, <4>3, <4>4 DEF Awaited
    <3>5. (\A e \in Pending(stack) :
             /\ e.dir \/ Len(e.path) > 1
             /\ Untouched(e.path) => e.path \in DOMAIN remote /\ IsDir(e.path) = e.dir)'
      <4>1. \A p : (Untouched(p)' <=> Untouched(p)) /\ IsDir(p)' = IsDir(p)
        BY <1>1 DEF Untouched, IsDir, Holds
      <4>2. ASSUME NEW e \in Pending(Rest)
            PROVE  /\ e.dir \/ Len(e.path) > 1
                   /\ Untouched(e.path)' => e.path \in DOMAIN remote /\ IsDir(e.path)' = e.dir
        BY <1>1, <1>2, <4>1 DEF Mirror
      <4>3. ASSUME NEW e \in S
            PROVE  /\ Len(e.path) > 1
                   /\ e.path \in DOMAIN remote /\ IsDir(e.path)' = e.dir
        <5>1. Len(Entry.path) \in Nat \ {0}
          BY <1>3, <3>3
        <5> QED
          BY <2>1, <4>1, <5>1 DEF Child
      <4> QED
        BY <1>1, <2>3, <4>2, <4>3
    <3>6. /\ at' \notin Fresh /\ at' \notin {"storing", "fetching", "leaving"} /\ at' \notin Ended
          /\ stack' # << >> /\ job'.command = "get"
      BY <1>1, <1>7, <2>3 DEF Fresh, Ended
    <3> QED
      BY <3>2, <3>4, <3>5, <3>6 DEF Mirror
  <2> QED
    BY <2>4, <2>5, <2>6, <2>7, <2>8
<1> QED
  BY <1>6, <1>7 DEF MirrorDir

LEMMA MirrorFileKeeps ==
  ASSUME ToolInv, MirrorFile
  PROVE  ToolInv'
<1> USE DEF ToolInv
<1>1. /\ at = "mirroring" /\ Top # << >> /\ ~ Entry.dir /\ job.command = "get" /\ result = "none"
      /\ UNCHANGED <<job, remote, touched, printed, local, link, sent>>
      /\ at' = "fetching" /\ result' = result /\ stack' = Rest
      /\ fetch' = [path |-> Entry.path, serves |-> Part] /\ fetch'.path = Entry.path
  BY DEF MirrorFile, tool, Stages, Ended, Fetches, Proceeds
<1>2. /\ stack \in Stacks /\ stack # << >> /\ Rest \in Stacks /\ Rest # << >> /\ Entry.path \in Path
      /\ Pending(stack) = Pending(Rest) \cup {Entry} /\ Entry \in Entries /\ Apart(Rest)
      /\ ~ AskedFor(Entry.path)
  BY <1>1, Visiting
<1>3. /\ IsTree(remote) /\ DOMAIN remote \subseteq Path
  BY <1>1, CommandWords, TreeIs DEF Typed
<1>4. Pending(stack)' = Pending(Rest) /\ Apart(stack)'
  <2>1. Pending(stack)' = Pending(stack') /\ (Apart(stack)' <=> Apart(stack'))
    BY DEF Pending, Apart
  <2> QED
    BY <1>1, <1>2, <2>1
<1>5. Typed'
  BY <1>1, <1>2 DEF Typed, Stacks, Part
<1>6. Stages'
  BY <1>1 DEF Stages, Ended
<1>7. Asked'
  <2>1. \A p : AskedFor(p)' <=> AskedFor(p)
    BY <1>1 DEF AskedFor
  <2>2. \A p \in Path : Visited(p)' => Visited(p) \/ p = Entry.path
    BY <1>1, <2>1 DEF Visited, Shows
  <2>3. ~ AskedFor(fetch.path)'
    <3>1. \A p : p = Entry.path => ~ AskedFor(p)'
      BY <1>2, <2>1
    <3> QED
      BY <1>1, <3>1 DEF AskedFor
  <2>4. Spoken'
    BY <1>1, SameWords DEF Asked, Ended
  <2> QED
    BY <1>1, <1>2, <1>4, <2>2, <2>3, <2>4, AskedAfter
<1>8. Tree'
  BY <1>1, TreeOther
<1>9. Mirror'
  <2>1. /\ Covered
        /\ Entry.dir \/ Len(Entry.path) > 1
        /\ Untouched(Entry.path) => Entry.path \in DOMAIN remote /\ IsDir(Entry.path) = Entry.dir
    BY <1>1, <1>2 DEF Mirror
  <2>2. Covered'
    <3> SUFFICES ASSUME NEW p \in DOMAIN remote, IsPrefix(job.path, p), Untouched(p)
                 PROVE  Here(p)' \/ Awaited(p)' \/ Fetching(p)'
      BY <1>1 DEF Covered, Untouched
    <3>1. Here(p) \/ Awaited(p)
      BY <1>1, <2>1 DEF Covered, Fetching
    <3>2. Here(p) => Here(p)'
      BY <1>1 DEF Here
    <3>3. ASSUME NEW e \in Pending(Rest), IsPrefix(e.path, p)
          PROVE  Awaited(p)'
      BY <1>4, <3>3 DEF Awaited
    <3>4. ASSUME IsPrefix(Entry.path, p)
          PROVE  Fetching(p)'
      <4>1. CASE p = Entry.path
        BY <1>1, <4>1 DEF Fetching
      <4>2. CASE p # Entry.path
        <5>1. Entry.path \in DOMAIN remote /\ remote[Entry.path] = Dir
          <6>1. Entry.path # << >>
            BY <1>1, <2>1
          <6> QED
            BY <1>2, <1>3, <3>4, <4>2, <6>1, TreeIs
        <5>2. Untouched(Entry.path)
          BY <1>2, <1>3, <3>4, UntouchedAbove DEF Typed
        <5>3. IsDir(Entry.path)
          BY <5>1 DEF IsDir, Holds
        <5> QED
          BY <1>1, <2>1, <5>2, <5>3
      <4> QED
        BY <4>1, <4>2
    <3> QED
      BY <1>2, <3>1, <3>2, <3>3, <3>4 DEF Awaited
  <2>3. (\A e \in Pending(stack) :
           /\ e.dir \/ Len(e.path) > 1
           /\ Untouched(e.path) => e.path \in DOMAIN remote /\ IsDir(e.path) = e.dir)'
    <3>1. \A p : (Untouched(p)' <=> Untouched(p)) /\ IsDir(p)' = IsDir(p)
      BY <1>1 DEF Untouched, IsDir, Holds
    <3>2. ASSUME NEW e \in Pending(Rest)
          PROVE  /\ e.dir \/ Len(e.path) > 1
                 /\ Untouched(e.path)' => e.path \in DOMAIN remote /\ IsDir(e.path)' = e.dir
      BY <1>1, <1>2, <3>1 DEF Mirror
    <3> QED
      BY <1>1, <1>4, <3>2
  <2>4. /\ at' \notin Fresh /\ at' \notin {"storing", "leaving"} /\ at' \notin Ended
        /\ stack' # << >> /\ job'.command = "get" /\ Len(fetch'.path) > 1
    BY <1>1, <1>2, <2>1 DEF Fresh, Ended
  <2>5. \A p \in DOMAIN local' : local'[p] # Part
    BY <1>1 DEF Mirror
  <2> QED
    BY <2>2, <2>3, <2>4, <2>5 DEF Mirror
<1> QED
  BY <1>5, <1>6, <1>7, <1>8, <1>9

LEMMA GetFileKeeps ==
  ASSUME ToolInv, GetFile
  PROVE  ToolInv'
<1> USE DEF ToolInv
<1>1. /\ at = "fetching" /\ job.command \in {"get", "nand-dump"} /\ result = "none"
      /\ UNCHANGED <<job, remote, touched, printed, local, stack>>
      /\ at \notin Ended /\ job.command # "tree" /\ fetch \in [path : Path, serves : Int]
      /\ fetch.path \in Path /\ ~ AskedFor(fetch.path)
  BY DEF GetFile, tool, Stages, Ended, Typed, Asked
<1>2. /\ IsTree(remote) /\ \A p \in DOMAIN remote : remote[p] \in Nat
  BY <1>1, CommandWords, TreeIs DEF Typed
<1>3. sent' = sent \/ sent' = Append(sent, Exchange(<<"getfile", fetch.path>>))
  BY SaidIs DEF GetFile
<1>4. /\ Spoken'
      /\ \A q \in Path : AskedFor(q)' => AskedFor(q) \/ q = fetch.path
  BY <1>1, <1>3, Requesting DEF About, Visits
<1>5. CASE Ends("error") /\ UNCHANGED fetch
  <2>1. at' \in Ended /\ result' = "error"
    BY <1>5, EndsIs
  <2>2. fetch' \in [path : Path, serves : Int]
    BY <1>1, <1>5
  <2> QED
    BY <1>1, <1>4, <2>1, <2>2, FailKeeps
<1>6. CASE /\ Holds(fetch.path) /\ (fetch.path = Flash \/ ~ IsDir(fetch.path))
           /\ fetch' = [fetch EXCEPT !.serves = IF fetch.path = Flash THEN Image ELSE remote[fetch.path]]
           /\ Proceeds("storing")
  <2>1. /\ at' = "storing" /\ result' = result /\ fetch'.path = fetch.path
        /\ fetch'.serves = IF fetch.path = Flash THEN Image ELSE remote[fetch.path]
        /\ fetch.path \in DOMAIN remote /\ remote[fetch.path] \in Nat
    BY <1>1, <1>2, <1>6 DEF Proceeds, Holds
  <2>2. /\ fetch' \in [path : Path, serves : Int] /\ fetch'.serves # Part /\ fetch'.serves # Dir
    BY <1>1, <1>6, <2>1 DEF Image, Part, Dir, IsDir, Holds
  <2>3. Pending(stack)' = Pending(stack)
    BY <1>1 DEF Pending
  <2>4. Typed'
    BY <1>1, <1>4, <2>2 DEF Typed, Spoken
  <2>5. Stages'
    BY <1>1, <2>1 DEF Stages, Ended
  <2>6. Asked'
    <3>1. \A p \in Path : Visited(p)' => Visited(p)
      BY <1>1, <1>4, <2>1 DEF Visited, Shows
    <3>2. Ahead'
      BY <1>1, <2>1, <2>3, <3>1 DEF Asked, Ahead, Ended
    <3>3. Apart(stack)'
      BY <1>1 DEF Asked, Apart
    <3> QED
      BY <1>4, <2>1, <3>2, <3>3 DEF Asked, Spoken, Fresh, Wordy, Ended
  <2>7. Tree'
    BY <1>1, TreeOther
  <2>8. Mirror'
    <3>1. CASE job.command = "nand-dump"
      BY <1>1, <2>1, <2>2, <3>1 DEF Mirror, Ended
    <3>2. CASE job.command = "get"
      <4>1. Covered => Covered'
        BY <1>1, <2>1, <2>3 DEF Covered, Untouched, Here, Awaited, Fetching
      <4>2. \A p : (Untouched(p)' <=> Untouched(p)) /\ IsDir(p)' = IsDir(p)
        BY <1>1 DEF Untouched, IsDir, Holds
      <4>3. ASSUME NEW e \in Pending(stack)
            PROVE  /\ e.dir \/ Len(e.path) > 1
                   /\ Untouched(e.path)' => e.path \in DOMAIN remote /\ IsDir(e.path)' = e.dir
        BY <3>2, <4>2 DEF Mirror
      <4>4. ASSUME stack # << >>
            PROVE  fetch'.serves = remote[fetch.path]
        <5>1. Len(fetch.path) > 1
          BY <1>1, <3>2, <4>4 DEF Mirror
        <5>2. Len(Flash) = 1
          BY DEF Flash
        <5>3. fetch.path # Flash
          <6> DEFINE n == Len(fetch.path)
          <6>1. fetch.path = Flash => n = 1
            BY <5>2
          <6>2. n > 1
            BY <5>1
          <6> HIDE DEF n
          <6> QED
            BY <6>1, <6>2
        <5> QED
          BY <2>1, <5>3
      <4> QED
        BY <1>1, <2>1, <2>2, <2>3, <3>2, <4>1, <4>3, <4>4 DEF Mirror, Ended, Fresh
    <3> QED
      BY <1>1, <3>1, <3>2
  <2> QED
    BY <2>4, <2>5, <2>6, <2>7, <2>8
<1> QED
  BY <1>5, <1>6 DEF GetFile

LEMMA StoreKeeps ==
  ASSUME ToolInv, Store
  PROVE  ToolInv'
<1> USE DEF ToolInv
<1>1. /\ at = "storing" /\ job.command \in {"get", "nand-dump"} /\ result = "none"
      /\ UNCHANGED <<job, remote, touched, printed, fetch, stack, sent>>
      /\ at \notin Ended /\ job.command # "tree" /\ fetch \in [path : Path, serves : Int]
      /\ Spoken
  BY DEF Store, tool, Stages, Ended, Typed, Asked
<1>2. CASE Ends("error")
  <2>1. at' \in Ended /\ result' = "error"
    BY <1>2, EndsIs
  <2>2. fetch' \in [path : Path, serves : Int] /\ Spoken'
    BY <1>1, SameWords
  <2> QED
    BY <1>1, <2>1, <2>2, FailKeeps
<1>3. CASE local' = Put(local, fetch.path, fetch.serves) /\ Stored
  <2>1. /\ result' = result
        /\ stack = << >> => at' = "leaving"
        /\ stack # << >> => at' = "mirroring"
    BY <1>3 DEF Stored, Proceeds
  <2>2. /\ DOMAIN local' = DOMAIN local \cup {fetch.path} /\ local'[fetch.path] = fetch.serves
        /\ \A q \in DOMAIN local : q # fetch.path => local'[q] = local[q]
    BY <1>3 DEF Put
  <2>3. \A p \in DOMAIN local' : local'[p] # Part
    BY <1>1, <2>2 DEF Mirror
  <2>4. Pending(stack)' = Pending(stack) /\ Apart(stack)'
    BY <1>1 DEF Pending, Asked, Apart
  <2>5. at' \in {"leaving", "mirroring"} /\ at' \notin Fresh \cup Wordy \cup Ended /\ at' \notin {"fetching", "storing"}
    BY <2>1 DEF Fresh, Wordy, Ended
  <2>6. Typed'
    BY <1>1 DEF Typed
  <2>7. Stages'
    <3>1. stack # << >> => job.command = "get"
      BY <1>1 DEF Mirror
    <3> QED
      BY <1>1, <2>1, <3>1 DEF Stages, Ended
  <2>8. Asked'
    <3>1. \A p : Visited(p)' => Visited(p)
      BY <1>1, <2>5 DEF Visited, Shows, AskedFor
    <3>2. Ahead'
      BY <1>1, <2>4, <3>1 DEF Asked, Ahead
    <3> QED
      BY <1>1, <2>1, <2>4, <2>5, <3>2, SameWords DEF Asked
  <2>9. Tree'
    BY <1>1, TreeOther
  <2>10. Mirror'
    <3>1. CASE job.command = "nand-dump"
      BY <1>1, <2>1, <2>2, <2>3, <2>5, <3>1 DEF Mirror
    <3>2. CASE job.command = "get"
      <4>1. ASSUME NEW e \in Pending(stack)
            PROVE  /\ e.dir \/ Len(e.path) > 1
                   /\ Untouched(e.path)' => e.path \in DOMAIN remote /\ IsDir(e.path)' = e.dir
        <5>1. (Untouched(e.path)' <=> Untouched(e.path)) /\ IsDir(e.path)' = IsDir(e.path)
          BY <1>1 DEF Untouched, IsDir, Holds
        <5> QED
          BY <3>2, <5>1 DEF Mirror
      <4>2. ASSUME stack # << >>
            PROVE  Covered'
        <5> SUFFICES ASSUME NEW p \in DOMAIN remote, IsPrefix(job.path, p), Untouched(p)
                     PROVE  Here(p)' \/ Awaited(p)'
          BY <1>1 DEF Covered, Untouched
        <5>1. Here(p) \/ Awaited(p) \/ p = fetch.path
          <6>1. Covered
            BY <1>1, <3>2, <4>2 DEF Mirror
          <6> QED
            BY <6>1 DEF Covered, Fetching
        <5>2. CASE p = fetch.path
          <6>1. fetch.serves = remote[p]
            BY <1>1, <3>2, <4>2, <5>2 DEF Mirror
          <6> QED
            BY <1>1, <2>2, <5>2, <6>1 DEF Here
        <5>3. CASE p # fetch.path /\ Here(p)
          BY <1>1, <2>2, <5>3 DEF Here
        <5>4. CASE Awaited(p)
          BY <2>4, <5>4 DEF Awaited
        <5> QED
          BY <5>1, <5>2, <5>3, <5>4
      <4>3. ASSUME stack = << >>, job.path \in DOMAIN local'
            PROVE  local'[job.path] # Dir
        <5>1. local = << >> /\ fetch.serves # Dir
          BY <1>1, <3>2, <4>3 DEF Mirror
        <5>2. DOMAIN local = {}
          BY <5>1
        <5> QED
          BY <2>2, <4>3, <5>1, <5>2
      <4> QED
        BY <1>1, <2>1, <2>3, <2>4, <2>5, <3>2, <4>1, <4>2, <4>3 DEF Mirror
    <3> QED
      BY <1>1, <3>1, <3>2
  <2> QED
    BY <2>6, <2>7, <2>8, <2>9, <2>10
<1> QED
  BY <1>2, <1>3 DEF Store

\* The second connection of nand-dump asks for a file nobody asked for.
LEMMA ReconnectKeeps ==
  ASSUME ToolInv, Reconnect
  PROVE  ToolInv'
<1> USE DEF ToolInv
<1>1. /\ at = "reconnecting" /\ job.command = "nand-dump" /\ result = "none"
      /\ UNCHANGED <<job, remote, touched, printed, local, stack, sent>>
      /\ at \notin Ended /\ job.command # "tree" /\ stack = << >>
      /\ Spoken /\ \A p \in Path : ~ AskedFor(p)
  BY DEF Reconnect, tool, Stages, Ended, Typed, Asked, Wordy, Mirror
<1>2. CASE Ends("error") /\ UNCHANGED fetch
  <2>1. at' \in Ended /\ result' = "error"
    BY <1>2, EndsIs
  <2>2. fetch' \in [path : Path, serves : Int] /\ Spoken'
    BY <1>1, <1>2, SameWords DEF Typed
  <2> QED
    BY <1>1, <2>1, <2>2, FailKeeps
<1>3. CASE Fetches(Flash) /\ Proceeds("fetching")
  <2>1. /\ at' = "fetching" /\ result' = result /\ Flash \in Path
        /\ fetch' = [path |-> Flash, serves |-> Part] /\ fetch'.path = Flash
    BY <1>3 DEF Fetches, Proceeds, Flash, Path
  <2>2. Pending(stack)' = {} /\ Apart(stack)'
    <3>1. Pending(stack)' = Pending(stack') /\ (Apart(stack)' <=> Apart(stack'))
      BY DEF Pending, Apart
    <3> QED
      BY <1>1, <3>1, NothingPending
  <2>3. Typed'
    BY <1>1, <2>1 DEF Typed, Part
  <2>4. Stages'
    BY <1>1, <2>1 DEF Stages, Ended
  <2>5. Asked'
    <3>1. Ahead'
      BY <2>2 DEF Ahead
    <3>2. ~ AskedFor(fetch.path)'
      <4>1. \A p : p = Flash => ~ AskedFor(p)'
        BY <1>1, <2>1, SameWords
      <4> QED
        BY <2>1, <4>1 DEF AskedFor, About
    <3>3. Spoken'
      BY <1>1, SameWords
    <3> QED
      BY <1>1, <2>1, <2>2, <3>1, <3>2, <3>3 DEF Asked, Spoken, Fresh, Wordy, Ended
  <2>6. Tree'
    BY <1>1, TreeOther
  <2>7. Mirror'
    BY <1>1, <2>1 DEF Mirror, Ended
  <2> QED
    BY <2>3, <2>4, <2>5, <2>6, <2>7
<1> QED
  BY <1>2, <1>3 DEF Reconnect

-----------------------------------------------------------------------------
(* The theorems. *)

LEMMA InitEstablishes ==
  ASSUME Init
  PROVE  ToolInv
<1>1. /\ job \in Job /\ IsTree(remote) /\ at = "start" /\ result = "none"
      /\ local = << >> /\ stack = << >> /\ printed = << >> /\ sent = << >> /\ touched = {}
      /\ fetch = [path |-> << >>, serves |-> Part]
  BY ToolAssumption DEF Init
<1>2. Typed
  BY <1>1 DEF Typed, Path, Part
<1>3. Stages
  BY <1>1 DEF Stages, Ended
<1>4. Asked
  <2>1. Ahead
    BY <1>1, NothingPending DEF Ahead
  <2> QED
    BY <1>1, <2>1, NothingPending, NothingSaid DEF Asked, Spoken, Fresh, Wordy, Ended
<1>5. Tree
  BY <1>1 DEF Tree
<1>6. Mirror
  BY <1>1, NothingPending DEF Mirror, Ended
<1> QED
  BY <1>2, <1>3, <1>4, <1>5, <1>6 DEF ToolInv

LEMMA NextKeeps ==
  ASSUME ToolInv, [Next]_vars
  PROVE  ToolInv'
<1>1. CASE Start \/ RunLocal \/ RunCommand \/ SaveScreenshot \/ Leave \/ WriteCapture
           \/ Subscribe \/ ListenUntilDeadline \/ ListenUntilClosed \/ OpenSource \/ Upload
           \/ Probe \/ Enable
  <2>1. Plain
    BY <1>1, StartIsPlain, CommandIsPlain, EndIsPlain, UploadIsPlain, ProbeIsPlain,
       EnableIsPlain
  <2> QED
    BY <2>1, PlainKeeps
<1>2. CASE ListRoots
  BY <1>2, RootsKeep
<1>3. CASE WalkPast \/ WalkInto
  BY <1>3, WalkKeeps
<1>4. CASE Return
  BY <1>4, ReturnKeeps
<1>5. CASE Stat
  BY <1>5, StatKeeps
<1>6. CASE MirrorDir
  BY <1>6, MirrorDirKeeps
<1>7. CASE MirrorFile
  BY <1>7, MirrorFileKeeps
<1>8. CASE GetFile
  BY <1>8, GetFileKeeps
<1>9. CASE Store
  BY <1>9, StoreKeeps
<1>10. CASE Reconnect
  BY <1>10, ReconnectKeeps
<1>11. CASE Edit
  BY <1>11, EditKeepsInv
<1>12. CASE UNCHANGED vars
  <2> USE <1>12 DEF vars, ToolInv
  <2>1. Pending(stack)' = Pending(stack) /\ (Apart(stack)' <=> Apart(stack))
    BY DEF Pending, Apart
  <2>2. \A p : /\ (AskedFor(p)' <=> AskedFor(p)) /\ (Visited(p)' <=> Visited(p))
              /\ (Untouched(p)' <=> Untouched(p)) /\ (IsDir(p)' <=> IsDir(p)) /\ IsDir(p)' = IsDir(p)
    BY DEF AskedFor, Visited, Shows, Untouched, IsDir, Holds
  <2>3. Typed' /\ Stages'
    BY DEF Typed, Stages
  <2>4. Asked'
    <3>1. Ahead'
      BY <2>1, <2>2 DEF Asked, Ahead
    <3> QED
      BY <2>1, <2>2, <3>1, SameWords DEF Asked
  <2>5. Tree'
    <3>1. Roots' = Roots
      BY DEF Roots, Children
    <3> QED
      BY <2>2, <3>1, SameTree DEF Tree
  <2>6. Mirror'
    <3>1. Covered <=> Covered'
      BY <2>1, <2>2 DEF Covered, Here, Awaited, Fetching
    <3>2. ASSUME NEW e \in Pending(stack), job.command = "get"
          PROVE  /\ e.dir \/ Len(e.path) > 1
                 /\ Untouched(e.path)' => e.path \in DOMAIN remote /\ IsDir(e.path)' = e.dir
      BY <2>2, <3>2 DEF Mirror
    <3>3. Untouched(fetch.path)' <=> Untouched(fetch.path)
      BY DEF Untouched
    <3> QED
      BY <2>1, <3>1, <3>2, <3>3 DEF Mirror
  <2> QED
    BY <2>3, <2>4, <2>5, <2>6
<1> QED
  BY <1>1, <1>2, <1>3, <1>4, <1>5, <1>6, <1>7, <1>8, <1>9, <1>10, <1>11, <1>12 DEF Next, Steps

LEMMA Reachable == Spec => []ToolInv
<1>1. Init => ToolInv
  BY InitEstablishes
<1>2. ToolInv /\ [Next]_vars => ToolInv'
  BY NextKeeps
<1> QED
  BY <1>1, <1>2, PTL DEF Spec

\* One invocation asks the console nothing twice, but for the list of drives
\* and bye, once on each connection of its own, and nothing after the bye of a
\* connection: drive_connected, run_nand_dump, dm::enable and what they call.
THEOREM ConsoleAskedOnce == Spec => []AskedOnce
<1>1. ToolInv => AskedOnce
  BY DEF ToolInv, Asked
<1> QED
  BY <1>1, Reachable, PTL

\* The tree that run_tree and walk print has no path twice and none before
\* its directory was listed, is rooted where it was asked to be and as deep
\* as it was allowed to be; and of what nobody changed meanwhile it lacks only
\* what is under a directory that it says it could not read.
THEOREM TreeExact == Spec => []TreeIsExact
<1>1. ToolInv => TreeIsExact
  <2> SUFFICES ASSUME ToolInv, job.command = "tree"
               PROVE  TreeIsExact
    BY DEF TreeIsExact
  <2> USE DEF ToolInv
  <2>1. /\ printed \in Seq(Lines) /\ DOMAIN printed = 1 .. Len(printed) /\ Len(printed) \in Nat
        /\ \A i \in 1 .. Len(printed) : printed[i].path \in Path
        /\ IsTree(remote) /\ DOMAIN remote \subseteq Path /\ job.path \in Path
        /\ Base \in Nat \ {0}
    <3>1. \A i \in 1 .. Len(printed) : printed[i] \in Lines
      BY DEF Typed
    <3> QED
      BY <3>1, CommandWords, TreeIs DEF Typed, Lines, Job, Path, Base
  <2>2. \A i, j \in DOMAIN printed : printed[i].path = printed[j].path => i = j
    BY <2>1 DEF Tree
  <2>3. ASSUME NEW i \in DOMAIN printed
        PROVE  /\ \E root \in Prefixes(printed[i].path) :
                    /\ Below(root, printed[i].path)
                    /\ \E k \in 1 .. i : printed[k].path = root /\ (job.path # << >> => root = job.path)
               /\ printed[i].path = job.path \/ Len(printed[i].path) = 1
                    \/ \E k \in 1 .. i - 1 :
                         printed[k] = [path |-> Front(printed[i].path), listing |-> "listed"]
    <3> DEFINE p == printed[i].path
    <3>1. /\ p \in Path /\ Len(p) >= Base /\ IsRoot(RootOf(p)) /\ InDepth(Len(p) - Base)
          /\ Founded(p, i - 1) /\ Rooted(p, i - 1) /\ i \in Nat \ {0}
      BY <2>1 DEF Tree
    <3> HIDE DEF p
    <3>2. Base \in 0 .. Len(p)
      BY <2>1, <3>1 DEF Path
    <3>3. RootOf(p) \in Path /\ Len(RootOf(p)) = Base /\ IsPrefix(RootOf(p), p)
      BY <3>1, <3>2, PrefixOf DEF RootOf
    <3>4. RootOf(p) \in Prefixes(p)
      BY <3>2 DEF Prefixes, RootOf
    <3>5. Below(RootOf(p), p)
      BY <3>1, <3>3 DEF Below, InDepth
    <3>6. job.path # << >> => RootOf(p) = job.path
      BY <3>1 DEF IsRoot
    <3>7. \E k \in 1 .. i : printed[k].path = RootOf(p)
      <4>1. CASE IsRoot(p)
        <5>1. RootOf(p) = p
          BY <3>1, <4>1, PrefixRefl, PrefixIs DEF IsRoot, RootOf
        <5> QED
          BY <3>1, <5>1 DEF p
      <4>2. CASE \E k \in 1 .. i - 1 : printed[k].path = RootOf(p)
        BY <3>1, <4>2
      <4> QED
        BY <3>1, <4>1, <4>2 DEF Rooted
    <3>8. p = job.path \/ Len(p) = 1
            \/ \E k \in 1 .. i - 1 : printed[k] = [path |-> Front(p), listing |-> "listed"]
      BY <3>1 DEF Founded, IsRoot, Base
    <3> QED
      BY <3>4, <3>5, <3>6, <3>7, <3>8 DEF p
  <2>4. ASSUME Succeeded("tree"), NEW root \in Roots, NEW p \in DOMAIN remote,
               Untouched(p), IsDir(p) \/ job.files, p = root \/ WasListed(Front(p))
        PROVE  \E i \in DOMAIN printed : printed[i].path = p
    <3>1. at = "done" /\ result = "ok"
      BY <2>4 DEF Succeeded
    <3>2. stack = << >>
      BY <3>1 DEF Tree
    <3>3. p \in Roots \/ (Len(p) > 1 /\ WasListed(Front(p)))
      <4>1. CASE p = root
        BY <4>1
      <4>2. CASE WasListed(Front(p))
        <5>1. PICK k \in 1 .. Len(printed) : printed[k].path = Front(p)
          BY <2>1, <4>2 DEF WasListed
        <5>2. Len(Front(p)) >= 1
          BY <2>1, <5>1 DEF Tree
        <5>3. p \in Path /\ Len(p) \in Nat \ {0}
          BY <2>1, TreeIs
        <5>4. Front(p) \in Path /\ Len(p) = Len(Front(p)) + 1
          BY <2>1, <5>1, <5>3, ChildFront DEF Child
        <5> QED
          BY <4>2, <5>2, <5>3, <5>4
      <4> QED
        BY <2>4, <4>1, <4>2
    <3>4. Found(p)
      BY <2>4, <3>1, <3>3 DEF Tree
    <3> QED
      BY <2>1, <3>2, <3>4, NothingPending DEF Found, Shows
  <2> QED
    BY <2>2, <2>3, <2>4 DEF TreeIsExact
<1> QED
  BY <1>1, Reachable, PTL

\* A download that reports success is whole: no file of it is short, with -r
\* what nobody changed meanwhile is here as it is there, and the NAND dump is
\* the image: download_single_file, download_dir_recursive, run_nand_dump.
THEOREM DownloadIsWhole == Spec => []SuccessMeansWhole
<1>1. ToolInv => SuccessMeansWhole
  <2> SUFFICES ASSUME ToolInv
               PROVE  SuccessMeansWhole
    OBVIOUS
  <2> USE DEF ToolInv
  <2>1. result = "ok" => \A p \in DOMAIN local : local[p] # Part
    BY DEF Mirror
  <2>2. ASSUME Succeeded("get"), job.path \in DOMAIN local, local[job.path] = Dir,
               NEW p \in DOMAIN remote, IsPrefix(job.path, p), Untouched(p)
        PROVE  p \in DOMAIN local /\ local[p] = remote[p]
    <3>1. at = "done" /\ result = "ok" /\ job.command = "get"
      BY <2>2 DEF Succeeded
    <3>2. stack = << >>
      BY <3>1 DEF Mirror, Ended
    <3>3. Covered
      BY <2>2, <3>1, <3>2 DEF Mirror
    <3>4. Here(p) \/ Awaited(p) \/ Fetching(p)
      BY <2>2, <3>3 DEF Covered
    <3> QED
      BY <3>1, <3>2, <3>4, NothingPending DEF Here, Awaited, Fetching
  <2>3. Succeeded("nand-dump") => Flash \in DOMAIN local /\ local[Flash] = Image
    BY DEF Mirror, Succeeded, Ended
  <2> QED
    BY <2>1, <2>2, <2>3 DEF SuccessMeansWhole
<1> QED
  BY <1>1, Reachable, PTL

-----------------------------------------------------------------------------
(***************************************************************************)
(* What drivemap-enable and nand-dump run to map the drive is Drivemap:    *)
(* theorems for every set of tools and any number of calls, whatever fails *)
(* and however they overlap.                                               *)
(***************************************************************************)
D == INSTANCE Drivemap

Handlers == {"altaddr", "drivemap_fn"}
CallSteps    == {"discovered", "checked", "hijacked", "invoked", "reconnected",
             "restored", "verified"}

CallTypes ==
  /\ handler \in Handlers
  /\ flag \in {0, 1}
  /\ registered \in Nat
  /\ pc \in [Tool -> Over \cup CallSteps]
  /\ saw \in [Tool -> Handlers]
  /\ runs \in Nat
  /\ trouble \in BOOLEAN

\* Until calls overlap.
OneAtATime == \A t, u \in Tool : pc[t] \notin Over /\ pc[u] \notin Over => t = u

\* Holds also when steps fail.
ReadBack == \A t \in Tool : pc[t] = "verified" => handler = saw[t]

\* With no step failing, the handler is hijacked between two steps of a call
\* and at no other time, and each call found the original.
HijackIsBrief ==
  ~ trouble =>
    /\ handler = "drivemap_fn" =>
         \E t \in Tool : pc[t] \in {"hijacked", "invoked", "reconnected"}
    /\ \A t \in Tool :
         /\ pc[t] \in CallSteps => saw[t] = "altaddr"
         /\ pc[t] \in {"hijacked", "invoked", "reconnected"} => handler = "drivemap_fn"

\* With no step failing, the flag stays down until the handler is back, and
\* the routine runs in a call that found the flag down and will set it.
FlagGuards ==
  ~ trouble =>
    /\ flag = 1 => \A t \in Tool : pc[t] \in Over \cup {"discovered"}
    /\ registered <= 1
    /\ registered = 1 /\ flag = 0 =>
         \E t \in Tool : pc[t] \in {"invoked", "reconnected", "restored", "verified"}

DrivemapInv == CallTypes /\ OneAtATime /\ ReadBack /\ HijackIsBrief /\ FlagGuards

LEMMA CallInit == D!Init => DrivemapInv
<1> SUFFICES ASSUME D!Init PROVE DrivemapInv
  OBVIOUS
<1> USE DEF Handlers, CallSteps, Over, D!Over, D!history
<1>1. CallTypes
  BY DEF D!Init, CallTypes
<1>2. OneAtATime /\ ReadBack /\ HijackIsBrief /\ FlagGuards
  BY DEF D!Init, OneAtATime, ReadBack, HijackIsBrief, FlagGuards
<1> QED
  BY <1>1, <1>2 DEF DrivemapInv

LEMMA CallStep == DrivemapInv /\ ~ overlapped' /\ [D!Next]_(D!vars) => DrivemapInv'
<1> SUFFICES ASSUME DrivemapInv, ~ overlapped', [D!Next]_(D!vars) PROVE DrivemapInv'
  OBVIOUS
<1> USE DEF Handlers, CallSteps, Over, D!Over, D!history
<1>0. CallTypes /\ OneAtATime /\ ReadBack /\ HijackIsBrief /\ FlagGuards
  BY DEF DrivemapInv
<1>1. CASE UNCHANGED D!vars
  BY <1>0, <1>1 DEF D!vars, DrivemapInv, CallTypes, OneAtATime, ReadBack, HijackIsBrief, FlagGuards
<1>2. ASSUME NEW t \in Tool, D!Discover(t) PROVE DrivemapInv'
  <2>1. /\ saw' = [saw EXCEPT ![t] = handler] /\ pc' = [pc EXCEPT ![t] = "discovered"]
        /\ runs' = runs + 1 /\ UNCHANGED <<handler, flag, registered, trouble>>
    BY <1>2 DEF D!Discover, D!Advances, D!console
  <2>2. \A u \in Tool : pc[u] \in Over
    BY <1>2 DEF D!Discover, D!Quiet
  <2>3. CallTypes' /\ OneAtATime' /\ ReadBack'
    BY <1>0, <2>1, <2>2 DEF CallTypes, OneAtATime, ReadBack
  <2>4. HijackIsBrief'
    BY <1>0, <2>1, <2>2 DEF CallTypes, HijackIsBrief
  <2>5. FlagGuards'
    BY <1>0, <2>1, <2>2 DEF CallTypes, FlagGuards
  <2> QED
    BY <2>3, <2>4, <2>5 DEF DrivemapInv
<1>3. ASSUME NEW t \in Tool, pc[t] \in CallSteps PROVE \A u \in Tool \ {t} : pc[u] \in Over
  BY <1>0, <1>3 DEF OneAtATime
<1>4. ASSUME NEW t \in Tool, pc[t] \in CallSteps, UNCHANGED <<saw, runs>>,
             trouble' = TRUE, handler' \in Handlers, flag' \in {0, 1}, registered' = registered,
             NEW step \in Over \cup CallSteps, D!Advances(t, step),
             step = "verified" => handler' = saw[t]
      PROVE  DrivemapInv'
  <2>1. \A u \in Tool \ {t} : pc[u] \in Over
    BY <1>3, <1>4
  <2>2. CallTypes' /\ OneAtATime' /\ ReadBack'
    BY <1>0, <1>4, <2>1 DEF CallTypes, OneAtATime, ReadBack, D!Advances
  <2> QED
    BY <1>4, <2>2 DEF DrivemapInv, HijackIsBrief, FlagGuards
<1>5. ASSUME NEW t \in Tool, D!CheckFlag(t) PROVE DrivemapInv'
  <2>0. pc[t] = "discovered" /\ UNCHANGED <<handler, flag, registered, saw, runs>>
    BY <1>5 DEF D!CheckFlag, D!console
  <2>1. CASE D!Fails(t, "read")
    BY <1>0, <1>4, <2>0, <2>1 DEF D!Fails, CallTypes
  <2>2. CASE /\ D!Advances(t, IF flag # 0 THEN "skipped" ELSE "checked")
             /\ UNCHANGED trouble
    <3>1. pc' = [pc EXCEPT ![t] = IF flag # 0 THEN "skipped" ELSE "checked"]
      BY <2>2 DEF D!Advances
    <3>2. \A u \in Tool \ {t} : pc[u] \in Over
      BY <1>3, <2>0
    <3>3. CallTypes' /\ OneAtATime' /\ ReadBack'
      BY <1>0, <2>0, <2>2, <3>1, <3>2 DEF CallTypes, OneAtATime, ReadBack
    <3>4. HijackIsBrief' /\ FlagGuards'
      BY <1>0, <2>0, <2>2, <3>1, <3>2 DEF CallTypes, HijackIsBrief, FlagGuards
    <3> QED
      BY <3>3, <3>4 DEF DrivemapInv
  <2> QED
    BY <1>5, <2>1, <2>2 DEF D!CheckFlag
<1>6. ASSUME NEW t \in Tool, D!Hijack(t) PROVE DrivemapInv'
  <2>0. pc[t] = "checked" /\ UNCHANGED <<saw, runs, flag, registered>>
    BY <1>6 DEF D!Hijack, D!Write, D!console, D!Fails
  <2>1. \/ handler' = "drivemap_fn" /\ D!Advances(t, "hijacked") /\ UNCHANGED trouble
        \/ /\ handler' \in Handlers /\ trouble' = TRUE
           /\ \E step \in {"hijacked", "failed"} : D!Advances(t, step)
    BY <1>0, <1>6 DEF D!Hijack, D!Write, D!console, D!Fails, CallTypes
  <2>2. CASE trouble' = TRUE /\ handler' \in Handlers
             /\ \E step \in {"hijacked", "failed"} : D!Advances(t, step)
    BY <1>0, <1>4, <2>0, <2>2 DEF CallTypes
  <2>3. CASE handler' = "drivemap_fn" /\ D!Advances(t, "hijacked") /\ UNCHANGED trouble
    <3>1. \A u \in Tool \ {t} : pc[u] \in Over
      BY <1>3, <2>0
    <3>2. CallTypes' /\ OneAtATime' /\ ReadBack'
      BY <1>0, <2>0, <2>3, <3>1 DEF CallTypes, OneAtATime, ReadBack, D!Advances
    <3>3. HijackIsBrief' /\ FlagGuards'
      BY <1>0, <2>0, <2>3, <3>1 DEF CallTypes, HijackIsBrief, FlagGuards, D!Advances
    <3> QED
      BY <3>2, <3>3 DEF DrivemapInv
  <2> QED
    BY <2>1, <2>2, <2>3
<1>7. ASSUME NEW t \in Tool, D!Invoke(t) PROVE DrivemapInv'
  <2>1. /\ pc[t] = "hijacked" /\ pc' = [pc EXCEPT ![t] = "invoked"]
        /\ registered' \in {registered, registered + 1}
        /\ UNCHANGED <<handler, flag, saw, runs, trouble>>
    BY <1>0, <1>7 DEF D!Invoke, D!Advances, CallTypes
  <2>2. \A u \in Tool \ {t} : pc[u] \in Over
    BY <1>3, <2>1
  <2>3. CallTypes' /\ OneAtATime' /\ ReadBack'
    BY <1>0, <2>1, <2>2 DEF CallTypes, OneAtATime, ReadBack
  <2>4. HijackIsBrief'
    BY <1>0, <2>1, <2>2 DEF CallTypes, HijackIsBrief
  <2>5. FlagGuards'
    <3>1. ~ trouble => flag = 0 /\ registered = 0
      BY <1>0, <2>1, <2>2 DEF FlagGuards, CallTypes
    <3> QED
      BY <1>0, <2>1, <3>1 DEF FlagGuards, CallTypes
  <2> QED
    BY <2>3, <2>4, <2>5 DEF DrivemapInv
<1>8. ASSUME NEW t \in Tool, D!Reconnect(t) PROVE DrivemapInv'
  <2>0. pc[t] = "invoked" /\ UNCHANGED <<handler, flag, registered, saw, runs>>
    BY <1>8 DEF D!Reconnect, D!console
  <2>1. CASE D!Fails(t, "connect")
    BY <1>0, <1>4, <2>0, <2>1 DEF D!Fails, CallTypes
  <2>2. CASE D!Advances(t, "reconnected") /\ UNCHANGED trouble
    <3>1. \A u \in Tool \ {t} : pc[u] \in Over
      BY <1>3, <2>0
    <3>2. CallTypes' /\ OneAtATime' /\ ReadBack'
      BY <1>0, <2>0, <2>2, <3>1 DEF CallTypes, OneAtATime, ReadBack, D!Advances
    <3>3. HijackIsBrief' /\ FlagGuards'
      BY <1>0, <2>0, <2>2, <3>1 DEF CallTypes, HijackIsBrief, FlagGuards, D!Advances
    <3> QED
      BY <3>2, <3>3 DEF DrivemapInv
  <2> QED
    BY <1>8, <2>1, <2>2 DEF D!Reconnect
<1>9. ASSUME NEW t \in Tool, D!Restore(t) PROVE DrivemapInv'
  <2>0. pc[t] = "reconnected" /\ UNCHANGED <<saw, runs, flag, registered>>
    BY <1>9 DEF D!Restore, D!Write, D!console, D!Fails
  <2>1. \/ handler' = saw[t] /\ D!Advances(t, "restored") /\ UNCHANGED trouble
        \/ /\ handler' \in Handlers /\ trouble' = TRUE
           /\ \E step \in {"restored", "failed"} : D!Advances(t, step)
    BY <1>0, <1>9 DEF D!Restore, D!Write, D!console, D!Fails, CallTypes
  <2>2. CASE trouble' = TRUE /\ handler' \in Handlers
             /\ \E step \in {"restored", "failed"} : D!Advances(t, step)
    BY <1>0, <1>4, <2>0, <2>2 DEF CallTypes
  <2>3. CASE handler' = saw[t] /\ D!Advances(t, "restored") /\ UNCHANGED trouble
    <3>1. \A u \in Tool \ {t} : pc[u] \in Over
      BY <1>3, <2>0
    <3>2. CallTypes' /\ OneAtATime' /\ ReadBack'
      BY <1>0, <2>0, <2>3, <3>1 DEF CallTypes, OneAtATime, ReadBack, D!Advances
    <3>3. HijackIsBrief' /\ FlagGuards'
      BY <1>0, <2>0, <2>3, <3>1 DEF CallTypes, HijackIsBrief, FlagGuards, D!Advances
    <3> QED
      BY <3>2, <3>3 DEF DrivemapInv
  <2> QED
    BY <2>1, <2>2, <2>3
<1>10. ASSUME NEW t \in Tool, D!Verify(t) PROVE DrivemapInv'
  <2>0. pc[t] = "restored" /\ UNCHANGED <<handler, flag, registered, saw, runs>>
    BY <1>10 DEF D!Verify, D!console
  <2>1. CASE D!Fails(t, "read")
    BY <1>0, <1>4, <2>0, <2>1 DEF D!Fails, CallTypes
  <2>2. \A u \in Tool \ {t} : pc[u] \in Over
    BY <1>3, <2>0
  <2>3. CASE handler = saw[t] /\ D!Advances(t, "verified") /\ UNCHANGED trouble
    <3>1. CallTypes' /\ OneAtATime' /\ ReadBack'
      BY <1>0, <2>0, <2>2, <2>3 DEF CallTypes, OneAtATime, ReadBack, D!Advances
    <3>2. HijackIsBrief' /\ FlagGuards'
      BY <1>0, <2>0, <2>2, <2>3 DEF CallTypes, HijackIsBrief, FlagGuards, D!Advances
    <3> QED
      BY <3>1, <3>2 DEF DrivemapInv
  <2>4. CASE handler # saw[t] /\ D!Advances(t, "failed") /\ UNCHANGED trouble
    <3>1. CallTypes' /\ OneAtATime' /\ ReadBack'
      BY <1>0, <2>0, <2>2, <2>4 DEF CallTypes, OneAtATime, ReadBack, D!Advances
    <3>2. trouble
      BY <1>0, <2>0, <2>2, <2>4 DEF CallTypes, HijackIsBrief
    <3> QED
      BY <2>4, <3>1, <3>2 DEF DrivemapInv, HijackIsBrief, FlagGuards
  <2> QED
    BY <1>10, <2>1, <2>3, <2>4 DEF D!Verify
<1>11. ASSUME NEW t \in Tool, D!SetFlag(t) PROVE DrivemapInv'
  <2>0. pc[t] = "verified" /\ UNCHANGED <<saw, runs, handler, registered>>
    BY <1>11 DEF D!SetFlag, D!Write, D!console, D!Fails
  <2>1. \/ flag' = 1 /\ D!Advances(t, "enabled") /\ UNCHANGED trouble
        \/ /\ flag' \in {0, 1} /\ trouble' = TRUE
           /\ \E step \in {"enabled", "failed"} : D!Advances(t, step)
    BY <1>0, <1>11 DEF D!SetFlag, D!Write, D!console, D!Fails, CallTypes
  <2>2. CASE trouble' = TRUE /\ flag' \in {0, 1}
             /\ \E step \in {"enabled", "failed"} : D!Advances(t, step)
    BY <1>0, <1>4, <2>0, <2>2 DEF CallTypes
  <2>3. CASE flag' = 1 /\ D!Advances(t, "enabled") /\ UNCHANGED trouble
    <3>1. \A u \in Tool \ {t} : pc[u] \in Over
      BY <1>3, <2>0
    <3>2. CallTypes' /\ OneAtATime' /\ ReadBack'
      BY <1>0, <2>0, <2>3, <3>1 DEF CallTypes, OneAtATime, ReadBack, D!Advances
    <3>3. HijackIsBrief' /\ FlagGuards'
      BY <1>0, <2>0, <2>3, <3>1 DEF CallTypes, HijackIsBrief, FlagGuards, D!Advances
    <3> QED
      BY <3>2, <3>3 DEF DrivemapInv
  <2> QED
    BY <2>1, <2>2, <2>3
<1>12. ASSUME NEW t \in Tool, D!Killed(t) PROVE DrivemapInv'
  <2>1. pc[t] \in CallSteps /\ D!Fails(t, "kill") /\ UNCHANGED <<handler, flag, registered, saw, runs>>
    BY <1>0, <1>12 DEF D!Killed, D!console, CallTypes
  <2> QED
    BY <1>0, <1>4, <2>1 DEF D!Fails, CallTypes
<1> QED
  BY <1>1, <1>2, <1>5, <1>6, <1>7, <1>8, <1>9, <1>10, <1>11, <1>12 DEF D!Next, D!Proceed

-----------------------------------------------------------------------------
(* Calls that overlap, and any calls. *)

\* A hijacked handler is the work of a call that will restore it, or of one
\* that took it for the original; so long as nothing fails.
HijackHasReason ==
  /\ pc \in [Tool -> Over \cup CallSteps] /\ saw \in [Tool -> Handlers] /\ handler \in Handlers
  /\ ~ trouble /\ handler = "drivemap_fn" =>
       \E t \in Tool : \/ pc[t] \in {"hijacked", "invoked", "reconnected"}
                       \/ saw[t] = "drivemap_fn"

LEMMA ReasonStep == HijackHasReason /\ [D!Next]_(D!vars) => HijackHasReason'
<1> SUFFICES ASSUME HijackHasReason, [D!Next]_(D!vars) PROVE HijackHasReason'
  OBVIOUS
<1> USE DEF Handlers, CallSteps, Over, D!Over, D!history
<1>1. CASE UNCHANGED D!vars
  BY <1>1 DEF D!vars, HijackHasReason
<1>2. ASSUME NEW t \in Tool, D!Discover(t) PROVE HijackHasReason'
  BY <1>2 DEF D!Discover, D!Advances, D!console, HijackHasReason
<1>3. ASSUME NEW t \in Tool, D!Killed(t) PROVE HijackHasReason'
  BY <1>3 DEF D!Killed, D!Fails, D!Advances, D!console, HijackHasReason
<1>4. ASSUME NEW t \in Tool, D!Proceed(t) PROVE HijackHasReason'
  <2>1. CASE D!CheckFlag(t) \/ D!Reconnect(t)
    BY <2>1 DEF D!CheckFlag, D!Reconnect, D!Fails, D!Advances, D!console, HijackHasReason
  <2>2. CASE D!Invoke(t) \/ D!Verify(t)
    BY <2>2 DEF D!Invoke, D!Verify, D!Fails, D!Advances, D!console, HijackHasReason
  <2>3. CASE D!Hijack(t)
    BY <2>3 DEF D!Hijack, D!Write, D!Fails, D!Advances, D!console, HijackHasReason
  <2>4. CASE D!Restore(t)
    BY <2>4 DEF D!Restore, D!Write, D!Fails, D!Advances, D!console, HijackHasReason
  <2>5. CASE D!SetFlag(t)
    BY <2>5 DEF D!SetFlag, D!Write, D!Fails, D!Advances, D!console, HijackHasReason
  <2> QED
    BY <1>4, <2>1, <2>2, <2>3, <2>4, <2>5 DEF D!Proceed
<1> QED
  BY <1>1, <1>2, <1>3, <1>4 DEF D!Next

CallsInv == overlapped \in BOOLEAN /\ HijackHasReason /\ (~ overlapped => DrivemapInv)

LEMMA CallsReachable == D!Spec => []CallsInv
<1>1. D!Init => CallsInv
  BY CallInit DEF D!Init, CallsInv, HijackHasReason, Over, CallSteps, Handlers
<1>2. CallsInv /\ [D!Next]_(D!vars) => CallsInv'
  <2> SUFFICES ASSUME CallsInv, [D!Next]_(D!vars) PROVE CallsInv'
    OBVIOUS
  <2>1. overlapped' \in BOOLEAN /\ (overlapped => overlapped')
    <3>1. UNCHANGED overlapped \/ overlapped' = (overlapped \/ ~ D!Quiet)
      BY DEF D!Next, D!vars, D!Discover, D!Killed, D!Proceed, D!CheckFlag, D!Hijack, D!Invoke,
         D!Reconnect, D!Restore, D!Verify, D!SetFlag, D!history
    <3> QED
      BY <3>1 DEF CallsInv
  <2> QED
    BY <2>1, CallStep, ReasonStep DEF CallsInv
<1> QED
  BY <1>1, <1>2, PTL DEF D!Spec

-----------------------------------------------------------------------------

\* A wedged invocation leaves no hijacked handler behind, and of calls that
\* overlap only one that met the hijack of another does (enable).
THEOREM HandlerComesBack == D!Spec => []HungInvokeCannotStrand
<1>1. CallsInv => HungInvokeCannotStrand
  <2>1. CASE overlapped
    BY <2>1 DEF CallsInv, HijackHasReason, HungInvokeCannotStrand, Quiet, Over, Handlers
  <2>2. CASE ~ overlapped
    BY <2>2 DEF CallsInv, DrivemapInv, HungInvokeCannotStrand, Quiet, HijackIsBrief, CallTypes,
       Handlers, Over
  <2> QED
    BY <2>1, <2>2
<1> QED
  BY <1>1, CallsReachable, PTL

\* The flag, which makes later calls return at once, is set after the repair
\* (enable).
THEOREM FlagIsLast == D!Spec => []FlagAfterRestore
<1>1. CallsInv => FlagAfterRestore
  BY DEF CallsInv, DrivemapInv, FlagAfterRestore, HijackIsBrief, FlagGuards, CallTypes, Handlers, Over
<1> QED
  BY <1>1, CallsReachable, PTL

\* The registration routine runs once at most, however often enable is called
\* (enable).
THEOREM RoutineRunsOnce == D!Spec => []RegisteredOnce
<1>1. CallsInv => RegisteredOnce
  BY DEF CallsInv, DrivemapInv, RegisteredOnce, FlagGuards
<1> QED
  BY <1>1, CallsReachable, PTL

\* A call that reports success has read its repair back, whatever writes were
\* lost (enable).
THEOREM SuccessIsReal == D!Spec => SuccessMeansRestored
<1>1. CallsInv /\ [D!Next]_(D!vars) =>
        [\A t \in Tool : pc[t] # "enabled" /\ pc'[t] = "enabled" /\ ~ overlapped =>
           handler' = saw[t]]_pc
  <2> SUFFICES ASSUME CallsInv, D!Next, NEW t \in Tool, pc[t] # "enabled",
                      pc'[t] = "enabled", ~ overlapped
               PROVE  handler' = saw[t]
    BY DEF D!vars
  <2>1. pc \in [Tool -> Over \cup CallSteps]
    BY DEF CallsInv, DrivemapInv, CallTypes
  <2>2. PICK u \in Tool : D!Discover(u) \/ D!Proceed(u) \/ D!Killed(u)
    BY DEF D!Next
  <2>3. u = t /\ D!SetFlag(u)
    BY <2>1, <2>2 DEF D!Discover, D!Proceed, D!CheckFlag, D!Hijack, D!Invoke, D!Reconnect, D!Restore, D!Verify,
       D!SetFlag, D!Killed, D!Write, D!Fails, D!Advances
  <2>4. pc[t] = "verified" /\ handler' = handler
    BY <2>3 DEF D!SetFlag, D!Write, D!Fails, D!console
  <2> QED
    BY <2>4 DEF CallsInv, DrivemapInv, ReadBack
<1> QED
  BY <1>1, CallsReachable, PTL DEF D!Spec, SuccessMeansRestored

=============================================================================
