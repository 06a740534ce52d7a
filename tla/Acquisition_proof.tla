------------------------- MODULE Acquisition_proof -------------------------
(***************************************************************************)
(* Proofs about what objects own: for any number of components, channels,  *)
(* planes, tensors and blocks, and however often Init is called again, no  *)
(* error path and no destructor releases what is not held, nor, but for two*)
(* places, what is still needed, and what is left behind is known.  The    *)
(* last part is about what may be running when HostServices goes: the gate *)
(* of the plugin counts what it should, so the plugin is never destroyed   *)
(* under a job.                                                            *)
(***************************************************************************)
EXTENDS Acquisition, PluginHost, FiniteSetTheorems, SequenceTheorems, TLAPS

--------------------------------------------------
(* Lists *)

(* A sequence of n entries.                                                *)
IsList(q, n) == q \in Seq({q[k] : k \in DOMAIN q}) /\ Len(q) = n

(* A function on 1..n is a sequence.                                       *)
LEMMA ListFun ==
  ASSUME NEW q, NEW n \in Nat, q = [k \in 1..n |-> q[k]]
  PROVE  IsList(q, n)
BY DEF IsList

(* Its length and its domain.                                              *)
LEMMA ListLen ==
  ASSUME NEW q, NEW n, IsList(q, n)
  PROVE  n \in Nat /\ Len(q) = n /\ DOMAIN q = 1..n
BY LenProperties DEF IsList

(* The tuples the tables are written with.                                 *)
LEMMA TupleList ==
  /\ IsList(<<>>, 0)
  /\ \A a : IsList(<<a>>, 1)
  /\ \A a, b : IsList(<<a, b>>, 2)
  /\ \A a, b, c : IsList(<<a, b, c>>, 3)
  /\ \A a, b, c, d : IsList(<<a, b, c, d>>, 4)
  /\ \A a, b, c, d, e : IsList(<<a, b, c, d, e>>, 5)
  /\ \A a, b, c, d, e, f, g : IsList(<<a, b, c, d, e, f, g>>, 7)
BY DEF IsList

(* r is p with q behind it.                                                *)
Joined(r, p, q, m, n) ==
  /\ IsList(r, m + n)
  /\ \A k \in 1..m : r[k] = p[k]
  /\ \A k \in 1..n : r[m + k] = q[k]

(* Two sequences, one behind the other.                                    *)
LEMMA ListConcat ==
  ASSUME NEW p, NEW q, NEW m, NEW n, IsList(p, m), IsList(q, n)
  PROVE  Joined(p \o q, p, q, m, n)
<1> DEFINE S == {p[k] : k \in DOMAIN p} \cup {q[k] : k \in DOMAIN q}
           r == p \o q
<1>1. p \in Seq(S) /\ q \in Seq(S)
  BY DEF IsList
<1>2. /\ r \in Seq(S) /\ Len(r) = Len(p) + Len(q)
      /\ \A i \in 1 .. Len(p) + Len(q) : r[i] =
                     IF i <= Len(p) THEN p[i] ELSE q[i - Len(p)]
  BY <1>1, ConcatProperties
<1>3. Len(p) = m /\ Len(q) = n /\ m \in Nat /\ n \in Nat
  BY ListLen
<1> HIDE DEF r, S
<1>4. r = [k \in 1..(m + n) |-> r[k]]
  BY <1>2, <1>3
<1>5. IsList(r, m + n)
  BY <1>3, <1>4, ListFun
<1>6. Joined(r, p, q, m, n)
  BY <1>2, <1>3, <1>5 DEF Joined
<1> QED
  BY <1>6 DEF r

Rng(q) == {q[k] : k \in 1..Len(q)}

(* It holds the entries of both.                                           *)
LEMMA JoinedRange ==
  ASSUME NEW r, NEW p, NEW q, NEW m, NEW n, IsList(p, m), IsList(q, n),
         Joined(r, p, q, m, n)
  PROVE  Rng(r) = Rng(p) \cup Rng(q)
<1>1. Len(p) = m /\ Len(q) = n /\ Len(r) = m + n /\ m \in Nat /\ n \in Nat
  BY ListLen DEF Joined
<1>2. \A k \in 1..(m + n) : k \in 1..m \/ (k - m \in 1..n /\ k = m + (k - m))
  BY <1>1
<1>3. ASSUME NEW k \in 1..(m + n) PROVE r[k] \in Rng(p) \cup Rng(q)
  BY <1>1, <1>2, <1>3 DEF Joined, Rng
<1>4. ASSUME NEW k \in 1..m PROVE p[k] \in Rng(r)
  <2>1. k \in 1..(m + n) /\ r[k] = p[k]
    BY <1>1 DEF Joined
  <2> QED
    BY <1>1, <2>1 DEF Rng
<1>5. ASSUME NEW k \in 1..n PROVE q[k] \in Rng(r)
  <2>1. m + k \in 1..(m + n) /\ r[m + k] = q[k]
    BY <1>1 DEF Joined
  <2> QED
    BY <1>1, <2>1 DEF Rng
<1> QED
  BY <1>1, <1>3, <1>4, <1>5 DEF Rng

(* An order of releases: no entry twice, none before what needs it.        *)
Orderly(q) == \A k, m \in 1..Len(q) :
  /\ k <= m => q[k] \notin Needs(q[m])
  /\ k < m => q[k] # q[m]

(* q releases the set S, in an order that may be.                          *)
Listing(q, S) == IsList(q, Len(q)) /\ Orderly(q) /\ Rng(q) = S

(* Two orders, one behind the other, if the second needs nothing of the    *)
(* first.                                                                  *)
LEMMA ListingConcat ==
  ASSUME NEW p, NEW q, NEW S, NEW T, Listing(p, S), Listing(q, T),
         \A x \in S, y \in T : x # y /\ x \notin Needs(y)
  PROVE  Listing(p \o q, S \cup T)
<1> DEFINE r == p \o q  m == Len(p)  n == Len(q)
<1>1. IsList(p, m) /\ IsList(q, n) /\ Rng(p) = S /\ Rng(q) = T
  BY DEF Listing
<1>2. Joined(r, p, q, m, n)
  BY <1>1, ListConcat
<1>3. m \in Nat /\ n \in Nat /\ Len(r) = m + n
  BY <1>1, <1>2, ListLen DEF Joined
<1>4. Rng(r) = S \cup T
  BY <1>1, <1>2, JoinedRange
<1>5. IsList(r, Len(r))
  BY <1>2, <1>3 DEF Joined
<1> HIDE DEF r, m, n
<1>6. ASSUME NEW j \in 1..(m + n), NEW k \in 1..(m + n)
      PROVE  /\ j <= k => r[j] \notin Needs(r[k])
             /\ j < k => r[j] # r[k]
  <2>1. CASE k <= m /\ j <= k
    <3>1. j \in 1..m /\ k \in 1..m
      BY <1>3, <2>1
    <3> QED
      BY <1>2, <3>1 DEF Joined, Listing, Orderly, m
  <2>2. CASE j > m /\ j <= k
    <3>1. j - m \in 1..n /\ k - m \in 1..n /\ j = m + (j - m) /\ k = m + (k - m)
      BY <1>3, <2>2
    <3>2. r[j] = q[j - m] /\ r[k] = q[k - m]
      BY <1>2, <3>1 DEF Joined
    <3>3. j - m <= k - m /\ (j < k => j - m < k - m)
      BY <1>3, <2>2
    <3> QED
      BY <3>1, <3>2, <3>3 DEF Listing, Orderly, n
  <2>3. CASE j <= m /\ k > m
    <3>1. j \in 1..m /\ k - m \in 1..n /\ k = m + (k - m)
      BY <1>3, <2>3
    <3>2. r[j] \in S /\ r[k] \in T
      BY <1>1, <1>2, <3>1 DEF Joined, Rng, m, n
    <3> QED
      BY <3>2
  <2> QED
    BY <1>3, <2>1, <2>2, <2>3
<1>7. Orderly(r)
  BY <1>3, <1>6 DEF Orderly
<1>8. Listing(r, S \cup T)
  BY <1>4, <1>5, <1>7 DEF Listing
<1> QED
  BY <1>8 DEF r

(* The shortest orders.                                                    *)
LEMMA ListingTuple ==
  /\ Listing(<<>>, {})
  /\ \A a : a \notin Needs(a) => Listing(<<a>>, {a})
<1>1. IsList(<<>>, 0) /\ \A a : IsList(<<a>>, 1)
  BY TupleList
<1>2. Len(<<>>) = 0 /\ Rng(<<>>) = {} /\ Orderly(<<>>)
  BY DEF Rng, Orderly
<1>3. \A a : Len(<<a>>) = 1 /\ Rng(<<a>>) = {a}
  BY DEF Rng
<1>4. \A a : a \notin Needs(a) => Orderly(<<a>>)
  BY DEF Orderly
<1> QED
  BY <1>1, <1>2, <1>3, <1>4 DEF Listing

-----------------------------------------------------------------------------
(* What needs what *)

(* Needs, kind by kind: what stands alone.                                 *)
LEMMA NeedsNothing ==
  ASSUME NEW k, NEW kind \in {"npu", "in", "out", "id", "mem", "pool", "sys", "lib",
                             "so", "qdrant", "face_server", "arcface", "ivps",
                             "plane", "buffer"}
  PROVE  Needs(<<kind, k>>) = {}
<1>1. CASE kind \in {"npu", "in", "out", "id", "mem"}
  BY <1>1 DEF Needs
<1>2. CASE kind \in {"pool", "sys", "lib", "so", "qdrant"}
  BY <1>2 DEF Needs
<1>3. CASE kind \in {"face_server", "arcface", "ivps", "plane", "buffer"}
  BY <1>3 DEF Needs
<1> QED
  BY <1>1, <1>2, <1>3

(* And what does not.                                                      *)
LEMMA NeedsSome ==
  ASSUME NEW k
  PROVE  /\ Needs(<<"processor", k>>) = {<<"lib", k>>}
         /\ Needs(<<"inited", k>>) = {<<"processor", k>>, <<"rule", k>>}
         /\ Needs(<<"plugin", k>>) = {<<"so", k>>}
         /\ Needs(<<"rule", k>>) = {<<"so", k>>}
         /\ Needs(<<"active", k>>) =
              {<<"plugin", k>>, One("push_pool"), One("qdrant"), One("face_server"),
               One("arcface")} \cup All("ivps")
         /\ Needs(<<"push_pool", k>>) =
              {One("qdrant"), One("face_server"), One("arcface")} \cup All("ivps")
         /\ Needs(<<"handle", k>>) = {One("npu")}
         /\ Needs(<<"run", k>>) = {One("grp")} \cup All("chn")
         /\ Needs(<<"chn", k>>) = {One("grp"), One("id")}
         /\ Needs(<<"grp", k>>) = {One("id"), One("pool"), One("mem")}
         /\ Needs(<<"vdec", k>>) = {One("sys")}
         /\ Needs(<<"venc", k>>) = {One("sys")}
         /\ Needs(<<"blk", k>>) = {One("pool")}
         /\ Needs(<<"vchn", k>>) = {One("grp")}
BY DEF Needs

(* The same, said of every resource of a kind; kinds do not meet.          *)
LEMMA Independent ==
  ASSUME NEW kind \in {"npu", "in", "out", "id", "mem", "pool", "sys", "lib",
                      "so", "qdrant", "face_server", "arcface", "ivps",
                      "plane", "buffer"}
  PROVE  Needs(One(kind)) = {} /\ \A y \in All(kind) : Needs(y) = {}
BY NeedsNothing DEF One, All

(* Those there is one of.                                                  *)
LEMMA NeedsOne ==
  /\ Needs(One("handle")) = {One("npu")}
  /\ Needs(One("run")) = {One("grp")} \cup All("chn")
  /\ Needs(One("grp")) = {One("id"), One("pool"), One("mem")}
  /\ Needs(One("chn")) = {One("grp"), One("id")}
  /\ Needs(One("vdec")) = {One("sys")} /\ Needs(One("venc")) = {One("sys")}
  /\ Needs(One("plugin")) = {One("so")}
BY NeedsSome DEF One

(* Resources of two kinds are not the same.                                *)
LEMMA KindsDiffer ==
  ASSUME NEW kind, NEW other, kind # other
  PROVE  /\ \A x \in All(kind), y \in All(other) : x # y
         /\ \A x \in All(kind) : x # One(other)
         /\ One(kind) # One(other)
BY DEF All, One

(* Those of a kind with a number below m, such as the channels taken so    *)
(* far.                                                                    *)
Below(kind, m) == {<<kind, k>> : k \in {j \in 1..N : j < m}}

(* The first, the next and the last of a kind.                             *)
LEMMA BelowFacts ==
  ASSUME NEW kind
  PROVE  /\ \A m \in Int : m <= 1 => Below(kind, m) = {}
         /\ \A m \in 1..N : Below(kind, m + 1) = Below(kind, m) \cup {<<kind, m>>}
         /\ \A m \in 1..N : <<kind, m>> \notin Below(kind, m)
         /\ \A m \in Int : m > N => Below(kind, m) = All(kind)
         /\ \A m : Below(kind, m) \subseteq All(kind)
<1>1. ASSUME NEW m \in 1..N PROVE Below(kind, m + 1) = Below(kind, m) \cup {<<kind, m>>}
  <2>1. {j \in 1..N : j < m + 1} = {j \in 1..N : j < m} \cup {m}
    BY AcquisitionAssumption
  <2> QED
    BY <2>1 DEF Below
<1>2. \A m \in Int : m > N => {j \in 1..N : j < m} = 1..N
  BY AcquisitionAssumption
<1>3. \A m \in Int : m <= 1 => {j \in 1..N : j < m} = {}
  BY AcquisitionAssumption
<1>4. \A m \in Int : /\ m > N => Below(kind, m) = All(kind)
                     /\ m <= 1 => Below(kind, m) = {}
  BY <1>2, <1>3 DEF Below, All
<1>5. \A m \in 1..N : <<kind, m>> \notin Below(kind, m)
  BY DEF Below
<1>6. \A m : Below(kind, m) \subseteq All(kind)
  BY DEF Below, All
<1> QED
  BY <1>1, <1>4, <1>5, <1>6

(* A kind released in ascending order.                                     *)
LEMMA ListingUpto ==
  ASSUME NEW kind \in {"in", "out", "chn", "plane"}, NEW m \in 0..N
  PROVE  Listing(Upto(kind, m), Below(kind, m + 1)) /\ Len(Upto(kind, m)) = m
<1> DEFINE q == Upto(kind, m)
<1>1. q = [k \in 1..m |-> q[k]] /\ \A k \in 1..m : q[k] = <<kind, k>>
  BY DEF Upto
<1>2. IsList(q, m) /\ Len(q) = m
  BY <1>1, ListFun, ListLen
<1>3. \A k \in 1..m, j \in 1..m : <<kind, k>> \notin Needs(<<kind, j>>)
  <2> SUFFICES ASSUME NEW k \in 1..m, NEW j \in 1..m
               PROVE  <<kind, k>> \notin Needs(<<kind, j>>)
    OBVIOUS
  <2>1. CASE kind = "chn"
    <3>1. Needs(<<kind, j>>) = {<<"grp", 1>>, <<"id", 1>>}
      BY <2>1, NeedsSome DEF One
    <3> QED
      BY <2>1, <3>1
  <2>2. CASE kind # "chn"
    BY <2>2, NeedsNothing
  <2> QED
    BY <2>1, <2>2
<1> HIDE DEF q
<1>4. Orderly(q)
  <2> SUFFICES ASSUME NEW j \in 1..m, NEW k \in 1..m
               PROVE  q[j] \notin Needs(q[k]) /\ (j < k => q[j] # q[k])
    BY <1>2 DEF Orderly
  <2>1. q[j] = <<kind, j>> /\ q[k] = <<kind, k>>
    BY <1>1
  <2> QED
    BY <1>3, <2>1
<1>5. {j \in 1..N : j < m + 1} = 1..m
  BY AcquisitionAssumption
<1>6. Rng(q) = Below(kind, m + 1)
  BY <1>1, <1>2, <1>5 DEF Rng, Below
<1>7. Listing(q, Below(kind, m + 1)) /\ Len(q) = m
  BY <1>2, <1>4, <1>6 DEF Listing
<1> QED
  BY <1>7 DEF q

-----------------------------------------------------------------------------
(* The invariant *)

When(b, r) == IF b THEN {r} ELSE {}

(* What is held and noted before call i of an Engine.                      *)
EngineAt(i, h, n) ==
  LET base == {One("npu"), One("handle")} IN
  \/ /\ i \in 1..5 /\ h = n
     /\ n = When(i > 1, One("npu")) \cup When(i > 3, One("handle"))
  \/ \E k \in 1..N : /\ i = 5 + k
                     /\ h = base \cup Below("in", k)
                     /\ n = base \cup (IF k = 1 THEN {} ELSE All("in"))
  \/ \E k \in 1..(N + 1) :
       /\ i = 5 + N + k
       /\ h = base \cup All("in") \cup Below("out", k)
       /\ n = base \cup All("in") \cup (IF k = 1 THEN {} ELSE All("out"))

(* IvpsHelper; Init again starts at the pool.                              *)
IvpsAt(i, h, n) ==
  \/ i = 1 /\ h = {} /\ n = {}
  \/ i = 2 /\ h = n /\ n \subseteq {One("id"), One("pool")}
  \/ i \in 3..(N + 3) /\ n \subseteq {One("id"), One("pool")} /\ h = n \cup {One("pool")}
  \/ i = N + 4 /\ h = n /\ n \subseteq {One("id"), One("pool")} /\ One("pool") \in n
  \/ i = N + 5 /\ n = {One("id"), One("pool")} /\ h = n \cup {One("grp")}
  \/ \E k \in 1..N, m \in {0, 1} :
       /\ i = N + 5 + 2 * (k - 1) + m + 1 /\ n = {One("id"), One("pool")}
       /\ h = n \cup {One("grp")} \cup Below("chn", k)
  \/ /\ i = 6 + 3 * N /\ n = {One("id"), One("pool")}
     /\ h = n \cup {One("grp")} \cup All("chn")
  \/ /\ i = 7 + 3 * N /\ h = n
     /\ n = {One("id"), One("pool"), One("grp"), One("run")} \cup All("chn")

(* VdecHelper and VencHelper: without an id nothing more is taken.         *)
VdecAt(i, h, n) ==
  \/ i \in {1, 2} /\ h = {} /\ n = {}
  \/ i = 2 /\ h = {One("id")} /\ n = {One("id"), One("grp")}
  \/ i = 3 /\ h = {One("id"), One("mem")} /\ n = {One("id"), One("grp"), One("mem")}
  \/ i \in 4..8 /\ h = n /\ n = {One("id"), One("grp"), One("mem")}
VencAt(i, h, n) ==
  \/ i \in {1, 2} /\ h = {} /\ n = {}
  \/ i = 2 /\ h = {One("id")} /\ n = {One("id"), One("chn")}
  \/ i = 3 /\ h = n /\ n = {One("id"), One("chn")}

(* Resource notes all three before it has one.                             *)
ResourceAt(i, h, n) ==
  /\ h = When(i > 1, One("sys")) \cup When(i > 2, One("vdec")) \cup When(i > 3, One("venc"))
  /\ n = IF i > 1 THEN {One("sys"), One("vdec"), One("venc")} ELSE {}

CloneAt(i, h, n) == h = n /\ n = Below("plane", i)
JpegAt(i, h, n)  == h = n /\ n = When(i > 1, One("buffer"))

(* The components of a library that are up: those of the set S.            *)
Up(so, obj, run, S) == {<<kind, k>> : kind \in {so, obj, run}, k \in S}
Lower(c) == {j \in 1..N : j < c}

(* HostServices' share of a BusProcess, in the order its calls make it.    *)
Services(i) ==
  When(i > 1, <<"ivps", 1>>) \cup When(i > 2, <<"ivps", 2>>) \cup When(i > 4, One("arcface"))
  \cup When(i > 5, One("qdrant")) \cup When(i > 7, One("face_server"))
  \cup When(i > 8, One("push_pool"))
AllServices == {<<"ivps", 1>>, <<"ivps", 2>>, One("arcface"), One("qdrant"),
                One("face_server"), One("push_pool")}
Processors(S) == Up("lib", "processor", "inited", S)
PluginParts == {One("so"), One("plugin"), One("active")}

(* BusProcess: the services, the chain's processors one after the other,   *)
(* the plugin.                                                             *)
BusAt(i, h, n) ==
  \/ i \in 1..11 /\ h = n /\ n = Services(i)
  \/ \E c \in 1..N, m \in 0..4 :
       /\ i = 11 + (5 * (c - 1) + (m + 1))
       /\ n = AllServices \cup Processors(Lower(c))
       /\ h = n \cup When(m > 0, <<"lib", c>>) \cup When(m > 2, <<"processor", c>>)
  \/ \E m \in 0..4 :
       /\ i = 11 + 5 * N + (m + 1)
       /\ n = AllServices \cup Processors(1..N)
       /\ h = n \cup When(m > 0, One("so")) \cup When(m > 2, One("plugin"))
  \/ /\ i = 17 + 5 * N /\ h = n
     /\ n = AllServices \cup Processors(1..N) \cup PluginParts

(* RuleEngine: of the rules before c some are loaded; call m + 1 of rule c *)
(* is next.                                                                *)
RulesAt(i, h, n) ==
  \E c \in 1..(N + 1), m \in 0..5 :
    /\ i = 6 * (c - 1) + m + 1
    /\ \E S \in SUBSET Lower(c) : n = Up("so", "rule", "inited", S)
    /\ h = n \cup When(m > 1, <<"so", c>>) \cup When(m > 3, <<"rule", c>>)

Inside(s, i, h, n) ==
  /\ s = "engine" => EngineAt(i, h, n)
  /\ s = "ivps" => IvpsAt(i, h, n)
  /\ s = "vdec" => VdecAt(i, h, n)
  /\ s = "venc" => VencAt(i, h, n)
  /\ s = "resource" => ResourceAt(i, h, n)
  /\ s = "bus" => BusAt(i, h, n)
  /\ s = "rules" => RulesAt(i, h, n)
  /\ s = "clone" => CloneAt(i, h, n)
  /\ s = "jpeg" => JpegAt(i, h, n)

(* The members record what is held, so that a clean-up can be trusted.     *)
Rest(s, h, n) == h \subseteq n /\ n \ h \subseteq Tolerated(s)
Over(s, h, n) == Rest(s, h, n) /\ (s \in DOMAIN RetryAt => Inside(s, RetryAt[s], h, n))

(* After the error path of call c: what the object then goes on with.      *)
After(s, c, h, n) ==
  /\ c.destroys => Rest(s, h, n)
  /\ ~c.destroys /\ c.goto = 0 => Over(s, h, n)
  /\ ~c.destroys /\ c.goto # 0 => c.goto \in 1..(Len(Calls[s]) + 1) /\ Inside(s, c.goto, h, n)

(* The releases u of an error path that is left with h held.               *)
Frees(u, h) ==
  /\ IsList(u, Len(u)) /\ Orderly(u)
  /\ \A x \in Rng(u) : x \notin h /\ \A r \in h : x \notin Needs(r)

SkipOK(s, c, i, h, n) ==
  c.once # {} /\ c.once \subseteq n => Inside(s, i + 1, h, n)
SucceedOK(s, c, i, h, n) ==
  (c.once = {} \/ ~(c.once \subseteq n)) /\ c.wants \subseteq n =>
    Inside(s, i + 1, h \cup c.begins \cup c.gets, n \cup c.before \cup c.notes)
FailOK(s, c, h, n) ==
  (c.once = {} \/ ~(c.once \subseteq n)) /\ c.fails =>
    \E rest \in SUBSET (h \cup c.begins) :
      /\ h \cup c.begins = rest \cup Rng(c.undo)
      /\ Frees(c.undo, rest)
      /\ After(s, c, rest, (n \cup c.before) \ c.forgets)
CallOK(s, c, i, h, n) ==
  SkipOK(s, c, i, h, n) /\ SucceedOK(s, c, i, h, n) /\ FailOK(s, c, h, n)

(* A call that is never skipped: U is what its error path releases.        *)
Works(s, c, i, h, n, U) ==
  /\ c.once = {} /\ c.forgets = {}
  /\ Listing(c.undo, U) /\ U \subseteq h \cup c.begins
  /\ \A x \in U, r \in (h \cup c.begins) \ U : x \notin Needs(r)
  /\ c.wants \subseteq n =>
       Inside(s, i + 1, h \cup c.begins \cup c.gets, n \cup c.before \cup c.notes)
  /\ c.fails => After(s, c, (h \cup c.begins) \ U, n \cup c.before)

(* What Works asks of a call is enough for it.                             *)
LEMMA CallRule ==
  ASSUME NEW s, NEW c, NEW i, NEW h, NEW n, NEW U, Works(s, c, i, h, n, U)
  PROVE  CallOK(s, c, i, h, n)
<1>1. SkipOK(s, c, i, h, n) /\ SucceedOK(s, c, i, h, n)
  BY DEF SkipOK, SucceedOK, Works
<1> DEFINE rest == (h \cup c.begins) \ U
<1>2. Frees(c.undo, rest) /\ rest \in SUBSET (h \cup c.begins)
  BY DEF Listing, Frees, Works
<1>3. h \cup c.begins = rest \cup Rng(c.undo)
  BY DEF Listing, Works
<1>4. (n \cup c.before) \ c.forgets = n \cup c.before
  BY DEF Works
<1>5. c.fails => After(s, c, rest, (n \cup c.before) \ c.forgets)
  BY <1>4 DEF Works
<1> HIDE DEF rest
<1>6. FailOK(s, c, h, n)
  BY <1>2, <1>3, <1>5 DEF FailOK
<1> QED
  BY <1>1, <1>6 DEF CallOK

(* Such a call that begins nothing: it takes gets and then notes, and      *)
(* releases undo, the set U, when it fails.                                *)
Entry(c, gets, notes, undo) ==
  /\ c.once = {} /\ c.begins = {} /\ c.before = {} /\ c.forgets = {}
  /\ c.gets = gets /\ c.notes = notes /\ c.undo = undo
Trying(c, gets, notes, undo) == Entry(c, gets, notes, undo) /\ ~c.destroys

Tries(s, c, i, h, n, gets, notes, undo, U) ==
  /\ Entry(c, gets, notes, undo) /\ Listing(undo, U) /\ U \subseteq h
  /\ \A x \in U, r \in h \ U : x \notin Needs(r)
  /\ c.wants \subseteq n => Inside(s, i + 1, h \cup gets, n \cup notes)
  /\ c.fails => After(s, c, h \ U, n)

(* So is what Tries asks.                                                  *)
LEMMA TryingRule ==
  ASSUME NEW s, NEW c, NEW i, NEW h, NEW n, NEW gets, NEW notes, NEW undo, NEW U,
         Tries(s, c, i, h, n, gets, notes, undo, U)
  PROVE  CallOK(s, c, i, h, n)
<1>1. /\ h \cup c.begins = h /\ n \cup c.before = n
      /\ c.gets = gets /\ c.notes = notes /\ c.undo = undo
  BY DEF Tries, Entry
<1>2. Works(s, c, i, h, n, U)
  BY <1>1 DEF Tries, Entry, Works
<1> QED
  BY <1>2, CallRule

(* A call that takes what it notes, and nothing if it fails.               *)
Simple(c) == /\ c.once = {} /\ c.begins = {} /\ c.before = {}
             /\ c.undo = <<>> /\ c.forgets = {} /\ c.gets = c.notes

(* And what is asked of a simple one.                                      *)
LEMMA SimpleCall ==
  ASSUME NEW s, NEW c, NEW i, NEW h, NEW n, Simple(c),
         Inside(s, i + 1, h \cup c.gets, n \cup c.gets),
         c.fails => After(s, c, h, n)
  PROVE  CallOK(s, c, i, h, n)
<1>1. /\ h \cup c.begins = h /\ n \cup c.before = n /\ h \ {} = h
      /\ c.once = {} /\ c.forgets = {} /\ c.notes = c.gets
  BY DEF Simple
<1>2. Listing(c.undo, {})
  BY ListingTuple DEF Simple
<1>3. Works(s, c, i, h, n, {})
  BY <1>1, <1>2 DEF Works
<1> QED
  BY <1>3, CallRule

(* The calls q take the set S, and note nothing else.                      *)
Owns(q, S) ==
  /\ Len(q) \in Nat
  /\ \A i \in 1..Len(q) : /\ q[i].begins \cup q[i].gets \subseteq S
                          /\ q[i].before \cup q[i].notes \subseteq S
  /\ \A r \in S : \E i \in 1..Len(q) : r \in q[i].begins \cup q[i].gets

(* The resources of a class are what its calls take.                       *)
LEMMA OwnsRule ==
  ASSUME NEW s, NEW S, Owns(Calls[s], S)
  PROVE  Resources(s) = S
BY DEF Resources, Owns

(* The tables, class by class.                                             *)
LEMMA CallsOf ==
  /\ Calls["engine"] = EngineInit /\ Calls["ivps"] = IvpsInit
  /\ Calls["vdec"] = VdecInit /\ Calls["venc"] = VencInit
  /\ Calls["resource"] = ResourceInit /\ Calls["bus"] = BusInit
  /\ Calls["rules"] = RulesLoad /\ Calls["clone"] = CloneInit
  /\ Calls["jpeg"] = JpegEncode
BY DEF Calls

(* The fields of the calls the tables are made of.                         *)
LEMMA TakingFields ==
  ASSUME NEW r
  PROVE  /\ Simple(Taking(r)) /\ Taking(r).gets = {r} /\ Taking(r).notes = {r}
         /\ Taking(r).begins = {} /\ Taking(r).before = {}
         /\ Taking(r).goto = 0 /\ ~Taking(r).destroys
BY DEF Simple, Taking, Plain

(* A call that takes nothing.                                              *)
LEMMA PlainFields ==
  /\ Simple(Plain) /\ Plain.gets = {} /\ Plain.notes = {}
  /\ Plain.begins = {} /\ Plain.before = {} /\ Plain.goto = 0 /\ ~Plain.destroys
BY DEF Simple, Plain

(* Calls whose failure runs the clean-up.                                  *)
LEMMA DestroyingFields ==
  ASSUME NEW r
  PROVE  /\ Simple(Destroying(Taking(r))) /\ Destroying(Taking(r)).gets = {r}
         /\ Destroying(Taking(r)).notes = {r} /\ Destroying(Taking(r)).begins = {}
         /\ Destroying(Taking(r)).before = {} /\ Destroying(Taking(r)).destroys
         /\ Simple(Destroying(Plain)) /\ Destroying(Plain).gets = {}
         /\ Destroying(Plain).notes = {} /\ Destroying(Plain).begins = {}
         /\ Destroying(Plain).before = {} /\ Destroying(Plain).destroys
BY DEF Simple, Destroying, Taking, Plain

(* Calls that cannot fail.                                                 *)
LEMMA MakingFields ==
  ASSUME NEW r
  PROVE  /\ Simple(Making(r)) /\ Making(r).gets = {r} /\ ~Making(r).fails
         /\ Making(r).begins = {} /\ Making(r).before = {} /\ Making(r).notes = {r}
         /\ Simple(Destroying(Making(r))) /\ Destroying(Making(r)).gets = {r}
         /\ Destroying(Making(r)).begins = {} /\ Destroying(Making(r)).before = {}
         /\ Destroying(Making(r)).notes = {r} /\ Destroying(Making(r)).destroys
BY DEF Simple, Making, Destroying, Taking, Plain

-----------------------------------------------------------------------------
(* Engine *)

(* The calls of Engine::Init, by number.                                   *)
LEMMA EngineTable ==
  /\ IsList(EngineInit, 5 + N + N)
  /\ EngineInit[1] = Taking(One("npu")) /\ EngineInit[2] = Destroying(Plain)
  /\ EngineInit[3] = Destroying(Taking(One("handle")))
  /\ EngineInit[4] = Destroying(Plain) /\ EngineInit[5] = Destroying(Plain)
  /\ \A k \in 1..N : /\ EngineInit[5 + k] = IoCall("in", k)
                     /\ EngineInit[5 + N + k] = IoCall("out", k)
<1> DEFINE a == <<Taking(One("npu")), Destroying(Plain), Destroying(Taking(One("handle"))),
                  Destroying(Plain), Destroying(Plain)>>
           b == [i \in 1..N |-> IoCall("in", i)]
           c == [i \in 1..N |-> IoCall("out", i)]
<1>1. IsList(a, 5) /\ IsList(b, N) /\ IsList(c, N)
  BY TupleList, ListFun, AcquisitionAssumption
<1>2. EngineInit = (a \o b) \o c
  BY DEF EngineInit
<1>3. /\ a[1] = Taking(One("npu")) /\ a[2] = Destroying(Plain)
      /\ a[3] = Destroying(Taking(One("handle")))
      /\ a[4] = Destroying(Plain) /\ a[5] = Destroying(Plain)
      /\ \A k \in 1..N : b[k] = IoCall("in", k) /\ c[k] = IoCall("out", k)
  OBVIOUS
<1> HIDE DEF a, b, c
<1>4. Joined(a \o b, a, b, 5, N)
  BY <1>1, ListConcat
<1> DEFINE ab == a \o b
<1>5. IsList(ab, 5 + N)
  BY <1>4 DEF Joined
<1>8. Joined(EngineInit, ab, c, 5 + N, N)
  BY <1>1, <1>2, <1>5, ListConcat
<1>9. Joined(ab, a, b, 5, N)
  BY <1>4
<1> HIDE DEF ab
<1>6. \A k \in 1..5 : k \in 1..(5 + N) /\ EngineInit[k] = a[k]
  <2>1. \A k \in 1..5 : k \in 1..(5 + N)
    BY AcquisitionAssumption
  <2> QED
    BY <1>9, <1>8, <2>1 DEF Joined
<1>7. \A k \in 1..N : EngineInit[5 + k] = b[k]
  <2>1. \A k \in 1..N : 5 + k \in 1..(5 + N)
    BY AcquisitionAssumption
  <2> QED
    BY <1>9, <1>8, <2>1 DEF Joined
<1> QED
  BY <1>3, <1>8, <1>6, <1>7 DEF Joined

EngineOwned == {One("npu"), One("handle")} \cup All("in") \cup All("out")

(* Engine releases the buffers, the handle, the runtime.                   *)
LEMMA EngineReleases == Listing(EngineDestroy, EngineOwned)
<1>1. Listing(Upto("in", N), All("in")) /\ Listing(Upto("out", N), All("out"))
  BY ListingUpto, BelowFacts, AcquisitionAssumption
<1> DEFINE w == <<One("handle"), One("npu")>>
<1>2. Listing(w, {One("handle"), One("npu")})
  <2>1. IsList(w, 2) /\ Len(w) = 2 /\ Rng(w) = {One("handle"), One("npu")}
    BY TupleList DEF Rng
  <2>2. Orderly(w)
    <3>1. Needs(w[1]) = {One("npu")} /\ Needs(w[2]) = {} /\ One("npu") # One("handle")
      BY NeedsSome, Independent, KindsDiffer DEF One
    <3> QED
      BY <2>1, <3>1 DEF Orderly
  <2> QED
    BY <2>1, <2>2 DEF Listing
<1>3. \A x \in All("in"), y \in All("out") : x # y /\ x \notin Needs(y)
  BY Independent, KindsDiffer
<1>4. \A x \in All("in") \cup All("out"), y \in {One("handle"), One("npu")} :
        x # y /\ x \notin Needs(y)
  <2>1. Needs(One("npu")) = {} /\ Needs(One("handle")) = {One("npu")}
    BY Independent, NeedsOne
  <2>2. \A x \in All("in") \cup All("out") : x # One("npu") /\ x # One("handle")
    BY KindsDiffer
  <2> QED
    BY <2>1, <2>2
<1> HIDE DEF w
<1>5. Listing(Upto("in", N) \o Upto("out", N), All("in") \cup All("out"))
  BY <1>1, <1>3, ListingConcat
<1>6. Listing((Upto("in", N) \o Upto("out", N)) \o w,
              (All("in") \cup All("out")) \cup {One("handle"), One("npu")})
  BY <1>2, <1>4, <1>5, ListingConcat
<1>7. /\ EngineDestroy = (Upto("in", N) \o Upto("out", N)) \o w
      /\ EngineOwned = (All("in") \cup All("out")) \cup {One("handle"), One("npu")}
  BY DEF EngineDestroy, EngineOwned, w
<1> QED
  BY <1>6, <1>7

(* The calls before the buffers.                                           *)
LEMMA EngineOpens ==
  ASSUME NEW i \in 1..5, NEW h, NEW n, h = n,
         n = When(i > 1, One("npu")) \cup When(i > 3, One("handle"))
  PROVE  CallOK("engine", EngineInit[i], i, h, n)
<1> DEFINE c == EngineInit[i]
<1>1. /\ \A r : Simple(Taking(r)) /\ Simple(Destroying(Taking(r)))
      /\ Simple(Destroying(Plain))
  BY DEF Simple, Taking, Destroying, Plain
<1>2. /\ \A r : /\ Taking(r).gets = {r} /\ Destroying(Taking(r)).gets = {r}
                /\ Destroying(Taking(r)).destroys
                /\ ~Taking(r).destroys /\ Taking(r).goto = 0
      /\ Destroying(Plain).gets = {} /\ Destroying(Plain).destroys
  BY DEF Taking, Destroying, Plain
<1>3. Rest("engine", h, n)
  BY DEF Rest
<1>4. CASE i = 1
  <2>1. c = Taking(One("npu")) /\ h = {} /\ n = {}
    BY <1>4, EngineTable DEF When
  <2>2. EngineAt(1, h, n) /\ EngineAt(i + 1, h \cup {One("npu")}, n \cup {One("npu")})
    BY <1>4, <2>1 DEF EngineAt, When
  <2>3. After("engine", c, h, n)
    BY <1>2, <1>3, <2>1, <2>2 DEF After, Over, Inside, RetryAt
  <2>4. Simple(c) /\ Inside("engine", i + 1, h \cup c.gets, n \cup c.gets)
    BY <1>1, <1>2, <2>1, <2>2 DEF Inside
  <2> QED
    BY <2>3, <2>4, SimpleCall
<1>5. CASE i \in {2, 4}
  <2>1. c = Destroying(Plain)
    BY <1>5, EngineTable
  <2>2. EngineAt(i + 1, h \cup {}, n \cup {})
    BY <1>5 DEF EngineAt, When
  <2>3. After("engine", c, h, n)
    BY <1>2, <1>3, <2>1 DEF After
  <2>4. Simple(c) /\ Inside("engine", i + 1, h \cup c.gets, n \cup c.gets)
    BY <1>1, <1>2, <2>1, <2>2 DEF Inside
  <2> QED
    BY <2>3, <2>4, SimpleCall
<1>6. CASE i = 3
  <2>1. c = Destroying(Taking(One("handle")))
    BY <1>6, EngineTable
  <2>2. EngineAt(i + 1, h \cup {One("handle")}, n \cup {One("handle")})
    BY <1>6 DEF EngineAt, When
  <2>3. After("engine", c, h, n)
    BY <1>2, <1>3, <2>1 DEF After
  <2>4. Simple(c) /\ Inside("engine", i + 1, h \cup c.gets, n \cup c.gets)
    BY <1>1, <1>2, <2>1, <2>2 DEF Inside
  <2> QED
    BY <2>3, <2>4, SimpleCall
<1>7. CASE i = 5
  <2>1. c = Destroying(Plain)
    BY <1>7, EngineTable
  <2>2. EngineAt(i + 1, h \cup {}, n \cup {})
    <3>1. h = {One("npu"), One("handle")} /\ Below("in", 1) = {} /\ 1 \in 1..N
      BY <1>7, BelowFacts, AcquisitionAssumption DEF When
    <3>2. i + 1 = 5 + 1
      BY <1>7
    <3> QED
      BY <3>1, <3>2 DEF EngineAt
  <2>3. After("engine", c, h, n)
    BY <1>2, <1>3, <2>1 DEF After
  <2>4. Simple(c) /\ Inside("engine", i + 1, h \cup c.gets, n \cup c.gets)
    BY <1>1, <1>2, <2>1, <2>2 DEF Inside
  <2> QED
    BY <2>3, <2>4, SimpleCall
<1> QED
  BY <1>4, <1>5, <1>6, <1>7

(* A buffer that cannot be had: those there are go, and their record.      *)
LEMMA IoFields ==
  ASSUME NEW kind \in {"in", "out"}, NEW k
  PROVE  /\ IoCall(kind, k).once = {} /\ IoCall(kind, k).wants = {}
         /\ IoCall(kind, k).begins = {} /\ IoCall(kind, k).notes = {}
         /\ IoCall(kind, k).gets = {<<kind, k>>}
         /\ IoCall(kind, k).before = All(kind) /\ IoCall(kind, k).destroys
         /\ IoCall(kind, k).forgets = All("in") \cup All("out")
BY DEF IoCall, Destroying, Plain

(* What it releases before.                                                *)
LEMMA IoUndo ==
  ASSUME NEW k
  PROVE  /\ IoCall("in", k).undo = <<>> \o Upto("in", k - 1)
         /\ IoCall("out", k).undo = Upto("in", N) \o Upto("out", k - 1)
BY DEF IoCall, Destroying, Plain

(* PrepareIo, the k-th input buffer.                                       *)
LEMMA EngineInputs ==
  ASSUME NEW k \in 1..N, NEW h, NEW n,
         h = {One("npu"), One("handle")} \cup Below("in", k),
         n = {One("npu"), One("handle")} \cup (IF k = 1 THEN {} ELSE All("in"))
  PROVE  CallOK("engine", EngineInit[5 + k], 5 + k, h, n)
<1> DEFINE base == {One("npu"), One("handle")}
           c == EngineInit[5 + k]
           got == base \cup Below("in", k + 1)
           noted1 == base \cup All("in")
<1>1. /\ c.once = {} /\ c.wants = {} /\ c.begins = {} /\ c.gets = {<<"in", k>>}
      /\ c.before = All("in") /\ c.notes = {} /\ c.destroys
      /\ c.undo = <<>> \o Upto("in", k - 1)
      /\ c.forgets = All("in") \cup All("out")
  <2>1. c = IoCall("in", k)
    BY EngineTable
  <2> HIDE DEF c
  <2> QED
    BY <2>1, IoFields, IoUndo
<1> HIDE DEF c
<1>2. h \cup c.gets = got /\ n \cup c.before = noted1
  BY <1>1, BelowFacts
<1>3. EngineAt(5 + k + 1, got, noted1)
  <2>1. CASE k = N
    <3>1. /\ Below("in", N + 1) = All("in") /\ Below("out", 1) = {}
          /\ 5 + k + 1 = 5 + N + 1 /\ 1 \in 1..(N + 1)
      BY <2>1, BelowFacts, AcquisitionAssumption
    <3>2. got = base \cup All("in") \cup Below("out", 1)
      BY <2>1, <3>1
    <3> QED
      BY <3>1, <3>2 DEF EngineAt
  <2>2. CASE k # N
    <3>1. k + 1 \in 1..N /\ k + 1 # 1 /\ 5 + k + 1 = 5 + (k + 1)
      BY <2>2, AcquisitionAssumption
    <3> QED
      BY <3>1 DEF EngineAt
  <2> QED
    BY <2>1, <2>2
<1>4. SkipOK("engine", c, 5 + k, h, n) /\ SucceedOK("engine", c, 5 + k, h, n)
  BY <1>1, <1>2, <1>3 DEF SkipOK, SucceedOK, Inside
<1>5. Listing(c.undo, Below("in", k))
  <2>1. k - 1 \in 0..N /\ k - 1 + 1 = k
    BY AcquisitionAssumption
  <2>2. Listing(Upto("in", k - 1), Below("in", k))
    BY <2>1, ListingUpto
  <2>3. Listing(<<>> \o Upto("in", k - 1), {} \cup Below("in", k))
    BY <2>2, ListingTuple, ListingConcat
  <2> QED
    BY <1>1, <2>3
<1>6. FailOK("engine", c, h, n)
  <2>1. \A x \in Below("in", k) : x # One("npu") /\ x # One("handle")
    BY KindsDiffer, BelowFacts
  <2>2. Needs(One("npu")) = {} /\ Needs(One("handle")) = {One("npu")}
    BY Independent, NeedsOne
  <2>3. Frees(c.undo, base)
    BY <1>5, <2>1, <2>2 DEF Listing, Frees
  <2>4. (n \cup c.before) \ c.forgets = base
    <3>1. \A x \in All("in") \cup All("out") : x # One("npu") /\ x # One("handle")
      BY KindsDiffer
    <3> QED
      BY <1>1, <1>2, <3>1
  <2>5. After("engine", c, base, base)
    BY <1>1 DEF After, Rest
  <2>6. base \in SUBSET (h \cup c.begins) /\ h \cup c.begins = base \cup Rng(c.undo)
    BY <1>1, <1>5 DEF Listing
  <2> QED
    BY <2>3, <2>4, <2>5, <2>6 DEF FailOK
<1>7. CallOK("engine", c, 5 + k, h, n)
  BY <1>4, <1>6 DEF CallOK
<1> QED
  BY <1>7 DEF c

(* PrepareIo, the k-th output buffer.                                      *)
LEMMA EngineOutputs ==
  ASSUME NEW k \in 1..N, NEW h, NEW n,
         h = {One("npu"), One("handle")} \cup All("in") \cup Below("out", k),
         n = {One("npu"), One("handle")} \cup All("in")
             \cup (IF k = 1 THEN {} ELSE All("out"))
  PROVE  CallOK("engine", EngineInit[5 + N + k], 5 + N + k, h, n)
<1> DEFINE base == {One("npu"), One("handle")}
           c == EngineInit[5 + N + k]
           got == base \cup All("in") \cup Below("out", k + 1)
           noted1 == base \cup All("in") \cup All("out")
<1>1. /\ c.once = {} /\ c.wants = {} /\ c.begins = {} /\ c.gets = {<<"out", k>>}
      /\ c.before = All("out") /\ c.notes = {} /\ c.destroys
      /\ c.undo = Upto("in", N) \o Upto("out", k - 1)
      /\ c.forgets = All("in") \cup All("out")
  <2>1. c = IoCall("out", k)
    BY EngineTable
  <2> HIDE DEF c
  <2> QED
    BY <2>1, IoFields, IoUndo
<1> HIDE DEF c
<1>2. h \cup c.gets = got /\ n \cup c.before = noted1
  BY <1>1, BelowFacts
<1>3. EngineAt(5 + N + k + 1, got, noted1)
  <2>1. k + 1 \in 1..(N + 1) /\ k + 1 # 1 /\ 5 + N + k + 1 = 5 + N + (k + 1)
    BY AcquisitionAssumption
  <2> QED
    BY <2>1 DEF EngineAt
<1>4. SkipOK("engine", c, 5 + N + k, h, n) /\ SucceedOK("engine", c, 5 + N + k, h, n)
  BY <1>1, <1>2, <1>3 DEF SkipOK, SucceedOK, Inside
<1>5. Listing(c.undo, All("in") \cup Below("out", k))
  <2>1. k - 1 \in 0..N /\ k - 1 + 1 = k /\ N \in 0..N
    BY AcquisitionAssumption
  <2>2. Listing(Upto("in", N), All("in")) /\ Listing(Upto("out", k - 1), Below("out", k))
    BY <2>1, ListingUpto, BelowFacts, AcquisitionAssumption
  <2>3. \A x \in All("in"), y \in Below("out", k) : x # y /\ x \notin Needs(y)
    BY KindsDiffer, Independent, BelowFacts
  <2> QED
    BY <1>1, <2>2, <2>3, ListingConcat
<1>6. FailOK("engine", c, h, n)
  <2>1. \A x \in All("in") \cup Below("out", k) : x # One("npu") /\ x # One("handle")
    BY KindsDiffer, BelowFacts
  <2>2. Needs(One("npu")) = {} /\ Needs(One("handle")) = {One("npu")}
    BY Independent, NeedsOne
  <2>3. Frees(c.undo, base)
    BY <1>5, <2>1, <2>2 DEF Listing, Frees
  <2>4. (n \cup c.before) \ c.forgets = base
    <3>1. \A x \in All("in") \cup All("out") : x # One("npu") /\ x # One("handle")
      BY KindsDiffer
    <3> QED
      BY <1>1, <1>2, <3>1
  <2>5. After("engine", c, base, base)
    BY <1>1 DEF After, Rest
  <2>6. base \in SUBSET (h \cup c.begins) /\ h \cup c.begins = base \cup Rng(c.undo)
    BY <1>1, <1>5 DEF Listing
  <2> QED
    BY <2>3, <2>4, <2>5, <2>6 DEF FailOK
<1>7. CallOK("engine", c, 5 + N + k, h, n)
  BY <1>4, <1>6 DEF CallOK
<1> QED
  BY <1>7 DEF c

(* Every call of Engine::Init, succeeding or failing, keeps the records    *)
(* right.                                                                  *)
LEMMA EngineCalls ==
  ASSUME NEW i \in 1..(5 + N + N), NEW h, NEW n, EngineAt(i, h, n)
  PROVE  CallOK("engine", EngineInit[i], i, h, n)
<1>2. ASSUME NEW k \in 1..N, i = 5 + k,
             h = {One("npu"), One("handle")} \cup Below("in", k),
             n = {One("npu"), One("handle")} \cup (IF k = 1 THEN {} ELSE All("in"))
      PROVE  CallOK("engine", EngineInit[i], i, h, n)
  BY <1>2, EngineInputs
<1>3. ASSUME NEW k \in 1..(N + 1), i = 5 + N + k,
             h = {One("npu"), One("handle")} \cup All("in") \cup Below("out", k),
             n = {One("npu"), One("handle")} \cup All("in")
                 \cup (IF k = 1 THEN {} ELSE All("out"))
      PROVE  CallOK("engine", EngineInit[i], i, h, n)
  <2>1. k \in 1..N
    BY <1>3, AcquisitionAssumption
  <2> QED
    BY <1>3, <2>1, EngineOutputs
<1> QED
  BY <1>2, <1>3, EngineOpens DEF EngineAt

(* What they take and note.                                                *)
LEMMA EngineOwns == Owns(EngineInit, EngineOwned)
<1> DEFINE b == EngineInit
<1>1. Len(b) = 5 + N + N /\ 5 + N + N \in Nat
  BY EngineTable, ListLen, AcquisitionAssumption
<1>2. /\ b[1] = Taking(One("npu")) /\ b[3] = Destroying(Taking(One("handle")))
      /\ b[2] = Destroying(Plain) /\ b[4] = Destroying(Plain) /\ b[5] = Destroying(Plain)
      /\ \A k \in 1..N : b[5 + k] = IoCall("in", k) /\ b[5 + N + k] = IoCall("out", k)
  BY EngineTable
<1> HIDE DEF b
<1>3. ASSUME NEW i \in 1..5
      PROVE  /\ b[i].begins \cup b[i].gets \subseteq EngineOwned
             /\ b[i].before \cup b[i].notes \subseteq EngineOwned
  <2>1. b[i] \in {Taking(One("npu")), Destroying(Taking(One("handle"))), Destroying(Plain)}
    BY <1>2
  <2> QED
    BY <2>1, TakingFields, DestroyingFields DEF EngineOwned
<1>4. ASSUME NEW kind \in {"in", "out"}, NEW k \in 1..N, NEW c, c = IoCall(kind, k)
      PROVE  /\ c.begins \cup c.gets \subseteq EngineOwned
             /\ c.before \cup c.notes \subseteq EngineOwned
             /\ <<kind, k>> \in c.gets
  <2>1. /\ c.begins = {} /\ c.notes = {} /\ c.gets = {<<kind, k>>} /\ c.before = All(kind)
    BY <1>4, IoFields
  <2>2. <<kind, k>> \in All(kind) /\ All(kind) \subseteq EngineOwned
    BY DEF All, EngineOwned
  <2> QED
    BY <2>1, <2>2
<1>5. ASSUME NEW i \in 1..(5 + N + N)
      PROVE  /\ b[i].begins \cup b[i].gets \subseteq EngineOwned
             /\ b[i].before \cup b[i].notes \subseteq EngineOwned
  <2>1. CASE i <= 5
    <3>1. i \in 1..5
      BY <2>1
    <3> QED
      BY <1>3, <3>1
  <2>2. CASE i > 5 /\ i <= 5 + N
    <3>1. i - 5 \in 1..N /\ i = 5 + (i - 5)
      BY <2>2, AcquisitionAssumption
    <3>2. b[i] = IoCall("in", i - 5)
      BY <1>2, <3>1
    <3> QED
      BY <1>4, <3>1, <3>2
  <2>3. CASE i > 5 + N
    <3>1. i - (5 + N) \in 1..N /\ i = 5 + N + (i - (5 + N))
      BY <2>3, AcquisitionAssumption
    <3>2. b[i] = IoCall("out", i - (5 + N))
      BY <1>2, <3>1
    <3> QED
      BY <1>4, <3>1, <3>2
  <2> QED
    BY <2>1, <2>2, <2>3, AcquisitionAssumption
<1>6. ASSUME NEW r \in EngineOwned
      PROVE  \E i \in 1..(5 + N + N) : r \in b[i].begins \cup b[i].gets
  <2>1. 1 \in 1..(5 + N + N) /\ 3 \in 1..(5 + N + N)
    BY AcquisitionAssumption
  <2>2. One("npu") \in b[1].gets /\ One("handle") \in b[3].gets
    BY <1>2, TakingFields, DestroyingFields
  <2>3. ASSUME NEW k \in 1..N
        PROVE  /\ \E i \in 1..(5 + N + N) : <<"in", k>> \in b[i].gets
               /\ \E i \in 1..(5 + N + N) : <<"out", k>> \in b[i].gets
    <3>1. 5 + k \in 1..(5 + N + N) /\ 5 + N + k \in 1..(5 + N + N)
      BY AcquisitionAssumption
    <3>2. <<"in", k>> \in b[5 + k].gets /\ <<"out", k>> \in b[5 + N + k].gets
      BY <1>2, <1>4
    <3> QED
      BY <3>1, <3>2
  <2>4. \/ r = One("npu") \/ r = One("handle")
        \/ \E k \in 1..N : r = <<"in", k>> \/ r = <<"out", k>>
    BY DEF EngineOwned, All
  <2> QED
    BY <2>1, <2>2, <2>3, <2>4
<1>7. Owns(b, EngineOwned)
  BY <1>1, <1>5, <1>6 DEF Owns
<1> QED
  BY <1>7 DEF b

-----------------------------------------------------------------------------
(* JpegEncode *)

(* The calls of JpegEncode.                                                *)
LEMMA JpegTable ==
  /\ Len(JpegEncode) = 2
  /\ JpegEncode[1] = Taking(One("buffer")) /\ JpegEncode[2] = Destroying(Plain)
BY DEF JpegEncode

(* They keep the record of the output buffer.                              *)
LEMMA JpegCalls ==
  ASSUME NEW i \in 1..2, NEW h, NEW n, JpegAt(i, h, n)
  PROVE  CallOK("jpeg", JpegEncode[i], i, h, n)
<1> DEFINE c == JpegEncode[i]
<1>1. Simple(c) /\ c.gets = (IF i = 1 THEN {One("buffer")} ELSE {})
      /\ (c.destroys \/ c.goto = 0)
  <2>1. CASE i = 1
    BY <2>1, JpegTable, TakingFields
  <2>2. CASE i = 2
    BY <2>2, JpegTable, DestroyingFields
  <2> QED
    BY <2>1, <2>2
<1> HIDE DEF c
<1>2. After("jpeg", c, h, n)
  BY <1>1 DEF After, Over, Rest, JpegAt, RetryAt
<1>3. Inside("jpeg", i + 1, h \cup c.gets, n \cup c.gets)
  BY <1>1 DEF JpegAt, When, Inside
<1>4. CallOK("jpeg", c, i, h, n)
  BY <1>1, <1>2, <1>3, SimpleCall
<1> QED
  BY <1>4 DEF c

(* EXIT releases what they take.                                           *)
LEMMA JpegOwns ==
  Owns(JpegEncode, {One("buffer")}) /\ Listing(JpegExit, {One("buffer")})
<1>1. /\ JpegEncode[1].begins = {} /\ JpegEncode[1].gets = {One("buffer")}
      /\ JpegEncode[1].before = {} /\ JpegEncode[1].notes = {One("buffer")}
      /\ JpegEncode[2].begins = {} /\ JpegEncode[2].gets = {}
      /\ JpegEncode[2].before = {} /\ JpegEncode[2].notes = {}
  BY JpegTable, TakingFields, DestroyingFields
<1>2. Owns(JpegEncode, {One("buffer")})
  <2>1. Len(JpegEncode) = 2 /\ 1 \in 1..2 /\ \A i \in 1..2 : i = 1 \/ i = 2
    BY JpegTable
  <2> QED
    BY <1>1, <2>1 DEF Owns
<1>3. Listing(JpegExit, {One("buffer")})
  BY ListingTuple, Independent DEF JpegExit
<1> QED
  BY <1>2, <1>3

-----------------------------------------------------------------------------
(* Clone *)

(* The calls of Clone: a plane each.                                       *)
LEMMA CloneTable ==
  Len(CloneInit) = N /\ \A i \in 1..N : CloneInit[i] = Taking(<<"plane", i>>)
<1>1. CloneInit = [i \in 1..N |-> CloneInit[i]]
  BY DEF CloneInit
<1> QED
  BY <1>1, ListFun, ListLen, AcquisitionAssumption DEF CloneInit

(* They keep the record of the planes.                                     *)
LEMMA CloneCalls ==
  ASSUME NEW i \in 1..N, NEW h, NEW n, CloneAt(i, h, n)
  PROVE  CallOK("clone", CloneInit[i], i, h, n)
<1> DEFINE c == CloneInit[i]  r == <<"plane", i>>
<1>1. Simple(c) /\ c.gets = {r} /\ c.goto = 0 /\ ~c.destroys
  BY CloneTable, TakingFields
<1>2. After("clone", c, h, n)
  BY <1>1 DEF After, Over, Rest, CloneAt, RetryAt
<1>3. CloneAt(i + 1, h \cup c.gets, n \cup c.gets)
  BY <1>1, BelowFacts DEF CloneAt
<1> QED
  BY <1>1, <1>2, <1>3, SimpleCall DEF Inside

(* ~FrameData releases what they take.                                     *)
LEMMA CloneOwns == Owns(CloneInit, All("plane")) /\ Listing(FrameDestroy, All("plane"))
<1>1. \A i \in 1..N : /\ CloneInit[i].begins = {} /\ CloneInit[i].gets = {<<"plane", i>>}
                      /\ CloneInit[i].before = {} /\ CloneInit[i].notes = {<<"plane", i>>}
  BY CloneTable, TakingFields
<1>2. Owns(CloneInit, All("plane"))
  BY <1>1, CloneTable, AcquisitionAssumption DEF All, Owns
<1>3. Listing(FrameDestroy, All("plane"))
  BY ListingUpto, BelowFacts, AcquisitionAssumption DEF FrameDestroy
<1> QED
  BY <1>2, <1>3

-----------------------------------------------------------------------------
(* Resource *)

(* The calls of Resource::Init.                                            *)
LEMMA ResourceTable ==
  /\ Len(ResourceInit) = 3
  /\ ResourceInit[1] =
       [Plain EXCEPT !.gets = {One("sys")}, !.before = {One("sys"), One("vdec"), One("venc")}]
  /\ Trying(ResourceInit[2], {One("vdec")}, {}, <<One("sys")>>) /\ ResourceInit[2].goto = 0
  /\ Trying(ResourceInit[3], {One("venc")}, {}, <<One("vdec"), One("sys")>>)
  /\ ResourceInit[3].goto = 0
BY DEF ResourceInit, Plain, Trying, Entry

(* What its error paths and Release release.                               *)
LEMMA ResourceLists ==
  /\ Listing(<<One("sys")>>, {One("sys")})
  /\ Listing(<<One("vdec"), One("sys")>>, {One("vdec"), One("sys")})
  /\ Listing(ResourceRelease, {One("sys"), One("vdec"), One("venc")})
<1>1. /\ Needs(One("sys")) = {} /\ Needs(One("vdec")) = {One("sys")}
      /\ Needs(One("venc")) = {One("sys")}
      /\ One("sys") # One("vdec") /\ One("sys") # One("venc") /\ One("vdec") # One("venc")
  BY NeedsOne, Independent, KindsDiffer
<1>2. Listing(<<One("sys")>>, {One("sys")})
  BY <1>1, ListingTuple
<1>3. Listing(<<One("vdec"), One("sys")>>, {One("vdec"), One("sys")})
  BY <1>1, TupleList DEF Listing, Orderly, Rng
<1>4. Listing(ResourceRelease, {One("sys"), One("vdec"), One("venc")})
  BY <1>1, TupleList DEF Listing, Orderly, Rng, ResourceRelease
<1> QED
  BY <1>2, <1>3, <1>4

(* They keep what is held within what Release tries.                       *)
LEMMA ResourceCalls ==
  ASSUME NEW i \in 1..3, NEW h, NEW n, ResourceAt(i, h, n)
  PROVE  CallOK("resource", ResourceInit[i], i, h, n)
<1> DEFINE c == ResourceInit[i]
           all == {One("sys"), One("vdec"), One("venc")}
<1>1. \A a : a.goto = 0 => After("resource", a, {}, all) \/ a.destroys
  BY DEF After, Over, Rest, Tolerated, Blind, RetryAt
<1>2. CASE i = 1
  <2>1. /\ c.once = {} /\ c.begins = {} /\ c.notes = {} /\ c.undo = <<>>
        /\ c.forgets = {} /\ ~c.destroys /\ c.goto = 0
        /\ c.gets = {One("sys")} /\ c.before = all
    BY <1>2, ResourceTable DEF Plain
  <2> HIDE DEF c
  <2>2. h = {} /\ n = {} /\ h \cup c.begins = {} /\ n \cup c.before = all
    BY <1>2, <2>1 DEF ResourceAt, When
  <2>3. Inside("resource", i + 1, h \cup c.begins \cup c.gets, n \cup c.before \cup c.notes)
    BY <1>2, <2>1, <2>2 DEF Inside, ResourceAt, When
  <2>4. Works("resource", c, i, h, n, {})
    BY <1>1, <2>1, <2>2, <2>3, ListingTuple DEF Works
  <2> QED
    BY <2>4, CallRule DEF c
<1>3. CASE i = 2
  <2>1. h = {One("sys")} /\ n = all /\ n \cup {} = n /\ h \ {One("sys")} = {}
    BY <1>3 DEF ResourceAt, When
  <2>2. Inside("resource", i + 1, h \cup {One("vdec")}, n \cup {})
    BY <1>3, <2>1 DEF Inside, ResourceAt, When
  <2>3. Trying(c, {One("vdec")}, {}, <<One("sys")>>) /\ c.goto = 0
    BY <1>3, ResourceTable
  <2> HIDE DEF c
  <2>4. Tries("resource", c, i, h, n, {One("vdec")}, {}, <<One("sys")>>, {One("sys")})
    BY <1>1, <2>1, <2>2, <2>3, ResourceLists DEF Tries, Trying, Entry
  <2> QED
    BY <2>4, TryingRule DEF c
<1>4. CASE i = 3
  <2>1. /\ h = {One("vdec"), One("sys")} /\ n = all /\ n \cup {} = n
        /\ h \ {One("vdec"), One("sys")} = {}
    BY <1>4 DEF ResourceAt, When
  <2>2. Inside("resource", i + 1, h \cup {One("venc")}, n \cup {})
    BY <1>4, <2>1 DEF Inside, ResourceAt, When
  <2>3. Trying(c, {One("venc")}, {}, <<One("vdec"), One("sys")>>) /\ c.goto = 0
    BY <1>4, ResourceTable
  <2> HIDE DEF c
  <2>4. Tries("resource", c, i, h, n, {One("venc")}, {},
              <<One("vdec"), One("sys")>>, {One("vdec"), One("sys")})
    BY <1>1, <2>1, <2>2, <2>3, ResourceLists DEF Tries, Trying, Entry
  <2> QED
    BY <2>4, TryingRule DEF c
<1> QED
  BY <1>2, <1>3, <1>4

(* Release gives back what they take.                                      *)
LEMMA ResourceOwns ==
  /\ Owns(ResourceInit, {One("sys"), One("vdec"), One("venc")})
  /\ Listing(ResourceRelease, {One("sys"), One("vdec"), One("venc")})
<1> DEFINE q == ResourceInit
<1>1. /\ Len(q) = 3 /\ 1 \in 1..3 /\ 2 \in 1..3 /\ 3 \in 1..3
      /\ \A i \in 1..3 : i = 1 \/ i = 2 \/ i = 3
  BY ResourceTable
<1>2. /\ q[1].begins = {} /\ q[2].begins = {} /\ q[3].begins = {}
      /\ q[1].gets = {One("sys")} /\ q[2].gets = {One("vdec")} /\ q[3].gets = {One("venc")}
  BY ResourceTable DEF Plain, Trying, Entry
<1>3. /\ q[1].before = {One("sys"), One("vdec"), One("venc")}
      /\ q[2].before = {} /\ q[3].before = {}
      /\ q[1].notes = {} /\ q[2].notes = {} /\ q[3].notes = {}
  BY ResourceTable DEF Plain, Trying, Entry
<1> HIDE DEF q
<1>5. Owns(q, {One("sys"), One("vdec"), One("venc")})
  BY <1>1, <1>2, <1>3 DEF Owns
<1> QED
  BY <1>5, ResourceLists DEF q

-----------------------------------------------------------------------------
(* VdecHelper *)

(* The calls of VdecHelper::Init.                                          *)
LEMMA VdecTable ==
  /\ Len(VdecInit) = 7
  /\ Trying(VdecInit[1], {One("id")}, {One("id"), One("grp")}, <<>>) /\ VdecInit[1].goto = 2
  /\ Trying(VdecInit[2], {One("mem")}, {One("mem")}, <<>>) /\ VdecInit[2].goto = 0
  /\ VdecInit[2].wants = {One("id")}
  /\ Trying(VdecInit[3], {One("grp")}, {}, <<>>) /\ VdecInit[3].goto = 0
  /\ \A i \in 4..7 : Trying(VdecInit[i], {}, {}, <<>>) /\ VdecInit[i].goto = 0
<1> DEFINE q == VdecInit
<1>1. /\ Len(q) = 7 /\ q[1] = [Taking(One("id")) EXCEPT !.notes = {One("id"), One("grp")},
                                                        !.goto = 2]
      /\ q[2] = [Taking(One("mem")) EXCEPT !.wants = {One("id")}]
      /\ q[3] = [Plain EXCEPT !.gets = {One("grp")}]
      /\ q[4] = Plain /\ q[5] = [Plain EXCEPT !.strays = {One("vchn")}]
      /\ q[6] = Plain /\ q[7] = Plain
  BY DEF VdecInit
<1> HIDE DEF q
<1>2. /\ Trying(q[1], {One("id")}, {One("id"), One("grp")}, <<>>) /\ q[1].goto = 2
      /\ Trying(q[2], {One("mem")}, {One("mem")}, <<>>) /\ q[2].goto = 0
      /\ q[2].wants = {One("id")}
      /\ Trying(q[3], {One("grp")}, {}, <<>>) /\ q[3].goto = 0
  BY <1>1 DEF Plain, Taking, Trying, Entry
<1>3. /\ Trying(q[4], {}, {}, <<>>) /\ q[4].goto = 0
      /\ Trying(q[5], {}, {}, <<>>) /\ q[5].goto = 0
  BY <1>1 DEF Plain, Trying, Entry
<1>4. \A i \in 4..7 : i = 4 \/ i = 5 \/ i = 6 \/ i = 7
  OBVIOUS
<1>5. \A i \in 4..7 : Trying(q[i], {}, {}, <<>>) /\ q[i].goto = 0
  BY <1>1, <1>3, <1>4
<1> QED
  BY <1>1, <1>2, <1>5 DEF q

(* They keep its records, also without an id.                              *)
LEMMA VdecCalls ==
  ASSUME NEW i \in 1..7, NEW h, NEW n, VdecAt(i, h, n)
  PROVE  CallOK("vdec", VdecInit[i], i, h, n)
<1> DEFINE c == VdecInit[i]
<1>1. Rest("vdec", h, n) /\ h \ {} = h
  BY DEF VdecAt, Rest, Tolerated, Blind
<1>2. ~c.destroys /\ c.goto = 0 => After("vdec", c, h, n)
  BY <1>1 DEF After, Over, RetryAt
<1>3. CASE i = 1
  <2>1. VdecAt(2, h, n) /\ VdecAt(2, h \cup {One("id")}, n \cup {One("id"), One("grp")})
    BY <1>3 DEF VdecAt
  <2>2. Trying(c, {One("id")}, {One("id"), One("grp")}, <<>>) /\ c.goto = 2
    BY <1>3, VdecTable
  <2> HIDE DEF c
  <2>3. After("vdec", c, h, n)
    <3>1. Len(Calls["vdec"]) = 7 /\ c.goto = 2 /\ ~c.destroys
      BY <2>2, VdecTable, CallsOf DEF Trying
    <3>2. Inside("vdec", 2, h, n)
      BY <2>1 DEF Inside
    <3> QED
      BY <3>1, <3>2 DEF After
  <2>4. Tries("vdec", c, i, h, n, {One("id")}, {One("id"), One("grp")}, <<>>, {})
    BY <1>1, <1>3, <2>1, <2>2, <2>3, ListingTuple DEF Tries, Trying, Inside
  <2> QED
    BY <2>4, TryingRule DEF c
<1>4. CASE i = 2
  <2>1. {One("id")} \subseteq n => VdecAt(3, h \cup {One("mem")}, n \cup {One("mem")})
    BY <1>4 DEF VdecAt
  <2>2. /\ Trying(c, {One("mem")}, {One("mem")}, <<>>) /\ c.goto = 0
        /\ c.wants = {One("id")}
    BY <1>4, VdecTable
  <2> HIDE DEF c
  <2>3. Tries("vdec", c, i, h, n, {One("mem")}, {One("mem")}, <<>>, {})
    BY <1>1, <1>2, <1>4, <2>1, <2>2, ListingTuple DEF Tries, Inside, Trying, Entry, c
  <2> QED
    BY <2>3, TryingRule DEF c
<1>5. CASE i = 3
  <2>1. VdecAt(4, h \cup {One("grp")}, n \cup {})
    BY <1>5 DEF VdecAt
  <2>2. Trying(c, {One("grp")}, {}, <<>>) /\ c.goto = 0
    BY <1>5, VdecTable
  <2> HIDE DEF c
  <2>3. Tries("vdec", c, i, h, n, {One("grp")}, {}, <<>>, {})
    BY <1>1, <1>2, <1>5, <2>1, <2>2, ListingTuple DEF Tries, Inside, Trying, Entry, c
  <2> QED
    BY <2>3, TryingRule DEF c
<1>6. CASE i \in 4..7
  <2>1. VdecAt(i + 1, h \cup {}, n \cup {})
    BY <1>6 DEF VdecAt
  <2>2. Trying(c, {}, {}, <<>>) /\ c.goto = 0
    BY <1>6, VdecTable
  <2> HIDE DEF c
  <2>3. Tries("vdec", c, i, h, n, {}, {}, <<>>, {})
    BY <1>1, <1>2, <1>6, <2>1, <2>2, ListingTuple DEF Tries, Inside, Trying, Entry, c
  <2> QED
    BY <2>3, TryingRule DEF c
<1> QED
  BY <1>3, <1>4, <1>5, <1>6

(* Destory gives back what they take.                                      *)
LEMMA VdecOwns ==
  /\ Owns(VdecInit, {One("id"), One("mem"), One("grp")})
  /\ Listing(VdecDestroy, {One("id"), One("mem"), One("grp")})
<1> DEFINE q == VdecInit
<1>1. /\ Len(q) = 7 /\ 1 \in 1..7 /\ 2 \in 1..7 /\ 3 \in 1..7
      /\ \A i \in 1..7 : i = 1 \/ i = 2 \/ i = 3 \/ i \in 4..7
  BY VdecTable
<1>2. /\ q[1].begins = {} /\ q[2].begins = {} /\ q[3].begins = {}
      /\ q[1].gets = {One("id")} /\ q[2].gets = {One("mem")} /\ q[3].gets = {One("grp")}
      /\ \A i \in 4..7 : q[i].begins = {} /\ q[i].gets = {}
  BY VdecTable DEF Trying, Entry
<1>3. /\ q[1].before = {} /\ q[2].before = {} /\ q[3].before = {}
      /\ q[1].notes = {One("id"), One("grp")} /\ q[2].notes = {One("mem")}
      /\ q[3].notes = {} /\ \A i \in 4..7 : q[i].before = {} /\ q[i].notes = {}
  BY VdecTable DEF Trying, Entry
<1> HIDE DEF q
<1>5. Owns(q, {One("id"), One("mem"), One("grp")})
  BY <1>1, <1>2, <1>3 DEF Owns
<1>6. Listing(VdecDestroy, {One("id"), One("mem"), One("grp")})
  <2>1. /\ Needs(One("id")) = {} /\ Needs(One("mem")) = {}
        /\ Needs(One("grp")) = {One("id"), One("pool"), One("mem")}
        /\ One("id") # One("grp") /\ One("id") # One("mem") /\ One("mem") # One("grp")
        /\ One("grp") # One("pool")
    BY NeedsOne, Independent, KindsDiffer
  <2> QED
    BY <2>1, TupleList DEF Listing, Orderly, Rng, VdecDestroy
<1> QED
  BY <1>5, <1>6 DEF q

-----------------------------------------------------------------------------
(* VencHelper *)

(* The calls of VencHelper::Init.                                          *)
LEMMA VencTable ==
  /\ Len(VencInit) = 2
  /\ Trying(VencInit[1], {One("id")}, {One("id"), One("chn")}, <<>>) /\ VencInit[1].goto = 2
  /\ Trying(VencInit[2], {One("chn")}, {}, <<>>) /\ VencInit[2].goto = 0
  /\ VencInit[2].wants = {One("id")}
BY DEF VencInit, Plain, Taking, Trying, Entry

(* They keep its records, also without an id.                              *)
LEMMA VencCalls ==
  ASSUME NEW i \in 1..2, NEW h, NEW n, VencAt(i, h, n)
  PROVE  CallOK("venc", VencInit[i], i, h, n)
<1> DEFINE c == VencInit[i]
<1>1. Rest("venc", h, n) /\ h \ {} = h
  BY DEF VencAt, Rest, Tolerated, Blind
<1>2. ~c.destroys /\ c.goto = 0 => After("venc", c, h, n)
  BY <1>1 DEF After, Over, RetryAt
<1>3. CASE i = 1
  <2>1. VencAt(2, h, n) /\ VencAt(2, h \cup {One("id")}, n \cup {One("id"), One("chn")})
    BY <1>3 DEF VencAt
  <2>2. Trying(c, {One("id")}, {One("id"), One("chn")}, <<>>) /\ c.goto = 2
    BY <1>3, VencTable
  <2> HIDE DEF c
  <2>3. After("venc", c, h, n)
    BY <2>1, <2>2, VencTable, CallsOf DEF After, Inside, Trying, Entry
  <2>4. Tries("venc", c, i, h, n, {One("id")}, {One("id"), One("chn")}, <<>>, {})
    BY <1>1, <1>3, <2>1, <2>2, <2>3, ListingTuple DEF Tries, Trying, Inside
  <2> QED
    BY <2>4, TryingRule DEF c
<1>4. CASE i = 2
  <2>1. {One("id")} \subseteq n => VencAt(3, h \cup {One("chn")}, n \cup {})
    BY <1>4 DEF VencAt
  <2>2. /\ Trying(c, {One("chn")}, {}, <<>>) /\ c.goto = 0 /\ c.wants = {One("id")}
    BY <1>4, VencTable
  <2> HIDE DEF c
  <2>3. Tries("venc", c, i, h, n, {One("chn")}, {}, <<>>, {})
    BY <1>1, <1>2, <1>4, <2>1, <2>2, ListingTuple DEF Tries, Inside, Trying, Entry, c
  <2> QED
    BY <2>3, TryingRule DEF c
<1> QED
  BY <1>3, <1>4

(* Its destructor gives back what they take.                               *)
LEMMA VencOwns ==
  Owns(VencInit, {One("id"), One("chn")}) /\ Listing(VencDestroy, {One("id"), One("chn")})
<1> DEFINE q == VencInit
<1>1. Len(q) = 2 /\ 1 \in 1..2 /\ 2 \in 1..2 /\ \A i \in 1..2 : i = 1 \/ i = 2
  BY VencTable
<1>2. /\ q[1].begins = {} /\ q[2].begins = {}
      /\ q[1].gets = {One("id")} /\ q[2].gets = {One("chn")}
      /\ q[1].before = {} /\ q[2].before = {}
      /\ q[1].notes = {One("id"), One("chn")} /\ q[2].notes = {}
  BY VencTable DEF Trying, Entry
<1> HIDE DEF q
<1>3. Owns(q, {One("id"), One("chn")})
  BY <1>1, <1>2 DEF Owns
<1>4. Listing(VencDestroy, {One("id"), One("chn")})
  <2>1. /\ Needs(One("id")) = {} /\ Needs(One("chn")) = {One("grp"), One("id")}
        /\ One("id") # One("chn") /\ One("chn") # One("grp")
    BY NeedsOne, Independent, KindsDiffer
  <2> QED
    BY <2>1, TupleList DEF Listing, Orderly, Rng, VencDestroy
<1> QED
  BY <1>3, <1>4 DEF q

(* When Init is over.                                                      *)
LEMMA SmallEnds ==
  ASSUME NEW h, NEW n
  PROVE  /\ JpegAt(3, h, n) => Rest("jpeg", h, n)
         /\ CloneAt(N + 1, h, n) => Rest("clone", h, n)
         /\ ResourceAt(4, h, n) => Rest("resource", h, n)
         /\ VdecAt(8, h, n) => Rest("vdec", h, n)
         /\ VencAt(3, h, n) => Rest("venc", h, n)
         /\ EngineAt(6 + N + N, h, n) => Rest("engine", h, n)
         /\ IvpsAt(7 + 3 * N, h, n) => Rest("ivps", h, n)
<1>1. EngineAt(6 + N + N, h, n) => Rest("engine", h, n)
  <2>1. /\ \A k \in 1..N : 6 + N + N # 5 + k
        /\ \A k \in 1..(N + 1) : 6 + N + N = 5 + N + k => k = N + 1 /\ k # 1
        /\ 6 + N + N \notin 1..5
    BY AcquisitionAssumption
  <2>2. Below("out", N + 1) = All("out")
    BY BelowFacts, AcquisitionAssumption
  <2> QED
    BY <2>1, <2>2 DEF EngineAt, Rest
<1>2. IvpsAt(7 + 3 * N, h, n) => Rest("ivps", h, n)
  <2>1. /\ \A k \in 1..N, m \in {0, 1} : 7 + 3 * N # N + 5 + 2 * (k - 1) + m + 1
        /\ 7 + 3 * N # 6 + 3 * N /\ 7 + 3 * N \notin {1, 2, N + 4, N + 5}
        /\ 7 + 3 * N \notin 3..(N + 3)
    BY AcquisitionAssumption
  <2> QED
    BY <2>1 DEF IvpsAt, Rest
<1>3. /\ JpegAt(3, h, n) => Rest("jpeg", h, n)
      /\ CloneAt(N + 1, h, n) => Rest("clone", h, n)
  BY DEF JpegAt, CloneAt, Rest
<1>4. ResourceAt(4, h, n) => Rest("resource", h, n)
  BY DEF ResourceAt, When, Rest
<1>5. /\ VdecAt(8, h, n) => Rest("vdec", h, n)
      /\ VencAt(3, h, n) => Rest("venc", h, n)
  BY DEF VdecAt, VencAt, Rest
<1> QED
  BY <1>1, <1>2, <1>3, <1>4, <1>5

-----------------------------------------------------------------------------
(* Tables that say the same of every component: the place of entry m of    *)
(* component k.                                                            *)
LEMMA Place ==
  ASSUME NEW w \in {2, 3, 5, 6}, NEW k \in 1..N, NEW m \in 1..w
  PROVE  /\ w * (k - 1) + m \in 1..(w * N)
         /\ (w * (k - 1) + m - 1) \div w + 1 = k
         /\ ((w * (k - 1) + m - 1) % w) + 1 = m
<1>1. CASE w = 2
  BY <1>1, AcquisitionAssumption
<1>2. CASE w = 3
  BY <1>2, AcquisitionAssumption
<1>3. CASE w = 5
  BY <1>3, AcquisitionAssumption
<1>4. CASE w = 6
  BY <1>4, AcquisitionAssumption
<1> QED
  BY <1>1, <1>2, <1>3, <1>4

(* Every entry has such a place.                                           *)
LEMMA Placed ==
  ASSUME NEW w \in {2, 3, 5, 6}, NEW j \in 1..(w * N)
  PROVE  \E k \in 1..N, m \in 1..w : j = w * (k - 1) + m
<1>1. CASE w = 2
  <2>1. (j - 1) \div 2 + 1 \in 1..N /\ ((j - 1) % 2) + 1 \in 1..2
    BY <1>1, AcquisitionAssumption
  <2>2. j = 2 * (((j - 1) \div 2 + 1) - 1) + (((j - 1) % 2) + 1)
    BY <1>1, AcquisitionAssumption
  <2> QED
    BY <1>1, <2>1, <2>2
<1>2. CASE w = 3
  <2>1. (j - 1) \div 3 + 1 \in 1..N /\ ((j - 1) % 3) + 1 \in 1..3
    BY <1>2, AcquisitionAssumption
  <2>2. j = 3 * (((j - 1) \div 3 + 1) - 1) + (((j - 1) % 3) + 1)
    BY <1>2, AcquisitionAssumption
  <2> QED
    BY <1>2, <2>1, <2>2
<1>3. CASE w = 5
  <2>1. (j - 1) \div 5 + 1 \in 1..N /\ ((j - 1) % 5) + 1 \in 1..5
    BY <1>3, AcquisitionAssumption
  <2>2. j = 5 * (((j - 1) \div 5 + 1) - 1) + (((j - 1) % 5) + 1)
    BY <1>3, AcquisitionAssumption
  <2> QED
    BY <1>3, <2>1, <2>2
<1>4. CASE w = 6
  <2>1. (j - 1) \div 6 + 1 \in 1..N /\ ((j - 1) % 6) + 1 \in 1..6
    BY <1>4, AcquisitionAssumption
  <2>2. j = 6 * (((j - 1) \div 6 + 1) - 1) + (((j - 1) % 6) + 1)
    BY <1>4, AcquisitionAssumption
  <2> QED
    BY <1>4, <2>1, <2>2
<1> QED
  BY <1>1, <1>2, <1>3, <1>4

-----------------------------------------------------------------------------
(* IvpsHelper *)

(* The calls of CreatePool, by number.                                     *)
LEMMA PoolTable ==
  /\ IsList(IvpsPool, N + 2)
  /\ IvpsPool[1] = [Plain EXCEPT !.gets = {One("pool")}, !.once = {One("pool")}]
  /\ \A k \in 1..N : IvpsPool[1 + k] = GetBlock(k)
  /\ IvpsPool[N + 2] = [Plain EXCEPT !.returns = All("blk"), !.notes = {One("pool")},
                                     !.once = {One("pool")}, !.fails = FALSE]
<1> DEFINE a == <<[Plain EXCEPT !.gets = {One("pool")}, !.once = {One("pool")}]>>
           b == [i \in 1..N |-> GetBlock(i)]
           c == <<[Plain EXCEPT !.returns = All("blk"), !.notes = {One("pool")},
                                !.once = {One("pool")}, !.fails = FALSE]>>
<1>1. IsList(a, 1) /\ IsList(b, N) /\ IsList(c, 1)
  BY TupleList, ListFun, AcquisitionAssumption
<1>2. /\ a[1] = [Plain EXCEPT !.gets = {One("pool")}, !.once = {One("pool")}]
      /\ \A k \in 1..N : b[k] = GetBlock(k)
      /\ c[1] = [Plain EXCEPT !.returns = All("blk"), !.notes = {One("pool")},
                              !.once = {One("pool")}, !.fails = FALSE]
  OBVIOUS
<1>3. IvpsPool = (a \o b) \o c
  BY DEF IvpsPool
<1> HIDE DEF a, b, c
<1> DEFINE ab == a \o b
<1>4. Joined(ab, a, b, 1, N)
  BY <1>1, ListConcat
<1>5. IsList(ab, 1 + N)
  BY <1>4 DEF Joined
<1>6. Joined(IvpsPool, ab, c, 1 + N, 1)
  BY <1>1, <1>3, <1>5, ListConcat
<1> HIDE DEF ab
<1>7. /\ 1 \in 1..(1 + N) /\ \A k \in 1..N : 1 + k \in 1..(1 + N)
      /\ 1 + N + 1 = N + 2
  BY AcquisitionAssumption
<1>8. IvpsPool[1] = a[1] /\ \A k \in 1..N : IvpsPool[1 + k] = b[k]
  BY <1>4, <1>6, <1>7 DEF Joined
<1>9. IvpsPool[N + 2] = c[1] /\ IsList(IvpsPool, N + 2)
  BY <1>6, <1>7 DEF Joined
<1> QED
  BY <1>2, <1>8, <1>9

(* The calls of IvpsHelper, by number.                                     *)
LEMMA IvpsTable ==
  /\ IsList(IvpsInit, 6 + 3 * N)
  /\ IvpsInit[1] = [Taking(One("id")) EXCEPT !.goto = 2]
  /\ IvpsInit[2] = [Plain EXCEPT !.gets = {One("pool")}, !.once = {One("pool")}]
  /\ \A k \in 1..N : IvpsInit[2 + k] = GetBlock(k)
  /\ IvpsInit[N + 3] = [Plain EXCEPT !.returns = All("blk"), !.notes = {One("pool")},
                                     !.once = {One("pool")}, !.fails = FALSE]
  /\ IvpsInit[N + 4] = [Plain EXCEPT !.wants = {One("id")}, !.gets = {One("grp")}]
  /\ IvpsInit[N + 5] = [Plain EXCEPT !.undo = <<One("grp")>>]
  /\ \A k \in 1..N, m \in 1..2 : IvpsInit[N + 5 + (2 * (k - 1) + m)] = IvpsChn(k)[m]
  /\ IvpsInit[6 + 3 * N] =
       [Plain EXCEPT !.gets = {One("run")}, !.undo = Rollback(N),
                     !.notes = {One("grp"), One("run")} \cup All("chn")]
<1> DEFINE a == <<[Taking(One("id")) EXCEPT !.goto = 2]>>
           b == IvpsPool
           c == <<[Plain EXCEPT !.wants = {One("id")}, !.gets = {One("grp")}],
                  [Plain EXCEPT !.undo = <<One("grp")>>]>>
           d == Repeated(2, IvpsChn)
           e == <<[Plain EXCEPT !.gets = {One("run")}, !.undo = Rollback(N),
                                !.notes = {One("grp"), One("run")} \cup All("chn")]>>
<1>1. IsList(a, 1) /\ IsList(b, N + 2) /\ IsList(c, 2) /\ IsList(e, 1)
  BY TupleList, PoolTable
<1>2. /\ IsList(d, 2 * N)
      /\ \A k \in 1..N, m \in 1..2 : d[2 * (k - 1) + m] = IvpsChn(k)[m]
  <2>1. d = [k \in 1..(2 * N) |-> IvpsChn((k - 1) \div 2 + 1)[((k - 1) % 2) + 1]]
    BY DEF Repeated
  <2> HIDE DEF d
  <2>2. d = [k \in 1..(2 * N) |-> d[k]]
    BY <2>1
  <2>3. IsList(d, 2 * N)
    BY <2>2, ListFun, AcquisitionAssumption
  <2>4. ASSUME NEW k \in 1..N, NEW m \in 1..2 PROVE d[2 * (k - 1) + m] = IvpsChn(k)[m]
    <3>1. /\ 2 * (k - 1) + m \in 1..(2 * N)
          /\ (2 * (k - 1) + m - 1) \div 2 + 1 = k
          /\ ((2 * (k - 1) + m - 1) % 2) + 1 = m
      BY Place
    <3> QED
      BY <2>1, <3>1
  <2> QED
    BY <2>3, <2>4
<1>3. /\ a[1] = [Taking(One("id")) EXCEPT !.goto = 2]
      /\ c[1] = [Plain EXCEPT !.wants = {One("id")}, !.gets = {One("grp")}]
      /\ c[2] = [Plain EXCEPT !.undo = <<One("grp")>>]
      /\ e[1] = [Plain EXCEPT !.gets = {One("run")}, !.undo = Rollback(N),
                     !.notes = {One("grp"), One("run")} \cup All("chn")]
  OBVIOUS
<1>4. IvpsInit = (a \o b) \o ((c \o d) \o e)
  BY DEF IvpsInit, IvpsGrp
<1> HIDE DEF a, b, c, d, e
<1> DEFINE ab == a \o b  cd == c \o d  cde == cd \o e
           M == 1 + (N + 2)
<1>5. Joined(ab, a, b, 1, N + 2) /\ Joined(cd, c, d, 2, 2 * N)
  BY <1>1, <1>2, ListConcat
<1>6. IsList(ab, M) /\ IsList(cd, 2 + 2 * N)
  BY <1>5 DEF Joined
<1>7. Joined(cde, cd, e, 2 + 2 * N, 1)
  BY <1>1, <1>6, ListConcat
<1>8. IsList(cde, 2 + 2 * N + 1)
  BY <1>7 DEF Joined
<1>9. Joined(IvpsInit, ab, cde, M, 2 + 2 * N + 1)
  BY <1>4, <1>6, <1>8, ListConcat
<1> HIDE DEF ab, cd, cde, M
<1>17. M = N + 3
  BY AcquisitionAssumption DEF M
<1>10. \A j \in 1..(2 + 2 * N) : IvpsInit[M + j] = cd[j]
  <2>1. \A j \in 1..(2 + 2 * N) : j \in 1..(2 + 2 * N + 1)
    BY AcquisitionAssumption
  <2> QED
    BY <1>7, <1>9, <2>1 DEF Joined
<1>11. \A j \in 1..(N + 3) : IvpsInit[j] = ab[j]
  BY <1>9, <1>17 DEF Joined
<1>12. ab[1] = a[1] /\ \A j \in 1..(N + 2) : ab[1 + j] = b[j]
  BY <1>5 DEF Joined
<1>18. IvpsInit[1] = a[1]
  <2>1. 1 \in 1..(N + 3)
    BY AcquisitionAssumption
  <2> QED
    BY <1>11, <1>12, <2>1
<1>19. \A j \in 1..(N + 2) : IvpsInit[1 + j] = IvpsPool[j]
  <2>1. \A j \in 1..(N + 2) : 1 + j \in 1..(N + 3)
    BY AcquisitionAssumption
  <2> QED
    BY <1>11, <1>12, <2>1 DEF b
<1>20. /\ IvpsInit[2] = [Plain EXCEPT !.gets = {One("pool")}, !.once = {One("pool")}]
       /\ \A k \in 1..N : IvpsInit[2 + k] = GetBlock(k)
       /\ IvpsInit[N + 3] = [Plain EXCEPT !.returns = All("blk"), !.notes = {One("pool")},
                                          !.once = {One("pool")}, !.fails = FALSE]
  <2>1. /\ 1 \in 1..(N + 2) /\ 1 + 1 = 2
        /\ \A k \in 1..N : 1 + k \in 1..(N + 2) /\ 1 + (1 + k) = 2 + k
        /\ N + 2 \in 1..(N + 2) /\ 1 + (N + 2) = N + 3
    BY AcquisitionAssumption
  <2>2. IvpsInit[2] = IvpsPool[1]
    BY <1>19, <2>1
  <2>3. \A k \in 1..N : IvpsInit[2 + k] = IvpsPool[1 + k]
    BY <1>19, <2>1
  <2>4. IvpsInit[N + 3] = IvpsPool[N + 2]
    BY <1>19, <2>1
  <2> QED
    BY <2>2, <2>3, <2>4, PoolTable
<1>13. IvpsInit[N + 4] = c[1] /\ IvpsInit[N + 5] = c[2]
  <2>1. 1 \in 1..(2 + 2 * N) /\ 2 \in 1..(2 + 2 * N) /\ M + 1 = N + 4 /\ M + 2 = N + 5
    BY <1>17, AcquisitionAssumption
  <2>2. IvpsInit[M + 1] = cd[1] /\ IvpsInit[M + 2] = cd[2]
    BY <1>10, <2>1
  <2>3. cd[1] = c[1] /\ cd[2] = c[2]
    BY <1>5 DEF Joined
  <2> QED
    BY <2>1, <2>2, <2>3
<1>14. ASSUME NEW k \in 1..N, NEW m \in 1..2
       PROVE  IvpsInit[N + 5 + (2 * (k - 1) + m)] = IvpsChn(k)[m]
  <2> DEFINE j == 2 * (k - 1) + m
  <2>1. j \in 1..(2 * N) /\ 2 + j \in 1..(2 + 2 * N) /\ M + (2 + j) = N + 5 + j
    BY <1>17, AcquisitionAssumption
  <2>2. IvpsInit[M + (2 + j)] = cd[2 + j]
    BY <1>10, <2>1
  <2>3. cd[2 + j] = d[j]
    BY <1>5, <2>1 DEF Joined
  <2>4. d[j] = IvpsChn(k)[m]
    BY <1>2
  <2> QED
    BY <2>1, <2>2, <2>3, <2>4
<1>15. IvpsInit[6 + 3 * N] = e[1]
  <2>1. 2 + 2 * N + 1 \in 1..(2 + 2 * N + 1) /\ M + (2 + 2 * N + 1) = 6 + 3 * N
    BY <1>17, AcquisitionAssumption
  <2>2. IvpsInit[M + (2 + 2 * N + 1)] = cde[2 + 2 * N + 1]
    BY <1>9, <2>1 DEF Joined
  <2>3. cde[2 + 2 * N + 1] = e[1]
    BY <1>7 DEF Joined
  <2> QED
    BY <2>1, <2>2, <2>3
<1>16. IsList(IvpsInit, 6 + 3 * N)
  <2>1. M + (2 + 2 * N + 1) = 6 + 3 * N
    BY <1>17, AcquisitionAssumption
  <2> QED
    BY <1>9, <2>1 DEF Joined
<1> QED
  BY <1>3, <1>13, <1>14, <1>15, <1>16, <1>18, <1>20

(* What rollback releases.                                                 *)
LEMMA RollbackListing ==
  ASSUME NEW k \in 0..N
  PROVE  Listing(Rollback(k), Below("chn", k + 1) \cup {One("grp")})
<1>1. Listing(Upto("chn", k), Below("chn", k + 1))
  BY ListingUpto
<1>2. Needs(One("grp")) = {One("id"), One("pool"), One("mem")}
  BY NeedsOne
<1>3. \A x \in Below("chn", k + 1) :
        x # One("grp") /\ x # One("id") /\ x # One("pool") /\ x # One("mem")
  BY KindsDiffer, BelowFacts
<1>4. One("grp") # One("id") /\ One("grp") # One("pool") /\ One("grp") # One("mem")
  BY KindsDiffer
<1>5. Listing(<<One("grp")>>, {One("grp")})
  BY <1>2, <1>4, ListingTuple
<1>6. \A x \in Below("chn", k + 1), y \in {One("grp")} : x # y /\ x \notin Needs(y)
  BY <1>2, <1>3
<1> QED
  BY <1>1, <1>5, <1>6, ListingConcat DEF Rollback

(* CreatePool: the second Init finds the pool of the first.                *)
LEMMA IvpsPools ==
  ASSUME NEW i \in 2..(N + 3), NEW h, NEW n, IvpsAt(i, h, n)
  PROVE  CallOK("ivps", IvpsInit[i], i, h, n)
<1> DEFINE c == IvpsInit[i]
<1>1. \A m \in {0, 1}, k \in 1..N : i # N + 5 + 2 * (k - 1) + m + 1
  BY AcquisitionAssumption
<1>2. i # 1 /\ i # N + 4 /\ i # N + 5 /\ i # 6 + 3 * N /\ i # 7 + 3 * N
  BY AcquisitionAssumption
<1>3. n \subseteq {One("id"), One("pool")} /\ h = IF i = 2 THEN n ELSE n \cup {One("pool")}
  BY <1>1, <1>2 DEF IvpsAt
<1>4. IvpsAt(2, n, n)
  BY <1>3 DEF IvpsAt
<1>5. \A a : a.goto = 0 /\ ~a.destroys => After("ivps", a, n, n)
  BY <1>4 DEF After, Over, Rest, Inside, RetryAt
<1>6. CASE i = 2
  <2>1. /\ c.once = {One("pool")} /\ c.wants = {} /\ c.begins = {} /\ c.gets = {One("pool")}
        /\ c.before = {} /\ c.notes = {} /\ c.undo = <<>> /\ c.forgets = {}
        /\ c.goto = 0 /\ ~c.destroys
    BY <1>6, IvpsTable DEF Plain
  <2> HIDE DEF c
  <2>5. 3 \in 3..(N + 3) /\ i + 1 = 3
    BY <1>6, AcquisitionAssumption
  <2>2. SkipOK("ivps", c, i, h, n)
    <3>1. {One("pool")} \subseteq n => IvpsAt(3, h, n)
      <4>1. {One("pool")} \subseteq n => h = n \cup {One("pool")}
        BY <1>3, <1>6
      <4> QED
        BY <1>3, <2>5, <4>1 DEF IvpsAt
    <3> QED
      BY <2>5, <2>1, <3>1 DEF SkipOK, Inside
  <2>3. SucceedOK("ivps", c, i, h, n)
    <3>1. IvpsAt(3, h \cup {One("pool")}, n)
      BY <1>3, <1>6, <2>5 DEF IvpsAt
    <3> QED
      BY <2>5, <2>1, <3>1 DEF SucceedOK, Inside
  <2>4. FailOK("ivps", c, h, n)
    <3>1. Frees(c.undo, n) /\ Rng(c.undo) = {}
      BY <2>1, ListingTuple DEF Listing, Frees
    <3>2. After("ivps", c, n, (n \cup c.before) \ c.forgets)
      BY <1>5, <2>1
    <3> QED
      BY <1>3, <1>6, <2>1, <3>1, <3>2 DEF FailOK
  <2> QED
    BY <2>2, <2>3, <2>4 DEF CallOK, c
<1>7. CASE i \in 3..(N + 2)
  <2>1. /\ c.once = {One("pool")} /\ c.wants = {} /\ c.begins = {} /\ c.gets = {}
        /\ c.before = {} /\ c.notes = {} /\ c.undo = <<One("pool")>>
        /\ c.forgets = {} /\ c.goto = 0 /\ ~c.destroys
    <3>1. i - 2 \in 1..N /\ i = 2 + (i - 2)
      BY <1>7, AcquisitionAssumption
    <3>2. c = GetBlock(i - 2)
      BY <3>1, IvpsTable
    <3> HIDE DEF c
    <3> QED
      BY <3>2 DEF GetBlock, Plain
  <2> HIDE DEF c
  <2>5. i # 2 /\ i + 1 \in 3..(N + 3)
    BY <1>7, AcquisitionAssumption
  <2>6. IvpsAt(i + 1, h, n)
    BY <1>3, <2>5 DEF IvpsAt
  <2>2. SkipOK("ivps", c, i, h, n)
    BY <2>6 DEF SkipOK, Inside
  <2>3. SucceedOK("ivps", c, i, h, n)
    <3>1. h \cup {} \cup {} = h /\ n \cup {} \cup {} = n
      OBVIOUS
    <3> QED
      BY <2>1, <2>6, <3>1 DEF SucceedOK, Inside
  <2>4. FailOK("ivps", c, h, n)
    <3> SUFFICES ASSUME ~({One("pool")} \subseteq n) PROVE FailOK("ivps", c, h, n)
      BY <2>1 DEF FailOK
    <3>1. Needs(One("id")) = {} /\ Needs(One("pool")) = {}
      BY Independent
    <3>2. Frees(c.undo, n) /\ Rng(c.undo) = {One("pool")}
      BY <1>3, <2>1, <3>1, ListingTuple DEF Listing, Frees
    <3>3. After("ivps", c, n, (n \cup c.before) \ c.forgets)
      BY <1>5, <2>1
    <3> QED
      BY <1>3, <2>5, <2>1, <3>2, <3>3 DEF FailOK
  <2> QED
    BY <2>2, <2>3, <2>4 DEF CallOK, c
<1>8. CASE i = N + 3
  <2>1. /\ c.once = {One("pool")} /\ c.begins = {} /\ c.gets = {}
        /\ c.before = {} /\ c.notes = {One("pool")} /\ ~c.fails
    BY <1>8, IvpsTable DEF Plain
  <2> HIDE DEF c
  <2>5. i # 2 /\ i + 1 = N + 4
    BY <1>8, AcquisitionAssumption
  <2>2. SkipOK("ivps", c, i, h, n)
    <3>1. {One("pool")} \subseteq n => IvpsAt(i + 1, h, n)
      <4>1. {One("pool")} \subseteq n => h = n
        BY <1>3, <2>5
      <4> QED
        BY <1>3, <2>5, <4>1 DEF IvpsAt
    <3> QED
      BY <2>1, <3>1 DEF SkipOK, Inside
  <2>3. SucceedOK("ivps", c, i, h, n)
    <3>1. IvpsAt(i + 1, h, n \cup {One("pool")})
      BY <1>3, <2>5 DEF IvpsAt
    <3>2. h \cup {} \cup {} = h /\ n \cup {} \cup {One("pool")} = n \cup {One("pool")}
      OBVIOUS
    <3> QED
      BY <2>1, <3>1, <3>2 DEF SucceedOK, Inside
  <2>4. FailOK("ivps", c, h, n)
    BY <2>1 DEF FailOK
  <2> QED
    BY <2>2, <2>3, <2>4 DEF CallOK, c
<1>9. i = 2 \/ i \in 3..(N + 2) \/ i = N + 3
  BY AcquisitionAssumption
<1> QED
  BY <1>6, <1>7, <1>8, <1>9

(* The id, the group and its attributes.                                   *)
LEMMA IvpsOthers ==
  ASSUME NEW h, NEW n
  PROVE  /\ IvpsAt(1, h, n) => CallOK("ivps", IvpsInit[1], 1, h, n)
         /\ IvpsAt(N + 4, h, n) => CallOK("ivps", IvpsInit[N + 4], N + 4, h, n)
         /\ IvpsAt(N + 5, h, n) => CallOK("ivps", IvpsInit[N + 5], N + 5, h, n)
<1>1. /\ \A m \in {0, 1}, k \in 1..N : N + 5 + 2 * (k - 1) + m + 1 \notin {1, N + 4, N + 5}
      /\ 6 + 3 * N \notin {1, N + 4, N + 5} /\ 7 + 3 * N \notin {1, N + 4, N + 5}
      /\ 1 \notin 3..(N + 3) /\ N + 4 \notin 3..(N + 3) /\ N + 5 \notin 3..(N + 3)
      /\ 1 # N + 4 /\ 1 # N + 5 /\ N + 4 # N + 5 /\ 1 # 2 /\ 2 # N + 4 /\ 2 # N + 5
  BY AcquisitionAssumption
<1>2. ASSUME IvpsAt(1, h, n) PROVE CallOK("ivps", IvpsInit[1], 1, h, n)
  <2>1. h = {} /\ n = {}
    BY <1>1, <1>2 DEF IvpsAt
  <2>2. IvpsAt(2, h, n) /\ IvpsAt(2, h \cup {One("id")}, n \cup {One("id")})
    BY <2>1 DEF IvpsAt
  <2>3. Trying(IvpsInit[1], {One("id")}, {One("id")}, <<>>) /\ IvpsInit[1].goto = 2
    BY IvpsTable DEF Trying, Entry, Taking, Plain
  <2>4. After("ivps", IvpsInit[1], h, n)
    <3>1. Len(Calls["ivps"]) = 6 + 3 * N
      BY IvpsTable, CallsOf, ListLen
    <3>2. 2 \in 1..(6 + 3 * N + 1)
      BY AcquisitionAssumption
    <3> QED
      BY <2>2, <2>3, <3>1, <3>2 DEF After, Inside, Trying, Entry
  <2>5. Tries("ivps", IvpsInit[1], 1, h, n, {One("id")}, {One("id")}, <<>>, {})
    BY <2>1, <2>2, <2>3, <2>4, ListingTuple DEF Tries, Trying, Inside
  <2> QED
    BY <2>5, TryingRule
<1>3. ASSUME IvpsAt(N + 4, h, n) PROVE CallOK("ivps", IvpsInit[N + 4], N + 4, h, n)
  <2>1. h = n /\ n \subseteq {One("id"), One("pool")} /\ One("pool") \in n
    BY <1>1, <1>3 DEF IvpsAt
  <2>2. /\ Trying(IvpsInit[N + 4], {One("grp")}, {}, <<>>) /\ IvpsInit[N + 4].goto = 0
        /\ IvpsInit[N + 4].wants = {One("id")}
    BY IvpsTable DEF Trying, Entry, Plain
  <2>3. After("ivps", IvpsInit[N + 4], h, n)
    <3>1. IvpsAt(2, h, n)
      BY <2>1 DEF IvpsAt
    <3> QED
      BY <2>1, <2>2, <3>1 DEF After, Over, Rest, Inside, RetryAt, Trying, Entry
  <2>4. {One("id")} \subseteq n => IvpsAt(N + 5, h \cup {One("grp")}, n \cup {})
    BY <2>1 DEF IvpsAt
  <2>5. Tries("ivps", IvpsInit[N + 4], N + 4, h, n, {One("grp")}, {}, <<>>, {})
    <3>1. h \ {} = h /\ N + 4 + 1 = N + 5
      BY AcquisitionAssumption
    <3> QED
      BY <2>2, <2>3, <2>4, <3>1, ListingTuple DEF Tries, Trying, Inside
  <2> QED
    BY <2>5, TryingRule
<1>4. ASSUME IvpsAt(N + 5, h, n) PROVE CallOK("ivps", IvpsInit[N + 5], N + 5, h, n)
  <2>1. n = {One("id"), One("pool")} /\ h = n \cup {One("grp")}
    BY <1>1, <1>4 DEF IvpsAt
  <2>2. Trying(IvpsInit[N + 5], {}, {}, <<One("grp")>>) /\ IvpsInit[N + 5].goto = 0
    BY IvpsTable DEF Trying, Entry, Plain
  <2>3. One("grp") # One("id") /\ One("grp") # One("pool") /\ One("grp") # One("mem")
    BY KindsDiffer
  <2>4. After("ivps", IvpsInit[N + 5], h \ {One("grp")}, n)
    <3>1. h \ {One("grp")} = n /\ IvpsAt(2, n, n)
      BY <2>1, <2>3 DEF IvpsAt
    <3> QED
      BY <2>2, <3>1 DEF After, Over, Rest, Inside, RetryAt, Trying, Entry
  <2>5. IvpsAt(N + 6, h, n)
    <3>1. Below("chn", 1) = {} /\ 1 \in 1..N /\ N + 6 = N + 5 + 2 * (1 - 1) + 0 + 1
      BY BelowFacts, AcquisitionAssumption
    <3> QED
      BY <2>1, <3>1 DEF IvpsAt
  <2>6. Listing(<<One("grp")>>, {One("grp")})
    BY <2>3, NeedsOne, ListingTuple
  <2>7. Needs(One("id")) = {} /\ Needs(One("pool")) = {}
    BY Independent
  <2>8. Tries("ivps", IvpsInit[N + 5], N + 5, h, n, {}, {}, <<One("grp")>>, {One("grp")})
    <3>1. h \cup {} = h /\ n \cup {} = n /\ N + 5 + 1 = N + 6
      BY AcquisitionAssumption
    <3> QED
      BY <2>1, <2>2, <2>4, <2>5, <2>6, <2>7, <3>1 DEF Tries, Trying, Inside
  <2> QED
    BY <2>8, TryingRule
<1> QED
  BY <1>2, <1>3, <1>4

(* CreateGrp's calls for channel k, m = 0 the attributes, m = 1 enabling.  *)
LEMMA IvpsChannel ==
  ASSUME NEW k \in 1..N, NEW m \in {0, 1}, NEW h, NEW n,
         n = {One("id"), One("pool")}, h = n \cup {One("grp")} \cup Below("chn", k)
  PROVE  LET i == N + 5 + 2 * (k - 1) + m + 1 IN CallOK("ivps", IvpsInit[i], i, h, n)
<1> DEFINE i == N + 5 + 2 * (k - 1) + m + 1  c == IvpsInit[i]
           gets == IF m = 1 THEN {<<"chn", k>>} ELSE {}
           U == Below("chn", k) \cup {One("grp")}
<1>1. c = IvpsChn(k)[m + 1]
  <2>1. i = N + 5 + (2 * (k - 1) + (m + 1)) /\ m + 1 \in 1..2
    BY AcquisitionAssumption
  <2> QED
    BY <2>1, IvpsTable
<1>2. Trying(c, gets, {}, Rollback(k - 1)) /\ c.goto = 0
  <2>3. /\ Trying(IvpsChn(k)[1], {}, {}, Rollback(k - 1)) /\ IvpsChn(k)[1].goto = 0
        /\ Trying(IvpsChn(k)[2], {<<"chn", k>>}, {}, Rollback(k - 1))
        /\ IvpsChn(k)[2].goto = 0
    BY DEF IvpsChn, Trying, Entry, Plain
  <2>1. CASE m = 0
    BY <1>1, <2>1, <2>3
  <2>2. CASE m = 1
    <3>1. m + 1 = 2 /\ gets = {<<"chn", k>>}
      BY <2>2
    <3> QED
      BY <1>1, <2>3, <3>1
  <2> QED
    BY <2>1, <2>2
<1>3. Listing(Rollback(k - 1), U)
  <2>1. k - 1 \in 0..N /\ k - 1 + 1 = k
    BY AcquisitionAssumption
  <2> QED
    BY <2>1, RollbackListing
<1>4. h \ U = n
  <2>1. \A x \in Below("chn", k) : x # One("id") /\ x # One("pool")
    BY KindsDiffer, BelowFacts
  <2>2. One("grp") # One("id") /\ One("grp") # One("pool")
    BY KindsDiffer
  <2> QED
    BY <2>1, <2>2
<1>5. Needs(One("id")) = {} /\ Needs(One("pool")) = {}
  BY Independent
<1>6. After("ivps", c, n, n)
  <2>1. IvpsAt(2, n, n)
    BY DEF IvpsAt
  <2> QED
    BY <1>2, <2>1 DEF After, Over, Rest, Inside, RetryAt, Trying, Entry
<1>7. IvpsAt(i + 1, h \cup gets, n)
  <2>1. CASE m = 0
    <3>1. i + 1 = N + 5 + 2 * (k - 1) + 1 + 1 /\ 1 \in {0, 1}
      BY <2>1, AcquisitionAssumption
    <3>2. h \cup gets = h
      BY <2>1
    <3> QED
      BY <3>1, <3>2 DEF IvpsAt
  <2>2. CASE m = 1 /\ k = N
    <3>1. i + 1 = 6 + 3 * N
      BY <2>2, AcquisitionAssumption
    <3>2. Below("chn", k) \cup {<<"chn", k>>} = All("chn")
      <4>1. Below("chn", k + 1) = All("chn")
        BY <2>2, BelowFacts, AcquisitionAssumption
      <4> QED
        BY <4>1, BelowFacts
    <3>3. h \cup gets = n \cup {One("grp")} \cup All("chn")
      BY <2>2, <3>2
    <3> QED
      BY <3>1, <3>3 DEF IvpsAt
  <2>3. CASE m = 1 /\ k # N
    <3>1. i + 1 = N + 5 + 2 * ((k + 1) - 1) + 0 + 1 /\ k + 1 \in 1..N /\ 0 \in {0, 1}
      BY <2>3, AcquisitionAssumption
    <3>2. h \cup gets = n \cup {One("grp")} \cup Below("chn", k + 1)
      <4>1. Below("chn", k + 1) = Below("chn", k) \cup {<<"chn", k>>}
        BY BelowFacts
      <4> QED
        BY <2>3, <4>1
    <3> QED
      BY <3>1, <3>2 DEF IvpsAt
  <2> QED
    BY <2>1, <2>2, <2>3
<1> HIDE DEF i, c, gets, U
<1>8. Tries("ivps", c, i, h, n, gets, {}, Rollback(k - 1), U)
  <2>1. n \cup {} = n /\ U \subseteq h
    BY DEF U
  <2> QED
    BY <1>2, <1>3, <1>4, <1>5, <1>6, <1>7, <2>1 DEF Tries, Trying, Inside
<1> QED
  BY <1>8, TryingRule DEF c, i

(* Enabling the group.                                                     *)
LEMMA IvpsLast ==
  ASSUME NEW h, NEW n, n = {One("id"), One("pool")},
         h = n \cup {One("grp")} \cup All("chn")
  PROVE  CallOK("ivps", IvpsInit[6 + 3 * N], 6 + 3 * N, h, n)
<1> DEFINE i == 6 + 3 * N  c == IvpsInit[i]
           U == All("chn") \cup {One("grp")}
           notes == {One("grp"), One("run")} \cup All("chn")
<1>1. Trying(c, {One("run")}, notes, Rollback(N)) /\ c.goto = 0
  BY IvpsTable DEF Trying, Entry, Plain
<1>2. Listing(Rollback(N), U)
  <2>1. N \in 0..N /\ Below("chn", N + 1) = All("chn")
    BY BelowFacts, AcquisitionAssumption
  <2> QED
    BY <2>1, RollbackListing
<1>3. h \ U = n
  <2>1. \A x \in All("chn") : x # One("id") /\ x # One("pool")
    BY KindsDiffer
  <2>2. One("grp") # One("id") /\ One("grp") # One("pool")
    BY KindsDiffer
  <2> QED
    BY <2>1, <2>2
<1>4. Needs(One("id")) = {} /\ Needs(One("pool")) = {}
  BY Independent
<1>5. After("ivps", c, n, n)
  <2>1. IvpsAt(2, n, n)
    BY DEF IvpsAt
  <2> QED
    BY <1>1, <2>1 DEF After, Over, Rest, Inside, RetryAt, Trying, Entry
<1>6. IvpsAt(i + 1, h \cup {One("run")}, n \cup notes)
  <2>1. i + 1 = 7 + 3 * N
    BY AcquisitionAssumption
  <2>2. h \cup {One("run")} = n \cup notes
    OBVIOUS
  <2>3. n \cup notes = {One("id"), One("pool"), One("grp"), One("run")} \cup All("chn")
    OBVIOUS
  <2> QED
    BY <2>1, <2>2, <2>3 DEF IvpsAt
<1> HIDE DEF i, c, notes, U
<1>7. Tries("ivps", c, i, h, n, {One("run")}, notes, Rollback(N), U)
  <2>1. U \subseteq h
    BY DEF U
  <2> QED
    BY <1>1, <1>2, <1>3, <1>4, <1>5, <1>6, <2>1 DEF Tries, Trying, Inside
<1> QED
  BY <1>7, TryingRule DEF c, i

(* Every call keeps what IvpsHelper records right, in the first Init and   *)
(* the next.                                                               *)
LEMMA IvpsCalls ==
  ASSUME NEW i \in 1..(6 + 3 * N), NEW h, NEW n, IvpsAt(i, h, n)
  PROVE  CallOK("ivps", IvpsInit[i], i, h, n)
<1>1. CASE i \in 1..(N + 5)
  <2>1. i = 1 \/ i \in 2..(N + 3) \/ i = N + 4 \/ i = N + 5
    BY <1>1, AcquisitionAssumption
  <2> QED
    BY <2>1, IvpsPools, IvpsOthers
<1>2. ASSUME NEW k \in 1..N, NEW m \in {0, 1}, i = N + 5 + 2 * (k - 1) + m + 1,
             n = {One("id"), One("pool")}, h = n \cup {One("grp")} \cup Below("chn", k)
      PROVE  CallOK("ivps", IvpsInit[i], i, h, n)
  BY <1>2, IvpsChannel
<1>3. ASSUME i = 6 + 3 * N, n = {One("id"), One("pool")},
             h = n \cup {One("grp")} \cup All("chn")
      PROVE  CallOK("ivps", IvpsInit[i], i, h, n)
  BY <1>3, IvpsLast
<1>4. /\ i # 7 + 3 * N /\ 1 \in 1..(N + 5) /\ 2 \in 1..(N + 5) /\ N + 4 \in 1..(N + 5)
      /\ N + 5 \in 1..(N + 5) /\ \A j \in 3..(N + 3) : j \in 1..(N + 5)
  BY AcquisitionAssumption
<1> QED
  BY <1>1, <1>2, <1>3, <1>4 DEF IvpsAt

IvpsOwned == {One("id"), One("pool"), One("grp"), One("run")} \cup All("chn")

(* The destructor gives back what the calls take.                          *)
LEMMA IvpsOwns == Owns(IvpsInit, IvpsOwned) /\ Listing(IvpsDestroy, IvpsOwned)
<1> DEFINE q == IvpsInit
<1>1. Len(q) = 6 + 3 * N /\ 6 + 3 * N \in Nat
  BY IvpsTable, ListLen
<1>2. /\ q[1].begins = {} /\ q[1].gets = {One("id")} /\ q[1].before = {}
      /\ q[1].notes = {One("id")}
      /\ q[2].begins = {} /\ q[2].gets = {One("pool")} /\ q[2].before = {} /\ q[2].notes = {}
      /\ LET c == q[N + 3] IN
         c.begins = {} /\ c.gets = {} /\ c.before = {} /\ c.notes = {One("pool")}
  BY IvpsTable DEF Taking, Plain
<1>3. /\ LET c == q[N + 4] IN
         c.begins = {} /\ c.gets = {One("grp")} /\ c.before = {} /\ c.notes = {}
      /\ LET c == q[N + 5] IN
         c.begins = {} /\ c.gets = {} /\ c.before = {} /\ c.notes = {}
  BY IvpsTable DEF Plain
<1>10. ASSUME NEW k \in 1..N
       PROVE  LET c == q[2 + k] IN
              c.begins = {} /\ c.gets = {} /\ c.before = {} /\ c.notes = {}
  <2>1. q[2 + k] = GetBlock(k)
    BY IvpsTable
  <2> HIDE DEF q
  <2> QED
    BY <2>1 DEF GetBlock, Plain
<1>4. ASSUME NEW k \in 1..N, NEW m \in 1..2
      PROVE  LET c == q[N + 5 + (2 * (k - 1) + m)] IN
             /\ c.begins = {} /\ c.before = {} /\ c.notes = {}
             /\ c.gets = IF m = 2 THEN {<<"chn", k>>} ELSE {}
  <2>1. q[N + 5 + (2 * (k - 1) + m)] = IvpsChn(k)[m]
    BY IvpsTable
  <2>2. m = 1 \/ m = 2
    OBVIOUS
  <2>3. /\ IvpsChn(k)[1].begins = {} /\ IvpsChn(k)[1].before = {}
        /\ IvpsChn(k)[1].notes = {} /\ IvpsChn(k)[1].gets = {}
        /\ IvpsChn(k)[2].begins = {} /\ IvpsChn(k)[2].before = {}
        /\ IvpsChn(k)[2].notes = {} /\ IvpsChn(k)[2].gets = {<<"chn", k>>}
    BY DEF IvpsChn, Plain
  <2> QED
    BY <2>1, <2>2, <2>3
<1>5. LET c == q[6 + 3 * N] IN
      /\ c.begins = {} /\ c.before = {} /\ c.gets = {One("run")}
      /\ c.notes = {One("grp"), One("run")} \cup All("chn")
  BY IvpsTable DEF Plain
<1> HIDE DEF q
<1>6. ASSUME NEW i \in 1..(6 + 3 * N)
      PROVE  /\ q[i].begins \cup q[i].gets \subseteq IvpsOwned
             /\ q[i].before \cup q[i].notes \subseteq IvpsOwned
  <2>1. CASE i \in 1..(N + 5)
    <3>1. i = 1 \/ i = 2 \/ i \in 3..(N + 2) \/ i = N + 3 \/ i = N + 4 \/ i = N + 5
      BY <2>1, AcquisitionAssumption
    <3>2. CASE i \in 3..(N + 2)
      <4>1. i - 2 \in 1..N /\ i = 2 + (i - 2)
        BY <3>2, AcquisitionAssumption
      <4> QED
        BY <1>10, <4>1
    <3> QED
      BY <1>2, <1>3, <3>1, <3>2 DEF IvpsOwned
  <2>2. CASE i = 6 + 3 * N
    BY <1>5, <2>2 DEF IvpsOwned
  <2>3. CASE i \notin 1..(N + 5) /\ i # 6 + 3 * N
    <3>1. i - (N + 5) \in 1..(2 * N) /\ i = N + 5 + (i - (N + 5))
      BY <2>3, AcquisitionAssumption
    <3>2. PICK k \in 1..N, m \in 1..2 : i - (N + 5) = 2 * (k - 1) + m
      BY <3>1, Placed
    <3>3. <<"chn", k>> \in All("chn")
      BY DEF All
    <3> QED
      BY <1>4, <3>1, <3>2, <3>3 DEF IvpsOwned
  <2> QED
    BY <2>1, <2>2, <2>3
<1>7. ASSUME NEW r \in IvpsOwned
      PROVE  \E i \in 1..(6 + 3 * N) : r \in q[i].begins \cup q[i].gets
  <2>1. CASE r \in {One("id"), One("pool"), One("grp")}
    <3>1. 1 \in 1..(6 + 3 * N) /\ 2 \in 1..(6 + 3 * N) /\ N + 4 \in 1..(6 + 3 * N)
      BY AcquisitionAssumption
    <3> QED
      BY <1>2, <1>3, <2>1, <3>1
  <2>2. CASE r = One("run")
    <3>1. 6 + 3 * N \in 1..(6 + 3 * N)
      BY AcquisitionAssumption
    <3> QED
      BY <1>5, <2>2, <3>1
  <2>3. CASE r \in All("chn")
    <3>1. PICK k \in 1..N : r = <<"chn", k>>
      BY <2>3 DEF All
    <3>2. N + 5 + (2 * (k - 1) + 2) \in 1..(6 + 3 * N) /\ 2 \in 1..2
      BY AcquisitionAssumption
    <3> QED
      BY <1>4, <3>1, <3>2
  <2> QED
    BY <2>1, <2>2, <2>3 DEF IvpsOwned
<1>8. Owns(q, IvpsOwned)
  BY <1>1, <1>6, <1>7 DEF Owns, q
<1>9. Listing(IvpsDestroy, IvpsOwned)
  <2> DEFINE w == <<One("pool"), One("id")>>
             R == All("chn") \cup {One("grp")}
  <2>1. /\ Needs(One("id")) = {} /\ Needs(One("pool")) = {} /\ One("id") # One("pool")
        /\ Needs(One("run")) = {One("grp")} \cup All("chn")
    BY NeedsOne, Independent, KindsDiffer
  <2>2. One("run") # One("grp") /\ One("run") # One("id") /\ One("run") # One("pool")
        /\ One("grp") # One("id") /\ One("grp") # One("pool")
    BY KindsDiffer
  <2>3. /\ \A x \in All("chn") : /\ x # One("run") /\ x # One("id") /\ x # One("pool")
                                 /\ x # One("grp")
    BY KindsDiffer
  <2>4. Listing(w, {One("pool"), One("id")})
    BY <2>1, TupleList DEF Listing, Orderly, Rng
  <2>5. Listing(<<One("run")>>, {One("run")})
    BY <2>1, <2>2, <2>3, ListingTuple
  <2>6. Listing(Rollback(N), R)
    <3>1. N \in 0..N /\ Below("chn", N + 1) = All("chn")
      BY BelowFacts, AcquisitionAssumption
    <3> QED
      BY <3>1, RollbackListing
  <2>7. \A y \in R : One("run") \notin Needs(y)
    <3>1. /\ Needs(One("grp")) = {One("id"), One("pool"), One("mem")}
          /\ \A k : Needs(<<"chn", k>>) = {One("grp"), One("id")}
          /\ One("run") # One("mem")
      BY NeedsSome, NeedsOne, KindsDiffer
    <3> QED
      BY <2>2, <3>1 DEF All
  <2> HIDE DEF w
  <2>8. Listing(<<One("run")>> \o Rollback(N), {One("run")} \cup R)
    BY <2>2, <2>3, <2>5, <2>6, <2>7, ListingConcat
  <2>9. \A x \in {One("run")} \cup R, y \in {One("pool"), One("id")} :
          x # y /\ x \notin Needs(y)
    BY <2>1, <2>2, <2>3
  <2>10. Listing((<<One("run")>> \o Rollback(N)) \o w,
                 ({One("run")} \cup R) \cup {One("pool"), One("id")})
    BY <2>4, <2>8, <2>9, ListingConcat
  <2>11. IvpsDestroy = (<<One("run")>> \o Rollback(N)) \o w
    BY DEF IvpsDestroy, w
  <2>12. IvpsOwned = ({One("run")} \cup R) \cup {One("pool"), One("id")}
    BY DEF IvpsOwned
  <2> QED
    BY <2>10, <2>11, <2>12
<1> QED
  BY <1>8, <1>9 DEF q

-----------------------------------------------------------------------------
(* The components of a library *)

(* The components that are up, kind by kind.                               *)
LEMMA UpSplit ==
  ASSUME NEW so, NEW obj, NEW run, NEW S
  PROVE  Up(so, obj, run, S) = {<<so, j>> : j \in S} \cup {<<obj, j>> : j \in S}
                                 \cup {<<run, j>> : j \in S}
BY DEF Up

(* One more component.                                                     *)
LEMMA UpGrows ==
  ASSUME NEW so, NEW obj, NEW run, NEW S, NEW k, NEW T, T = S \cup {k}
  PROVE  \A x : x \in Up(so, obj, run, T) <=>
                 x \in Up(so, obj, run, S) \/ x \in {<<so, k>>, <<obj, k>>, <<run, k>>}
<1>1. Up(so, obj, run, T) = {<<so, j>> : j \in T} \cup {<<obj, j>> : j \in T}
                              \cup {<<run, j>> : j \in T}
  BY UpSplit
<1>2. Up(so, obj, run, S) = {<<so, j>> : j \in S} \cup {<<obj, j>> : j \in S}
                              \cup {<<run, j>> : j \in S}
  BY UpSplit
<1> QED
  BY <1>1, <1>2

(* No component.                                                           *)
LEMMA UpNone ==
  ASSUME NEW so, NEW obj, NEW run
  PROVE  Up(so, obj, run, {}) = {}
BY UpSplit

(* A component that is not up.                                             *)
LEMMA UpWithout ==
  ASSUME NEW so, NEW obj, NEW run, NEW S, NEW k, k \notin S, NEW kind
  PROVE  <<kind, k>> \notin Up(so, obj, run, S)
BY UpSplit

(* The lists its error paths and its Unload release.                       *)
LEMMA UnpartLists ==
  ASSUME NEW so, NEW obj, NEW run, NEW k,
         Needs(<<so, k>>) = {}, Needs(<<obj, k>>) = {<<so, k>>},
         so # obj, so # run, obj # run,
         <<run, k>> \notin Needs(<<run, k>>)
  PROVE  /\ Listing(<<<<so, k>>>>, {<<so, k>>})
         /\ Listing(<<<<obj, k>>, <<so, k>>>>, {<<obj, k>>, <<so, k>>})
         /\ Listing(<<<<run, k>>, <<obj, k>>, <<so, k>>>>, {<<run, k>>, <<obj, k>>, <<so, k>>})
<1>1. <<so, k>> # <<obj, k>> /\ <<so, k>> # <<run, k>> /\ <<obj, k>> # <<run, k>>
  OBVIOUS
<1> DEFINE x == <<so, k>>  y == <<obj, k>>  z == <<run, k>>
<1>2. x # y /\ x # z /\ y # z /\ Needs(x) = {} /\ Needs(y) = {x} /\ z \notin Needs(z)
  BY <1>1
<1> HIDE DEF x, y, z
<1>3. Listing(<<x>>, {x})
  BY <1>2, ListingTuple
<1>4. Listing(<<y, x>>, {y, x})
  BY <1>2, TupleList DEF Listing, Orderly, Rng
<1>5. Listing(<<z, y, x>>, {z, y, x})
  BY <1>2, TupleList DEF Listing, Orderly, Rng
<1> QED
  BY <1>3, <1>4, <1>5 DEF x, y, z

-----------------------------------------------------------------------------
(* RuleEngine *)

(* The calls for rule k.                                                   *)
LEMMA RuleEntries ==
  ASSUME NEW k \in 1..N
  PROVE  LET so == <<"so", k>>  rule == <<"rule", k>>  q == RuleLoad(k) IN
         /\ Trying(q[1], {}, {}, <<>>) /\ Trying(q[2], {so}, {}, <<>>)
         /\ Trying(q[3], {}, {}, <<so>>) /\ Trying(q[4], {rule}, {}, <<so>>)
         /\ Trying(q[5], {}, {}, <<rule, so>>)
         /\ q[6].once = {} /\ q[6].before = {} /\ q[6].gets = {} /\ q[6].forgets = {}
         /\ ~q[6].destroys /\ q[6].begins = {<<"inited", k>>}
         /\ q[6].notes = {so, rule, <<"inited", k>>}
         /\ q[6].undo = <<<<"inited", k>>, rule, so>>
         /\ \A j \in 1..6 : q[j].goto = 6 * k + 1 /\ q[j].wants = {}
<1> DEFINE b == Part("so", "rule", "inited", k)
           part == <<Plain>> \o b
           q == RuleLoad(k)
<1>1. IsList(<<Plain>>, 1) /\ IsList(b, 5)
  BY TupleList DEF Part
<1>2. part[1] = Plain /\ part[2] = b[1] /\ part[3] = b[2] /\ part[4] = b[3]
      /\ part[5] = b[4] /\ part[6] = b[5]
  <2>1. Joined(part, <<Plain>>, b, 1, 5)
    BY <1>1, ListConcat
  <2>2. <<Plain>>[1] = Plain
    OBVIOUS
  <2> HIDE DEF part, b
  <2>3. /\ part[1] = <<Plain>>[1] /\ part[1 + 1] = b[1] /\ part[1 + 2] = b[2]
        /\ part[1 + 3] = b[3] /\ part[1 + 4] = b[4] /\ part[1 + 5] = b[5]
    BY <2>1 DEF Joined
  <2> QED
    BY <2>2, <2>3
<1>3. \A j \in 1..6 : q[j] = [part[j] EXCEPT !.goto = 6 * k + 1]
  BY DEF RuleLoad
<1> HIDE DEF part
<1>4. /\ q[1] = [Plain EXCEPT !.goto = 6 * k + 1]
      /\ q[2] = [b[1] EXCEPT !.goto = 6 * k + 1] /\ q[3] = [b[2] EXCEPT !.goto = 6 * k + 1]
      /\ q[4] = [b[3] EXCEPT !.goto = 6 * k + 1] /\ q[5] = [b[4] EXCEPT !.goto = 6 * k + 1]
      /\ q[6] = [b[5] EXCEPT !.goto = 6 * k + 1]
  BY <1>2, <1>3
<1> DEFINE so == <<"so", k>>  rule == <<"rule", k>>  inited == <<"inited", k>>
<1>5. /\ b[1] = [Plain EXCEPT !.gets = {so}] /\ b[2] = [Plain EXCEPT !.undo = <<so>>]
      /\ b[3] = [Plain EXCEPT !.gets = {rule}, !.undo = <<so>>]
      /\ b[4] = [Plain EXCEPT !.undo = <<rule, so>>]
      /\ b[5] = [Plain EXCEPT !.begins = {inited}, !.notes = {so, rule, inited},
                              !.undo = <<inited, rule, so>>]
  BY DEF Part
<1> HIDE DEF so, rule, inited, b, q
<1>6. /\ Trying(q[1], {}, {}, <<>>) /\ q[1].goto = 6 * k + 1 /\ q[1].wants = {}
      /\ Trying(q[2], {so}, {}, <<>>) /\ q[2].goto = 6 * k + 1 /\ q[2].wants = {}
  BY <1>4, <1>5 DEF Trying, Entry, Plain
<1>7. /\ Trying(q[3], {}, {}, <<so>>) /\ q[3].goto = 6 * k + 1 /\ q[3].wants = {}
      /\ Trying(q[4], {rule}, {}, <<so>>) /\ q[4].goto = 6 * k + 1 /\ q[4].wants = {}
  BY <1>4, <1>5 DEF Trying, Entry, Plain
<1>8. /\ Trying(q[5], {}, {}, <<rule, so>>) /\ q[5].goto = 6 * k + 1 /\ q[5].wants = {}
  BY <1>4, <1>5 DEF Trying, Entry, Plain
<1>9. /\ q[6].once = {} /\ q[6].before = {} /\ q[6].gets = {} /\ q[6].forgets = {}
      /\ ~q[6].destroys /\ q[6].begins = {inited} /\ q[6].goto = 6 * k + 1
      /\ q[6].notes = {so, rule, inited} /\ q[6].undo = <<inited, rule, so>>
      /\ q[6].wants = {}
  BY <1>4, <1>5 DEF Plain
<1>10. \A j \in 1..6 : q[j].goto = 6 * k + 1 /\ q[j].wants = {}
  <2>1. \A j \in 1..6 : j = 1 \/ j = 2 \/ j = 3 \/ j = 4 \/ j = 5 \/ j = 6
    OBVIOUS
  <2> QED
    BY <1>6, <1>7, <1>8, <1>9, <2>1
<1> QED
  BY <1>6, <1>7, <1>8, <1>9, <1>10 DEF so, rule, inited, q

(* The calls of RuleEngine::Load, by number.                               *)
LEMMA RulesTable ==
  /\ IsList(RulesLoad, 6 * N)
  /\ \A k \in 1..N, m \in 1..6 : RulesLoad[6 * (k - 1) + m] = RuleLoad(k)[m]
<1> DEFINE d == RulesLoad
<1>1. d = [k \in 1..(6 * N) |-> RuleLoad((k - 1) \div 6 + 1)[((k - 1) % 6) + 1]]
  BY DEF Repeated, RulesLoad
<1> HIDE DEF d
<1>2. d = [k \in 1..(6 * N) |-> d[k]]
  BY <1>1
<1>3. IsList(d, 6 * N)
  BY <1>2, ListFun, AcquisitionAssumption
<1>4. ASSUME NEW k \in 1..N, NEW m \in 1..6 PROVE d[6 * (k - 1) + m] = RuleLoad(k)[m]
  <2>1. /\ 6 * (k - 1) + m \in 1..(6 * N)
        /\ (6 * (k - 1) + m - 1) \div 6 + 1 = k
        /\ ((6 * (k - 1) + m - 1) % 6) + 1 = m
    BY Place
  <2> QED
    BY <1>1, <2>1
<1> QED
  BY <1>3, <1>4 DEF d

(* What a rule's error paths release.                                      *)
LEMMA RuleLists ==
  ASSUME NEW k
  PROVE  /\ Listing(<<<<"so", k>>>>, {<<"so", k>>})
         /\ Listing(<<<<"rule", k>>, <<"so", k>>>>, {<<"rule", k>>, <<"so", k>>})
         /\ Listing(<<<<"inited", k>>, <<"rule", k>>, <<"so", k>>>>,
                    {<<"inited", k>>, <<"rule", k>>, <<"so", k>>})
<1>1. Needs(<<"so", k>>) = {} /\ Needs(<<"rule", k>>) = {<<"so", k>>}
  BY NeedsNothing, NeedsSome
<1>2. <<"inited", k>> \notin Needs(<<"inited", k>>)
  <2>1. Needs(<<"inited", k>>) = {<<"processor", k>>, <<"rule", k>>}
    BY NeedsSome
  <2> QED
    BY <2>1
<1> QED
  BY <1>1, <1>2, UnpartLists

(* One more rule.                                                          *)
LEMMA RuleGrows ==
  ASSUME NEW S, NEW k
  PROVE  Up("so", "rule", "inited", S \cup {k}) =
           Up("so", "rule", "inited", S) \cup {<<"so", k>>, <<"rule", k>>, <<"inited", k>>}
<1> DEFINE T == S \cup {k}
<1>1. Up("so", "rule", "inited", T) =
        Up("so", "rule", "inited", S) \cup {<<"so", k>>, <<"rule", k>>, <<"inited", k>>}
  BY UpGrows
<1> QED
  BY <1>1

(* Nothing of rule k is needed by the rules before it.                     *)
LEMMA RulesApart ==
  ASSUME NEW k, NEW S, k \notin S
  PROVE  \A x \in {<<"so", k>>, <<"rule", k>>, <<"inited", k>>},
            r \in Up("so", "rule", "inited", S) : x # r /\ x \notin Needs(r)
<1> SUFFICES ASSUME NEW x \in {<<"so", k>>, <<"rule", k>>, <<"inited", k>>},
                    NEW r \in Up("so", "rule", "inited", S)
             PROVE  x # r /\ x \notin Needs(r)
  OBVIOUS
<1>3. PICK j \in S, kind \in {"so", "rule", "inited"} : r = <<kind, j>>
  BY DEF Up
<1>1. /\ Needs(<<"so", j>>) = {} /\ Needs(<<"rule", j>>) = {<<"so", j>>}
      /\ Needs(<<"inited", j>>) = {<<"processor", j>>, <<"rule", j>>}
  BY NeedsNothing, NeedsSome
<1>2. j # k
  OBVIOUS
<1> QED
  BY <1>1, <1>2, <1>3

(* The calls for rule k; m of them have been made.                         *)
LEMMA RulesPart ==
  ASSUME NEW k \in 1..N, NEW m \in 0..5, NEW S \in SUBSET Lower(k), NEW n, NEW h, NEW i,
         i = 6 * (k - 1) + m + 1, n = Up("so", "rule", "inited", S),
         h = n \cup When(m > 1, <<"so", k>>) \cup When(m > 3, <<"rule", k>>)
  PROVE  CallOK("rules", RulesLoad[i], i, h, n)
<1> DEFINE c == RulesLoad[i]
           so == <<"so", k>>  rule == <<"rule", k>>  inited == <<"inited", k>>
<1>1. c = RuleLoad(k)[m + 1]
  <2>1. i = 6 * (k - 1) + (m + 1) /\ m + 1 \in 1..6
    OBVIOUS
  <2> QED
    BY <2>1, RulesTable
<1>2. c.goto = 6 * k + 1 /\ c.wants = {}
  <2>1. m + 1 \in 1..6
    OBVIOUS
  <2> QED
    BY <1>1, <2>1, RuleEntries
<1>3. k \notin S
  BY DEF Lower
<1>4. so \notin n /\ rule \notin n /\ inited \notin n
  BY <1>3, UpWithout
<1>5. \A x \in {so, rule, inited}, r \in n : x # r /\ x \notin Needs(r)
  BY <1>3, RulesApart
<1>6. /\ 6 * k + 1 = 6 * ((k + 1) - 1) + 0 + 1 /\ k + 1 \in 1..(N + 1) /\ 0 \in 0..5
      /\ 6 * k + 1 \in 1..(Len(RulesLoad) + 1) /\ ~(0 > 1) /\ ~(0 > 3) /\ k \in 1..(N + 1)
      /\ 6 * k + 1 # 0
  BY RulesTable, ListLen, AcquisitionAssumption
<1>7. S \in SUBSET Lower(k + 1) /\ S \cup {k} \in SUBSET Lower(k + 1)
  BY AcquisitionAssumption DEF Lower
<1>8. RulesAt(6 * k + 1, n, n)
  <2>1. n = n \cup When(0 > 1, <<"so", k + 1>>) \cup When(0 > 3, <<"rule", k + 1>>)
    BY <1>6 DEF When
  <2> QED
    BY <1>6, <1>7, <2>1 DEF RulesAt
<1>9. ~c.destroys => After("rules", c, n, n)
  BY <1>2, <1>6, <1>8, CallsOf DEF After, Inside
<1>10. ASSUME NEW g, m < 5,
              h \cup g = n \cup When(m + 1 > 1, so) \cup When(m + 1 > 3, rule)
       PROVE  Inside("rules", i + 1, h \cup g, n \cup {})
  <2>1. i + 1 = 6 * (k - 1) + (m + 1) + 1 /\ m + 1 \in 0..5 /\ n \cup {} = n
    BY <1>10
  <2>2. RulesAt(i + 1, h \cup g, n)
    BY <1>6, <1>10, <2>1 DEF RulesAt
  <2> QED
    BY <2>1, <2>2 DEF Inside
<1>11. /\ Listing(<<>>, {}) /\ Listing(<<so>>, {so})
       /\ Listing(<<rule, so>>, {rule, so})
       /\ Listing(<<inited, rule, so>>, {inited, rule, so})
  BY ListingTuple, RuleLists
<1>12. so # rule /\ so # inited /\ rule # inited
  OBVIOUS
<1> HIDE DEF c, so, rule, inited
<1>13. CASE m = 0 \/ m = 1
  <2> DEFINE g == IF m = 0 THEN {} ELSE {so}
  <2>1. Trying(c, g, {}, <<>>)
    <3>1. m = 0 => c = RuleLoad(k)[1]
      BY <1>1
    <3>2. m = 1 => c = RuleLoad(k)[2]
      BY <1>1
    <3> QED
      BY <1>13, <3>1, <3>2, RuleEntries DEF so
  <2>2. h = n /\ h \cup g = n \cup When(m + 1 > 1, so) \cup When(m + 1 > 3, rule) /\ m < 5
    BY <1>13 DEF When, so, rule
  <2>3. Inside("rules", i + 1, h \cup g, n \cup {})
    BY <1>10, <2>2
  <2> HIDE DEF g
  <2>4. Tries("rules", c, i, h, n, g, {}, <<>>, {})
    <3>1. h \ {} = n
      BY <2>2
    <3> QED
      BY <1>9, <1>11, <2>1, <2>3, <3>1 DEF Tries, Trying
  <2> QED
    BY <2>4, TryingRule DEF c
<1>14. CASE m = 2 \/ m = 3
  <2> DEFINE g == IF m = 2 THEN {} ELSE {rule}
  <2>1. Trying(c, g, {}, <<so>>)
    <3>1. m = 2 => c = RuleLoad(k)[3]
      BY <1>1
    <3>2. m = 3 => c = RuleLoad(k)[4]
      BY <1>1
    <3> QED
      BY <1>14, <3>1, <3>2, RuleEntries DEF so, rule
  <2>2. /\ h = n \cup {so} /\ m < 5
        /\ h \cup g = n \cup When(m + 1 > 1, so) \cup When(m + 1 > 3, rule)
    BY <1>14 DEF When, so, rule
  <2>3. Inside("rules", i + 1, h \cup g, n \cup {})
    BY <1>10, <2>2
  <2> HIDE DEF g
  <2>4. Tries("rules", c, i, h, n, g, {}, <<so>>, {so})
    <3>1. h \ {so} = n
      BY <1>4, <2>2 DEF so
    <3>2. \A x \in {so}, r \in n : x \notin Needs(r)
      BY <1>5 DEF so
    <3> QED
      BY <1>9, <1>11, <2>1, <2>2, <2>3, <3>1, <3>2 DEF Tries, Trying
  <2> QED
    BY <2>4, TryingRule DEF c
<1>15. CASE m = 4
  <2>1. Trying(c, {}, {}, <<rule, so>>)
    <3>1. c = RuleLoad(k)[5]
      BY <1>1, <1>15
    <3> QED
      BY <3>1, RuleEntries DEF so, rule
  <2>2. /\ h = n \cup {so, rule} /\ m < 5
        /\ h \cup {} = n \cup When(m + 1 > 1, so) \cup When(m + 1 > 3, rule)
    BY <1>15 DEF When, so, rule
  <2>3. Inside("rules", i + 1, h \cup {}, n \cup {})
    BY <1>10, <2>2
  <2>4. Tries("rules", c, i, h, n, {}, {}, <<rule, so>>, {rule, so})
    <3>1. h \ {rule, so} = n
      BY <1>4, <2>2 DEF so, rule
    <3>2. \A x \in {rule, so}, r \in n : x \notin Needs(r)
      BY <1>5 DEF so, rule
    <3> QED
      BY <1>9, <1>11, <2>1, <2>2, <2>3, <3>1, <3>2 DEF Tries, Trying
  <2> QED
    BY <2>4, TryingRule DEF c
<1>16. CASE m = 5
  <2>1. c = RuleLoad(k)[6]
    BY <1>1, <1>16
  <2>2. /\ c.once = {} /\ c.before = {} /\ c.gets = {} /\ c.forgets = {}
        /\ ~c.destroys /\ c.begins = {inited} /\ c.notes = {so, rule, inited}
        /\ c.undo = <<inited, rule, so>>
    BY <2>1, RuleEntries DEF so, rule, inited
  <2>3. h = n \cup {so, rule}
    BY <1>16 DEF When, so, rule
  <2>4. (h \cup {inited}) \ {inited, rule, so} = n
    BY <1>4, <2>3 DEF so, rule, inited
  <2>5. Inside("rules", i + 1, h \cup {inited}, n \cup {so, rule, inited})
    <3> DEFINE n1 == n \cup {so, rule, inited}
    <3>1. n1 = Up("so", "rule", "inited", S \cup {k})
      BY RuleGrows DEF so, rule, inited
    <3>2. h \cup {inited} = n1 /\ i + 1 = 6 * k + 1
      BY <1>16, <2>3
    <3>3. n1 = n1 \cup When(0 > 1, <<"so", k + 1>>) \cup When(0 > 3, <<"rule", k + 1>>)
      BY <1>6 DEF When
    <3> HIDE DEF n1
    <3>4. RulesAt(6 * k + 1, n1, n1)
      BY <1>6, <1>7, <3>1, <3>3 DEF RulesAt
    <3> QED
      BY <3>2, <3>4 DEF Inside, n1
  <2>6. \A x \in {inited, rule, so}, r \in n : x \notin Needs(r)
    BY <1>5 DEF so, rule, inited
  <2>7. Works("rules", c, i, h, n, {inited, rule, so})
    <3>1. /\ h \cup c.begins = h \cup {inited} /\ n \cup c.before = n
          /\ h \cup {inited} \cup c.gets = h \cup {inited}
          /\ {inited, rule, so} \subseteq h \cup {inited}
      BY <2>2, <2>3
    <3> QED
      BY <1>9, <1>11, <2>2, <2>4, <2>5, <2>6, <3>1 DEF Works
  <2> QED
    BY <2>7, CallRule DEF c
<1> QED
  BY <1>13, <1>14, <1>15, <1>16

(* Every call keeps the rules that are loaded whole.                       *)
LEMMA RulesCalls ==
  ASSUME NEW i \in 1..(6 * N), NEW h, NEW n, RulesAt(i, h, n)
  PROVE  CallOK("rules", RulesLoad[i], i, h, n)
<1>1. PICK k \in 1..(N + 1), m \in 0..5 :
        /\ i = 6 * (k - 1) + m + 1
        /\ \E S \in SUBSET Lower(k) : n = Up("so", "rule", "inited", S)
        /\ h = n \cup When(m > 1, <<"so", k>>) \cup When(m > 3, <<"rule", k>>)
  BY DEF RulesAt
<1>2. PICK S \in SUBSET Lower(k) : n = Up("so", "rule", "inited", S)
  BY <1>1
<1>3. k \in 1..N
  BY <1>1, AcquisitionAssumption
<1> QED
  BY <1>1, <1>2, <1>3, RulesPart

(* After the last, no rule is half loaded.                                 *)
LEMMA RulesEnds ==
  ASSUME NEW h, NEW n, RulesAt(6 * N + 1, h, n)
  PROVE  Rest("rules", h, n)
<1>1. PICK k \in 1..(N + 1), m \in 0..5 :
        /\ 6 * N + 1 = 6 * (k - 1) + m + 1
        /\ h = n \cup When(m > 1, <<"so", k>>) \cup When(m > 3, <<"rule", k>>)
  BY DEF RulesAt
<1>2. m = 0
  BY <1>1, AcquisitionAssumption
<1> QED
  BY <1>1, <1>2 DEF When, Rest

(* Before the first, there is none.                                        *)
LEMMA RulesStarts == RulesAt(1, {}, {})
<1>1. 1 \in 1..(N + 1) /\ 0 \in 0..5 /\ 1 = 6 * (1 - 1) + 0 + 1 /\ ~(0 > 1) /\ ~(0 > 3)
  BY AcquisitionAssumption
<1>2. {} \in SUBSET Lower(1) /\ {} = Up("so", "rule", "inited", {})
  BY UpNone
<1> QED
  BY <1>1, <1>2 DEF RulesAt, When

(* UnloadPart component after component, in the order f.                    *)
Third(so, obj, m) == IF m = 1 THEN "inited" ELSE IF m = 2 THEN obj ELSE so

Stacked(so, obj) ==
  /\ so # obj /\ so # "inited" /\ obj # "inited"
  /\ \A k : /\ Needs(<<so, k>>) = {} /\ Needs(<<obj, k>>) = {<<so, k>>}
            /\ Needs(<<"inited", k>>) = {<<"processor", k>>, <<"rule", k>>}

(* RuleEngine's libraries and the chain's.                                 *)
LEMMA BothStacked == Stacked("so", "rule") /\ Stacked("lib", "processor")
BY NeedsNothing, NeedsSome DEF Stacked

(* Instance, object, library: none needs one that comes before it.         *)
LEMMA ThirdNeeds ==
  ASSUME NEW so, NEW obj, Stacked(so, obj), NEW l \in 1..3, NEW m \in 1..3, NEW j, NEW k
  PROVE  /\ j # k => <<Third(so, obj, l), j>> \notin Needs(<<Third(so, obj, m), k>>)
         /\ l <= m => <<Third(so, obj, l), k>> \notin Needs(<<Third(so, obj, m), k>>)
         /\ l < m => Third(so, obj, l) # Third(so, obj, m)
<1>1. /\ so # obj /\ so # "inited" /\ obj # "inited"
      /\ Needs(<<so, k>>) = {} /\ Needs(<<obj, k>>) = {<<so, k>>}
      /\ Needs(<<"inited", k>>) = {<<"processor", k>>, <<"rule", k>>}
  BY DEF Stacked
<1>2. l = 1 \/ l = 2 \/ l = 3
  OBVIOUS
<1>3. CASE m = 1
  <2>1. Third(so, obj, m) = "inited" /\ (l <= m => Third(so, obj, l) = "inited")
    BY <1>2, <1>3 DEF Third
  <2> QED
    BY <1>1, <1>2, <1>3, <2>1
<1>4. CASE m = 2
  <2>1. Third(so, obj, m) = obj
    BY <1>4 DEF Third
  <2>2. /\ l <= m => Third(so, obj, l) = "inited" \/ Third(so, obj, l) = obj
        /\ l < m => Third(so, obj, l) = "inited"
    BY <1>2, <1>4 DEF Third
  <2> QED
    BY <1>1, <2>1, <2>2
<1>5. CASE m = 3
  <2>1. Third(so, obj, m) = so
    BY <1>5 DEF Third
  <2>2. l < m => Third(so, obj, l) = "inited" \/ Third(so, obj, l) = obj
    BY <1>2, <1>5 DEF Third
  <2> QED
    BY <1>1, <2>1, <2>2
<1>6. m = 1 \/ m = 2 \/ m = 3
  OBVIOUS
<1> QED
  BY <1>3, <1>4, <1>5, <1>6

(* Entries of one component.                                               *)
LEMMA SameComponent ==
  ASSUME NEW a \in Int, NEW l \in Int, NEW m \in Int, NEW j, NEW i,
         j = 3 * (a - 1) + l, i = 3 * (a - 1) + m
  PROVE  (j <= i => l <= m) /\ (j < i => l < m)
OBVIOUS

(* Unload is an order, in whichever order of the components.               *)
LEMMA UnloadListing ==
  ASSUME NEW so, NEW obj, Stacked(so, obj), NEW f \in [1..N -> 1..N],
         NEW q, IsList(q, 3 * N),
         \A j, k \in 1..N : j # k => f[j] # f[k],
         \A j \in 1..N : \E k \in 1..N : f[k] = j,
         \A k \in 1..N, m \in 1..3 : q[3 * (k - 1) + m] = <<Third(so, obj, m), f[k]>>
  PROVE  Listing(q, Up(so, obj, "inited", 1..N))
<1>1. Len(q) = 3 * N
  BY ListLen
<1>2. ASSUME NEW j \in 1..(3 * N), NEW i \in 1..(3 * N), j <= i
      PROVE  q[j] \notin Needs(q[i]) /\ (j < i => q[j] # q[i])
  <2>1. PICK a \in 1..N, l \in 1..3 : j = 3 * (a - 1) + l
    BY Placed
  <2>2. PICK b \in 1..N, m \in 1..3 : i = 3 * (b - 1) + m
    BY Placed
  <2>3. q[j] = <<Third(so, obj, l), f[a]>> /\ q[i] = <<Third(so, obj, m), f[b]>>
    BY <2>1, <2>2
  <2>4. CASE a # b
    <3>1. f[a] # f[b]
      BY <2>4
    <3>2. <<Third(so, obj, l), f[a]>> \notin Needs(<<Third(so, obj, m), f[b]>>)
      BY <3>1, ThirdNeeds
    <3> QED
      BY <2>3, <3>1, <3>2
  <2>5. CASE a = b
    <3>1. l <= m /\ (j < i => l < m)
      <4>1. (j <= i => l <= m) /\ (j < i => l < m)
        BY <2>1, <2>2, <2>5, SameComponent
      <4> QED
        BY <1>2, <4>1
    <3>2. <<Third(so, obj, l), f[b]>> \notin Needs(<<Third(so, obj, m), f[b]>>)
      BY <3>1, ThirdNeeds
    <3>3. j < i => Third(so, obj, l) # Third(so, obj, m)
      BY <3>1, ThirdNeeds
    <3> QED
      BY <2>3, <2>5, <3>2, <3>3
  <2> QED
    BY <2>4, <2>5
<1>3. Orderly(q)
  BY <1>1, <1>2 DEF Orderly
<1>4. \A x : x \in Rng(q) <=> x \in Up(so, obj, "inited", 1..N)
  <2>1. ASSUME NEW j \in 1..(3 * N) PROVE q[j] \in Up(so, obj, "inited", 1..N)
    <3>1. PICK a \in 1..N, l \in 1..3 : j = 3 * (a - 1) + l
      BY Placed
    <3>2. q[j] = <<Third(so, obj, l), f[a]>> /\ f[a] \in 1..N
      BY <3>1
    <3>3. Third(so, obj, l) \in {so, obj, "inited"}
      BY DEF Third
    <3> QED
      BY <3>2, <3>3 DEF Up
  <2>2. ASSUME NEW k \in 1..N, NEW m \in 1..3
        PROVE  \E i \in 1..(3 * N) : q[i] = <<Third(so, obj, m), k>>
    <3>1. PICK a \in 1..N : f[a] = k
      OBVIOUS
    <3>2. 3 * (a - 1) + m \in 1..(3 * N)
      BY Place
    <3>3. q[3 * (a - 1) + m] = <<Third(so, obj, m), k>>
      BY <3>1
    <3> QED
      BY <3>2, <3>3
  <2>3. ASSUME NEW k \in 1..N, NEW kind \in {so, obj, "inited"}
        PROVE  \E i \in 1..(3 * N) : q[i] = <<kind, k>>
    <3>1. PICK m \in 1..3 : kind = Third(so, obj, m)
      <4>1. /\ Third(so, obj, 1) = "inited" /\ Third(so, obj, 2) = obj
            /\ Third(so, obj, 3) = so
        BY DEF Third
      <4> QED
        BY <4>1
    <3> QED
      BY <2>2, <3>1
  <2>4. \A x \in Up(so, obj, "inited", 1..N) :
          \E k \in 1..N, kind \in {so, obj, "inited"} : x = <<kind, k>>
    BY DEF Up
  <2>5. \A x : x \in Rng(q) <=> \E i \in 1..(3 * N) : x = q[i]
    BY <1>1 DEF Rng
  <2>6. ASSUME NEW x \in Up(so, obj, "inited", 1..N) PROVE \E i \in 1..(3 * N) : x = q[i]
    <3>1. PICK k \in 1..N, kind \in {so, obj, "inited"} : x = <<kind, k>>
      BY <2>4
    <3>2. PICK i \in 1..(3 * N) : q[i] = <<kind, k>>
      BY <2>3
    <3> QED
      BY <3>1, <3>2
  <2>7. ASSUME NEW x \in Rng(q) PROVE x \in Up(so, obj, "inited", 1..N)
    <3>1. PICK i \in 1..(3 * N) : x = q[i]
      BY <2>5
    <3> QED
      BY <2>1, <3>1
  <2>8. ASSUME NEW x \in Up(so, obj, "inited", 1..N) PROVE x \in Rng(q)
    BY <2>5, <2>6
  <2> QED
    BY <2>7, <2>8, Zenon
<1>5. Rng(q) = Up(so, obj, "inited", 1..N)
  BY <1>4
<1> QED
  BY <1>1, <1>3, <1>5 DEF Listing

RulesOwned == Up("so", "rule", "inited", 1..N)

(* RuleEngine::Unload releases all the rules.                              *)
LEMMA RulesLists == Listing(RulesUnload, RulesOwned) /\ IsList(RulesUnload, 3 * N)
<1> DEFINE d == RulesUnload
           f == [k \in 1..N |-> k]
<1>1. d = [k \in 1..(3 * N) |-> RuleUnload((k - 1) \div 3 + 1)[((k - 1) % 3) + 1]]
  BY DEF Repeated, RulesUnload
<1> HIDE DEF d
<1>2. d = [k \in 1..(3 * N) |-> d[k]]
  BY <1>1
<1>3. IsList(d, 3 * N)
  BY <1>2, ListFun, AcquisitionAssumption
<1>4. ASSUME NEW k \in 1..N, NEW m \in 1..3
      PROVE  d[3 * (k - 1) + m] = <<Third("so", "rule", m), f[k]>>
  <2>1. /\ 3 * (k - 1) + m \in 1..(3 * N)
        /\ (3 * (k - 1) + m - 1) \div 3 + 1 = k
        /\ ((3 * (k - 1) + m - 1) % 3) + 1 = m
    BY Place
  <2>2. d[3 * (k - 1) + m] = RuleUnload(k)[m]
    BY <1>1, <2>1
  <2>3. m = 1 \/ m = 2 \/ m = 3
    OBVIOUS
  <2> QED
    BY <2>2, <2>3 DEF RuleUnload, Unpart, Third
<1>5. /\ f \in [1..N -> 1..N] /\ \A j, k \in 1..N : j # k => f[j] # f[k]
      /\ \A j \in 1..N : \E k \in 1..N : f[k] = j
  OBVIOUS
<1>6. Stacked("so", "rule")
  BY BothStacked
<1> HIDE DEF f
<1>7. Listing(d, Up("so", "rule", "inited", 1..N))
  BY <1>3, <1>4, <1>5, <1>6, UnloadListing
<1> QED
  BY <1>3, <1>7 DEF d, RulesOwned

RuleOwned(k) == {<<"so", k>>, <<"rule", k>>, <<"inited", k>>}

(* And that is what Load takes.                                            *)
LEMMA RulesOwns == Owns(RulesLoad, RulesOwned)
<1> DEFINE q == RulesLoad
<1>1. Len(q) = 6 * N /\ 6 * N \in Nat
  BY RulesTable, ListLen, AcquisitionAssumption
<1>2. ASSUME NEW k \in 1..N, NEW m \in 1..6, NEW c, c = q[6 * (k - 1) + m]
      PROVE  /\ c.begins \cup c.gets \subseteq RuleOwned(k)
             /\ c.before \cup c.notes \subseteq RuleOwned(k)
             /\ m = 2 => <<"so", k>> \in c.gets
             /\ m = 4 => <<"rule", k>> \in c.gets
             /\ m = 6 => <<"inited", k>> \in c.begins
  <2>1. c = RuleLoad(k)[m]
    BY <1>2, RulesTable
  <2>2. m = 1 \/ m = 2 \/ m = 3 \/ m = 4 \/ m = 5 \/ m = 6
    OBVIOUS
  <2> QED
    BY <2>1, <2>2, RuleEntries DEF Trying, Entry, RuleOwned
<1>3. ASSUME NEW k \in 1..N PROVE RuleOwned(k) \subseteq RulesOwned
  BY DEF RuleOwned, RulesOwned, Up
<1>4. ASSUME NEW i \in 1..(6 * N)
      PROVE  /\ q[i].begins \cup q[i].gets \subseteq RulesOwned
             /\ q[i].before \cup q[i].notes \subseteq RulesOwned
  <2>1. PICK k \in 1..N, m \in 1..6 : i = 6 * (k - 1) + m
    BY Placed
  <2> HIDE DEF q
  <2>2. /\ q[i].begins \cup q[i].gets \subseteq RuleOwned(k)
        /\ q[i].before \cup q[i].notes \subseteq RuleOwned(k)
    BY <1>2, <2>1
  <2> QED
    BY <1>3, <2>2
<1>5. ASSUME NEW k \in 1..N, NEW m \in {2, 4, 6}
      PROVE  \E i \in 1..(6 * N) : i = 6 * (k - 1) + m
  <2>1. m \in 1..6
    OBVIOUS
  <2> QED
    BY <2>1, Place
<1>6. ASSUME NEW r \in RulesOwned
      PROVE  \E i \in 1..(6 * N) : r \in q[i].begins \cup q[i].gets
  <2>1. PICK k \in 1..N, kind \in {"so", "rule", "inited"} : r = <<kind, k>>
    BY DEF RulesOwned, Up
  <2> DEFINE m == IF kind = "so" THEN 2 ELSE IF kind = "rule" THEN 4 ELSE 6
  <2>2. m \in 1..6 /\ m \in {2, 4, 6}
    OBVIOUS
  <2>3. PICK i \in 1..(6 * N) : i = 6 * (k - 1) + m
    BY <1>5, <2>2
  <2> HIDE DEF q
  <2>4. /\ m = 2 => <<"so", k>> \in q[i].gets
        /\ m = 4 => <<"rule", k>> \in q[i].gets
        /\ m = 6 => <<"inited", k>> \in q[i].begins
    BY <1>2, <2>2, <2>3
  <2>5. kind = "so" \/ kind = "rule" \/ kind = "inited"
    OBVIOUS
  <2>6. r \in q[i].gets \/ r \in q[i].begins
    <3>1. CASE kind = "so"
      <4>1. m = 2
        BY <3>1
      <4>2. <<"so", k>> \in q[i].gets
        BY <2>4, <4>1
      <4> QED
        BY <2>1, <3>1, <4>2
    <3>2. CASE kind = "rule"
      <4>1. m = 4
        BY <3>2
      <4>2. <<"rule", k>> \in q[i].gets
        BY <2>4, <4>1
      <4> QED
        BY <2>1, <3>2, <4>2
    <3>3. CASE kind = "inited"
      BY <2>1, <2>4, <3>3
    <3> QED
      BY <2>5, <3>1, <3>2, <3>3
  <2> QED
    BY <2>6
<1> HIDE DEF q
<1>7. Owns(q, RulesOwned)
  BY <1>1, <1>4, <1>6 DEF Owns
<1> QED
  BY <1>7 DEF q

-----------------------------------------------------------------------------
(* BusProcess *)

(* The calls of BusProcess, by number.                                     *)
LEMMA BusTable ==
  /\ IsList(BusInit, 16 + 5 * N)
  /\ BusInit[1] = Making(<<"ivps", 1>>) /\ BusInit[2] = Making(<<"ivps", 2>>)
  /\ BusInit[3] = Plain /\ BusInit[4] = Destroying(Taking(One("arcface")))
  /\ BusInit[5] = Destroying(Making(One("qdrant"))) /\ BusInit[6] = Destroying(Plain)
  /\ BusInit[7] = Destroying(Making(One("face_server")))
  /\ BusInit[8] = Destroying(Making(One("push_pool")))
  /\ BusInit[9] = Destroying(Plain) /\ BusInit[10] = Destroying(Plain)
  /\ BusInit[11] = Destroying(Plain)
  /\ \A k \in 1..N, m \in 1..5 : BusInit[11 + (5 * (k - 1) + m)] = Destroying(LoadPart(k)[m])
  /\ \A m \in 1..5 : BusInit[11 + 5 * N + m] = Destroying(PluginLoad[m])
<1> DEFINE a == <<Making(<<"ivps", 1>>), Making(<<"ivps", 2>>), Plain>>
           b == HostInit
           d == ChainLoad
           e == PluginLoad
           p == <<Plain>>
           bp == b \o p
           bpd == bp \o d
           all == bpd \o e
           g == [i \in 1..Len(all) |-> Destroying(all[i])]
<1>1. IsList(a, 3) /\ IsList(b, 7) /\ IsList(p, 1) /\ IsList(e, 5)
  <2>1. IsList(a, 3) /\ IsList(p, 1)
    BY TupleList
  <2>2. IsList(b, 7)
    BY TupleList DEF HostInit
  <2>3. IsList(e, 5)
    BY TupleList DEF PluginLoad, Part
  <2> QED
    BY <2>1, <2>2, <2>3
<1>2. IsList(d, 5 * N) /\ \A k \in 1..N, m \in 1..5 : d[5 * (k - 1) + m] = LoadPart(k)[m]
  <2>1. d = [k \in 1..(5 * N) |-> LoadPart((k - 1) \div 5 + 1)[((k - 1) % 5) + 1]]
    BY DEF Repeated, ChainLoad
  <2> HIDE DEF d
  <2>2. d = [k \in 1..(5 * N) |-> d[k]]
    BY <2>1
  <2>3. IsList(d, 5 * N)
    BY <2>2, ListFun, AcquisitionAssumption
  <2>4. ASSUME NEW k \in 1..N, NEW m \in 1..5 PROVE d[5 * (k - 1) + m] = LoadPart(k)[m]
    <3>1. /\ 5 * (k - 1) + m \in 1..(5 * N)
          /\ (5 * (k - 1) + m - 1) \div 5 + 1 = k
          /\ ((5 * (k - 1) + m - 1) % 5) + 1 = m
      BY Place
    <3> QED
      BY <2>1, <3>1
  <2> QED
    BY <2>3, <2>4
<1>3. /\ a[1] = Making(<<"ivps", 1>>) /\ a[2] = Making(<<"ivps", 2>>) /\ a[3] = Plain
      /\ b[1] = Taking(One("arcface")) /\ b[2] = Making(One("qdrant")) /\ b[3] = Plain
      /\ b[4] = Making(One("face_server")) /\ b[5] = Making(One("push_pool"))
      /\ b[6] = Plain /\ b[7] = Plain /\ p[1] = Plain
  BY DEF HostInit
<1>4. BusInit = a \o g
  BY DEF BusInit
<1>5. Joined(bp, b, p, 7, 1)
  BY <1>1, ListConcat
<1>6. IsList(bp, 8)
  BY <1>5 DEF Joined
<1>7. Joined(bpd, bp, d, 8, 5 * N)
  BY <1>2, <1>6, ListConcat
<1>8. IsList(bpd, 8 + 5 * N)
  BY <1>7 DEF Joined
<1>9. Joined(all, bpd, e, 8 + 5 * N, 5)
  BY <1>1, <1>8, ListConcat
<1>10. IsList(all, 13 + 5 * N)
  <2>1. 8 + 5 * N + 5 = 13 + 5 * N
    BY AcquisitionAssumption
  <2> QED
    BY <1>9, <2>1 DEF Joined
<1>11. /\ g = [i \in 1..(13 + 5 * N) |-> g[i]]
       /\ \A i \in 1..(13 + 5 * N) : g[i] = Destroying(all[i])
  BY <1>10, ListLen
<1> HIDE DEF a, b, d, e, p, bp, bpd, all, g
<1>12. IsList(g, 13 + 5 * N)
  BY <1>11, ListFun, AcquisitionAssumption
<1>13. Joined(BusInit, a, g, 3, 13 + 5 * N)
  BY <1>1, <1>4, <1>12, ListConcat
<1>14. IsList(BusInit, 16 + 5 * N)
  <2>1. 3 + (13 + 5 * N) = 16 + 5 * N
    BY AcquisitionAssumption
  <2> QED
    BY <1>13, <2>1 DEF Joined
<1>15. BusInit[1] = a[1] /\ BusInit[2] = a[2] /\ BusInit[3] = a[3]
  BY <1>13 DEF Joined
<1>16. ASSUME NEW i \in 1..(13 + 5 * N) PROVE BusInit[3 + i] = Destroying(all[i])
  BY <1>11, <1>13 DEF Joined
<1>17. ASSUME NEW i \in 1..7 PROVE BusInit[3 + i] = Destroying(b[i])
  <2>1. i \in 1..(13 + 5 * N) /\ i \in 1..(8 + 5 * N) /\ i \in 1..8
    BY AcquisitionAssumption
  <2>2. all[i] = bpd[i] /\ bpd[i] = bp[i] /\ bp[i] = b[i]
    BY <1>5, <1>7, <1>9, <2>1 DEF Joined
  <2> QED
    BY <1>16, <2>1, <2>2
<1>18. BusInit[11] = Destroying(p[1])
  <2>1. 8 \in 1..(13 + 5 * N) /\ 8 \in 1..(8 + 5 * N) /\ 8 \in 1..8 /\ 7 + 1 = 8 /\ 3 + 8 = 11
    BY AcquisitionAssumption
  <2>2. all[8] = bpd[8] /\ bpd[8] = bp[8] /\ bp[7 + 1] = p[1]
    BY <1>5, <1>7, <1>9, <2>1 DEF Joined
  <2> QED
    BY <1>16, <2>1, <2>2
<1>19. ASSUME NEW k \in 1..N, NEW m \in 1..5
       PROVE  BusInit[11 + (5 * (k - 1) + m)] = Destroying(LoadPart(k)[m])
  <2> DEFINE j == 5 * (k - 1) + m
  <2>1. j \in 1..(5 * N)
    BY Place
  <2>2. d[j] = LoadPart(k)[m]
    BY <1>2
  <2> HIDE DEF j
  <2>3. 8 + j \in 1..(13 + 5 * N) /\ 8 + j \in 1..(8 + 5 * N) /\ 3 + (8 + j) = 11 + j
    BY <2>1, AcquisitionAssumption
  <2>4. all[8 + j] = bpd[8 + j] /\ bpd[8 + j] = d[j]
    BY <1>7, <1>9, <2>1, <2>3 DEF Joined
  <2>5. BusInit[11 + j] = Destroying(LoadPart(k)[m])
    BY <1>16, <2>2, <2>3, <2>4
  <2> QED
    BY <2>5 DEF j
<1>20. ASSUME NEW m \in 1..5 PROVE BusInit[11 + 5 * N + m] = Destroying(e[m])
  <2>1. /\ (8 + 5 * N) + m \in 1..(13 + 5 * N)
        /\ 3 + ((8 + 5 * N) + m) = 11 + 5 * N + m
    BY AcquisitionAssumption
  <2>2. all[(8 + 5 * N) + m] = e[m]
    BY <1>9 DEF Joined
  <2> QED
    BY <1>16, <2>1, <2>2
<1>21. /\ BusInit[4] = Destroying(b[1]) /\ BusInit[5] = Destroying(b[2])
       /\ BusInit[6] = Destroying(b[3]) /\ BusInit[7] = Destroying(b[4])
       /\ BusInit[8] = Destroying(b[5]) /\ BusInit[9] = Destroying(b[6])
       /\ BusInit[10] = Destroying(b[7])
  <2>1. /\ BusInit[3 + 1] = Destroying(b[1]) /\ BusInit[3 + 2] = Destroying(b[2])
        /\ BusInit[3 + 3] = Destroying(b[3]) /\ BusInit[3 + 4] = Destroying(b[4])
        /\ BusInit[3 + 5] = Destroying(b[5]) /\ BusInit[3 + 6] = Destroying(b[6])
        /\ BusInit[3 + 7] = Destroying(b[7])
    BY <1>17
  <2> QED
    BY <2>1
<1> QED
  BY <1>3, <1>14, <1>15, <1>18, <1>19, <1>20, <1>21 DEF e

(* A component's calls, when the clean-up of the whole object follows its  *)
(* own error path.                                                         *)
PartCalls(q, s, o, r) ==
  /\ Entry(Destroying(q[1]), {s}, {}, <<>>)
  /\ Entry(Destroying(q[2]), {}, {}, <<s>>)
  /\ Entry(Destroying(q[3]), {o}, {}, <<s>>)
  /\ Entry(Destroying(q[4]), {}, {}, <<o, s>>)
  /\ Destroying(q[5]).once = {} /\ Destroying(q[5]).before = {}
  /\ Destroying(q[5]).gets = {} /\ Destroying(q[5]).forgets = {}
  /\ Destroying(q[5]).begins = {r} /\ Destroying(q[5]).notes = {s, o, r}
  /\ Destroying(q[5]).undo = <<r, o, s>>
  /\ \A j \in 1..5 : Destroying(q[j]).destroys /\ Destroying(q[j]).wants = {}

(* Part is such a list of calls.                                           *)
LEMMA PartEntries ==
  ASSUME NEW so, NEW obj, NEW run, NEW k
  PROVE  PartCalls(Part(so, obj, run, k), <<so, k>>, <<obj, k>>, <<run, k>>)
<1> DEFINE s == <<so, k>>  o == <<obj, k>>  r == <<run, k>>
           q == Part(so, obj, run, k)
<1>1. /\ q[1] = [Plain EXCEPT !.gets = {s}] /\ q[2] = [Plain EXCEPT !.undo = <<s>>]
      /\ q[3] = [Plain EXCEPT !.gets = {o}, !.undo = <<s>>]
      /\ q[4] = [Plain EXCEPT !.undo = <<o, s>>]
      /\ q[5] = [Plain EXCEPT !.begins = {r}, !.notes = {s, o, r}, !.undo = <<r, o, s>>]
  BY DEF Part
<1> HIDE DEF s, o, r, q
<1>2. /\ Entry(Destroying(q[1]), {s}, {}, <<>>)
      /\ Destroying(q[1]).destroys /\ Destroying(q[1]).wants = {}
  BY <1>1 DEF Plain, Entry, Destroying
<1>3. /\ Entry(Destroying(q[2]), {}, {}, <<s>>)
      /\ Destroying(q[2]).destroys /\ Destroying(q[2]).wants = {}
  BY <1>1 DEF Plain, Entry, Destroying
<1>4. /\ Entry(Destroying(q[3]), {o}, {}, <<s>>)
      /\ Destroying(q[3]).destroys /\ Destroying(q[3]).wants = {}
  BY <1>1 DEF Plain, Entry, Destroying
<1>5. /\ Entry(Destroying(q[4]), {}, {}, <<o, s>>)
      /\ Destroying(q[4]).destroys /\ Destroying(q[4]).wants = {}
  BY <1>1 DEF Plain, Entry, Destroying
<1>6. /\ Destroying(q[5]).once = {} /\ Destroying(q[5]).before = {}
      /\ Destroying(q[5]).gets = {} /\ Destroying(q[5]).forgets = {}
      /\ Destroying(q[5]).begins = {r} /\ Destroying(q[5]).notes = {s, o, r}
      /\ Destroying(q[5]).undo = <<r, o, s>>
      /\ Destroying(q[5]).destroys /\ Destroying(q[5]).wants = {}
  BY <1>1 DEF Plain, Destroying
<1>7. \A j \in 1..5 : Destroying(q[j]).destroys /\ Destroying(q[j]).wants = {}
  <2>1. \A j \in 1..5 : j = 1 \/ j = 2 \/ j = 3 \/ j = 4 \/ j = 5
    OBVIOUS
  <2> QED
    BY <1>2, <1>3, <1>4, <1>5, <1>6, <2>1
<1>8. PartCalls(q, s, o, r)
  BY <1>2, <1>3, <1>4, <1>5, <1>6, <1>7 DEF PartCalls
<1> QED
  BY <1>8 DEF s, o, r, q

(* Call m + 1 of a component, with n noted and held before its first call. *)
Partly(n, m, s, o) == n \cup When(m > 0, s) \cup When(m > 2, o)

(* x, y and z, taken in this order, on top of n: nothing of n needs them.  *)
Loadable(n, x, y, z) ==
  /\ x # y /\ x # z /\ y # z
  /\ x \notin n /\ y \notin n /\ z \notin n
  /\ \A r \in n : x \notin Needs(r) /\ y \notin Needs(r) /\ z \notin Needs(r)
  /\ Listing(<<x>>, {x}) /\ Listing(<<y, x>>, {y, x}) /\ Listing(<<z, y, x>>, {z, y, x})

(* Each of the calls leaves the object whole, or what it took released.    *)
LEMMA BusPart ==
  ASSUME NEW q, NEW x, NEW y, NEW z, PartCalls(q, x, y, z),
         NEW m \in 0..4, NEW n, NEW i, NEW c, c = Destroying(q[m + 1]), Loadable(n, x, y, z),
         m < 4 => Inside("bus", i + 1, Partly(n, m + 1, x, y), n),
         m = 4 => Inside("bus", i + 1, n \cup {x, y, z}, n \cup {x, y, z})
  PROVE  CallOK("bus", c, i, Partly(n, m, x, y), n)
<1> DEFINE h == Partly(n, m, x, y)
<1>1. c.destroys /\ c.wants = {}
  <2>1. m + 1 \in 1..5
    OBVIOUS
  <2> QED
    BY <2>1 DEF PartCalls
<1>2. /\ m = 0 => Entry(c, {x}, {}, <<>>)
      /\ m = 1 => Entry(c, {}, {}, <<x>>)
      /\ m = 2 => Entry(c, {y}, {}, <<x>>)
      /\ m = 3 => Entry(c, {}, {}, <<y, x>>)
      /\ m = 4 => /\ c.once = {} /\ c.before = {} /\ c.gets = {} /\ c.forgets = {}
                  /\ c.begins = {z} /\ c.notes = {x, y, z} /\ c.undo = <<z, y, x>>
  <2>1. /\ m = 0 => c = Destroying(q[1])
        /\ m = 1 => c = Destroying(q[2])
        /\ m = 2 => c = Destroying(q[3])
        /\ m = 3 => c = Destroying(q[4])
        /\ m = 4 => c = Destroying(q[5])
    OBVIOUS
  <2> QED
    BY <2>1 DEF PartCalls
<1>3. /\ Loadable(n, x, y, z)
      /\ m < 4 => Inside("bus", i + 1, Partly(n, m + 1, x, y), n)
      /\ m = 4 => Inside("bus", i + 1, n \cup {x, y, z}, n \cup {x, y, z})
  OBVIOUS
<1>4. After("bus", c, n, n)
  BY <1>1 DEF After, Rest
<1>5. Listing(<<>>, {}) /\ n \cup {} = n
  BY ListingTuple
<1>6. CASE m = 0
  <2>1. h = n /\ Partly(n, m + 1, x, y) = h \cup {x} /\ h \ {} = n
    BY <1>6 DEF Partly, When
  <2>2. Inside("bus", i + 1, h \cup {x}, n \cup {})
    <3>1. Inside("bus", i + 1, Partly(n, m + 1, x, y), n)
      BY <1>3, <1>6
    <3> QED
      BY <1>5, <2>1, <3>1
  <2> HIDE DEF h
  <2>3. Tries("bus", c, i, h, n, {x}, {}, <<>>, {})
    BY <1>2, <1>4, <1>5, <1>6, <2>1, <2>2 DEF Tries
  <2> QED
    BY <2>3, TryingRule DEF h
<1>7. CASE m = 1
  <2>1. h = n \cup {x} /\ Partly(n, m + 1, x, y) = h \cup {}
    BY <1>7 DEF Partly, When
  <2>2. Inside("bus", i + 1, h \cup {}, n \cup {})
    <3>1. Inside("bus", i + 1, Partly(n, m + 1, x, y), n)
      BY <1>3, <1>7
    <3> QED
      BY <1>5, <2>1, <3>1
  <2> HIDE DEF h
  <2>3. h \ {x} = n
    BY <1>3, <2>1 DEF Loadable
  <2>4. \A a \in {x}, r \in n : a \notin Needs(r)
    BY <1>3 DEF Loadable
  <2>5. Entry(c, {}, {}, <<x>>) /\ Listing(<<x>>, {x}) /\ {x} \subseteq h
    BY <1>2, <1>3, <1>7, <2>1 DEF Loadable
  <2>6. Tries("bus", c, i, h, n, {}, {}, <<x>>, {x})
    BY <1>4, <2>2, <2>3, <2>4, <2>5 DEF Tries
  <2> QED
    BY <2>6, TryingRule DEF h
<1>8. CASE m = 2
  <2>1. h = n \cup {x} /\ Partly(n, m + 1, x, y) = h \cup {y}
    BY <1>8 DEF Partly, When
  <2>2. Inside("bus", i + 1, h \cup {y}, n \cup {})
    <3>1. Inside("bus", i + 1, Partly(n, m + 1, x, y), n)
      BY <1>3, <1>8
    <3> QED
      BY <1>5, <2>1, <3>1
  <2> HIDE DEF h
  <2>3. h \ {x} = n
    BY <1>3, <2>1 DEF Loadable
  <2>4. \A a \in {x}, r \in n : a \notin Needs(r)
    BY <1>3 DEF Loadable
  <2>5. Entry(c, {y}, {}, <<x>>) /\ Listing(<<x>>, {x}) /\ {x} \subseteq h
    BY <1>2, <1>3, <1>8, <2>1 DEF Loadable
  <2>6. Tries("bus", c, i, h, n, {y}, {}, <<x>>, {x})
    BY <1>4, <2>2, <2>3, <2>4, <2>5 DEF Tries
  <2> QED
    BY <2>6, TryingRule DEF h
<1>9. CASE m = 3
  <2>1. h = n \cup {y, x} /\ Partly(n, m + 1, x, y) = h \cup {}
    BY <1>9 DEF Partly, When
  <2>2. Inside("bus", i + 1, h \cup {}, n \cup {})
    <3>1. Inside("bus", i + 1, Partly(n, m + 1, x, y), n)
      BY <1>3, <1>9
    <3> QED
      BY <1>5, <2>1, <3>1
  <2> HIDE DEF h
  <2>3. h \ {y, x} = n
    BY <1>3, <2>1 DEF Loadable
  <2>4. \A a \in {y, x}, r \in n : a \notin Needs(r)
    BY <1>3 DEF Loadable
  <2>5. Entry(c, {}, {}, <<y, x>>) /\ Listing(<<y, x>>, {y, x}) /\ {y, x} \subseteq h
    BY <1>2, <1>3, <1>9, <2>1 DEF Loadable
  <2>6. Tries("bus", c, i, h, n, {}, {}, <<y, x>>, {y, x})
    BY <1>4, <2>2, <2>3, <2>4, <2>5 DEF Tries
  <2> QED
    BY <2>6, TryingRule DEF h
<1>10. CASE m = 4
  <2>1. h = n \cup {y, x}
    BY <1>10 DEF Partly, When
  <2> HIDE DEF h
  <2>2. (h \cup {z}) \ {z, y, x} = n
    BY <1>3, <2>1 DEF Loadable
  <2>3. Inside("bus", i + 1, h \cup {z} \cup {}, n \cup {} \cup {x, y, z})
    <3>1. h \cup {z} \cup {} = n \cup {x, y, z} /\ n \cup {} \cup {x, y, z} = n \cup {x, y, z}
      BY <2>1
    <3> QED
      BY <1>3, <1>10, <3>1
  <2>4. /\ c.once = {} /\ c.before = {} /\ c.gets = {} /\ c.forgets = {}
        /\ c.begins = {z} /\ c.notes = {x, y, z} /\ c.undo = <<z, y, x>>
    BY <1>2, <1>10
  <2>5. \A r \in n : x \notin Needs(r) /\ y \notin Needs(r) /\ z \notin Needs(r)
    BY <1>3 DEF Loadable
  <2>6. Works("bus", c, i, h, n, {z, y, x})
    <3>1. Listing(c.undo, {z, y, x}) /\ {z, y, x} \subseteq h \cup c.begins
      BY <1>3, <2>1, <2>4 DEF Loadable
    <3>2. n \cup c.before = n /\ (h \cup c.begins) \ {z, y, x} = n
      BY <2>2, <2>4
    <3>3. Inside("bus", i + 1, h \cup c.begins \cup c.gets, n \cup c.before \cup c.notes)
      BY <2>3, <2>4
    <3>4. \A a \in {z, y, x}, r \in (h \cup c.begins) \ {z, y, x} : a \notin Needs(r)
      BY <2>5, <3>2
    <3>5. After("bus", c, (h \cup c.begins) \ {z, y, x}, n \cup c.before)
      BY <1>4, <3>2
    <3> QED
      BY <2>4, <3>1, <3>3, <3>4, <3>5 DEF Works
  <2> QED
    BY <2>6, CallRule DEF h
<1> QED
  BY <1>6, <1>7, <1>8, <1>9, <1>10 DEF h

(* The calls before the chain.                                             *)
LEMMA BusOpening ==
  ASSUME NEW i \in 1..11
  PROVE  /\ Simple(BusInit[i])
         /\ Services(i + 1) = Services(i) \cup BusInit[i].gets
         /\ BusInit[i].fails => BusInit[i].destroys \/ (i = 3 /\ BusInit[i] = Plain)
<1> DEFINE c == BusInit[i]
<1>1. CASE i = 1
  <2>1. c = Making(<<"ivps", 1>>)
    BY <1>1, BusTable
  <2>2. Simple(c) /\ c.gets = {<<"ivps", 1>>} /\ ~c.fails
    BY <2>1, MakingFields
  <2> QED
    BY <1>1, <2>2 DEF Services, When
<1>2. CASE i = 2
  <2>1. c = Making(<<"ivps", 2>>)
    BY <1>2, BusTable
  <2>2. Simple(c) /\ c.gets = {<<"ivps", 2>>} /\ ~c.fails
    BY <2>1, MakingFields
  <2> QED
    BY <1>2, <2>2 DEF Services, When
<1>3. CASE i = 3
  <2>1. c = Plain /\ Simple(c) /\ c.gets = {}
    BY <1>3, BusTable, PlainFields
  <2> QED
    BY <1>3, <2>1 DEF Services, When
<1>4. CASE i = 4
  <2>1. c = Destroying(Taking(One("arcface")))
    BY <1>4, BusTable
  <2>2. Simple(c) /\ c.gets = {One("arcface")} /\ c.destroys
    BY <2>1, DestroyingFields
  <2> QED
    BY <1>4, <2>2 DEF Services, When
<1>5. CASE i = 5
  <2>1. c = Destroying(Making(One("qdrant")))
    BY <1>5, BusTable
  <2>2. Simple(c) /\ c.gets = {One("qdrant")} /\ c.destroys
    BY <2>1, MakingFields
  <2> QED
    BY <1>5, <2>2 DEF Services, When
<1>6. CASE i = 7
  <2>1. c = Destroying(Making(One("face_server")))
    BY <1>6, BusTable
  <2>2. Simple(c) /\ c.gets = {One("face_server")} /\ c.destroys
    BY <2>1, MakingFields
  <2> QED
    BY <1>6, <2>2 DEF Services, When
<1>7. CASE i = 8
  <2>1. c = Destroying(Making(One("push_pool")))
    BY <1>7, BusTable
  <2>2. Simple(c) /\ c.gets = {One("push_pool")} /\ c.destroys
    BY <2>1, MakingFields
  <2> QED
    BY <1>7, <2>2 DEF Services, When
<1>8. CASE i \in {6, 9, 10, 11}
  <2>1. c = Destroying(Plain)
    BY <1>8, BusTable
  <2>2. Simple(c) /\ c.gets = {} /\ c.destroys
    BY <2>1, DestroyingFields
  <2>3. Services(i + 1) = Services(i)
    BY <1>8 DEF Services, When
  <2> QED
    BY <2>2, <2>3
<1> QED
  BY <1>1, <1>2, <1>3, <1>4, <1>5, <1>6, <1>7, <1>8

(* Each keeps the services recorded.                                       *)
LEMMA BusOpens ==
  ASSUME NEW i \in 1..11, NEW h, NEW n, h = n, n = Services(i)
  PROVE  CallOK("bus", BusInit[i], i, h, n)
<1> DEFINE c == BusInit[i]
<1>1. /\ Simple(c) /\ Services(i + 1) = n \cup c.gets
      /\ c.fails => c.destroys \/ (i = 3 /\ c = Plain)
  BY BusOpening
<1> HIDE DEF c
<1>2. Rest("bus", h, n)
  BY DEF Rest
<1>3. c.fails => After("bus", c, h, n)
  BY <1>1, <1>2, PlainFields DEF After, Over, RetryAt
<1>4. BusAt(i + 1, n \cup c.gets, n \cup c.gets)
  <2>1. CASE i < 11
    <3>1. i + 1 \in 1..11
      BY <2>1
    <3> QED
      BY <1>1, <3>1 DEF BusAt
  <2>2. CASE i = 11
    <3>1. Services(i + 1) = AllServices
      BY <2>2 DEF Services, AllServices, When
    <3>2. Lower(1) = {} /\ Processors(Lower(1)) = {}
      BY UpNone DEF Lower, Processors
    <3>3. /\ 1 \in 1..N /\ 0 \in 0..4 /\ i + 1 = 11 + (5 * (1 - 1) + (0 + 1))
          /\ ~(0 > 0) /\ ~(0 > 2)
      BY <2>2, AcquisitionAssumption
    <3>4. n \cup c.gets = AllServices \cup Processors(Lower(1))
      BY <1>1, <3>1, <3>2
    <3>5. n \cup c.gets = (n \cup c.gets) \cup When(0 > 0, <<"lib", 1>>)
                            \cup When(0 > 2, <<"processor", 1>>)
      BY <3>3 DEF When
    <3> QED
      BY <3>3, <3>4, <3>5 DEF BusAt
  <2> QED
    BY <2>1, <2>2
<1>5. CallOK("bus", c, i, h, n)
  <2>1. Inside("bus", i + 1, h \cup c.gets, n \cup c.gets)
    BY <1>4 DEF Inside
  <2> QED
    BY <1>1, <1>3, <2>1, SimpleCall
<1> QED
  BY <1>5 DEF c

(* The services use each other, and nothing that is loaded.                *)
Used == {One("qdrant"), One("face_server"), One("arcface")} \cup All("ivps")

(* Nothing loaded is needed by a service.                                  *)
LEMMA ServicesUse ==
  \A r \in AllServices : Needs(r) \subseteq Used
<1>1. /\ Needs(<<"ivps", 1>>) = {} /\ Needs(<<"ivps", 2>>) = {}
      /\ Needs(One("arcface")) = {} /\ Needs(One("qdrant")) = {}
      /\ Needs(One("face_server")) = {} /\ Needs(One("push_pool")) = Used
  BY NeedsNothing, NeedsSome DEF One, Used
<1> QED
  BY <1>1 DEF AllServices

(* A processor needs its own library only.                                 *)
LEMMA ProcessorsUse ==
  ASSUME NEW S, NEW r \in Processors(S)
  PROVE  \E k \in S : /\ r \in {<<"lib", k>>, <<"processor", k>>, <<"inited", k>>}
                      /\ Needs(r) \subseteq {<<"lib", k>>, <<"processor", k>>, <<"rule", k>>}
<1>1. PICK k \in S, kind \in {"lib", "processor", "inited"} : r = <<kind, k>>
  BY DEF Processors, Up
<1>2. /\ Needs(<<"lib", k>>) = {} /\ Needs(<<"processor", k>>) = {<<"lib", k>>}
      /\ Needs(<<"inited", k>>) = {<<"processor", k>>, <<"rule", k>>}
  BY NeedsNothing, NeedsSome
<1> QED
  BY <1>1, <1>2

(* Services and libraries are not the same.                                *)
LEMMA UsedKinds ==
  ASSUME NEW x \in AllServices \cup Used
  PROVE  x[1] \in {"ivps", "arcface", "qdrant", "face_server", "push_pool"}
BY DEF AllServices, Used, One, All

(* The k-th processor comes on top of those before it.                     *)
LEMMA ChainLoadable ==
  ASSUME NEW k \in 1..N
  PROVE  Loadable(AllServices \cup Processors(Lower(k)),
                  <<"lib", k>>, <<"processor", k>>, <<"inited", k>>)
<1> DEFINE x == <<"lib", k>>  y == <<"processor", k>>  z == <<"inited", k>>
           n == AllServices \cup Processors(Lower(k))
<1>1. Listing(<<x>>, {x}) /\ Listing(<<y, x>>, {y, x}) /\ Listing(<<z, y, x>>, {z, y, x})
  <2>1. Needs(x) = {} /\ Needs(y) = {x}
    BY NeedsNothing, NeedsSome
  <2>2. z \notin Needs(z)
    <3>1. Needs(z) = {<<"processor", k>>, <<"rule", k>>}
      BY NeedsSome
    <3> QED
      BY <3>1
  <2> QED
    BY <2>1, <2>2, UnpartLists
<1>2. ASSUME NEW u \in {x, y, z}, NEW r \in n PROVE u # r /\ u \notin Needs(r)
  <2>1. u[1] \in {"lib", "processor", "inited"} /\ u[2] = k
    OBVIOUS
  <2>2. CASE r \in AllServices
    BY <2>1, <2>2, ServicesUse, UsedKinds
  <2>3. CASE r \in Processors(Lower(k))
    <3>1. PICK j \in Lower(k) :
            /\ r \in {<<"lib", j>>, <<"processor", j>>, <<"inited", j>>}
            /\ Needs(r) \subseteq {<<"lib", j>>, <<"processor", j>>, <<"rule", j>>}
      BY <2>3, ProcessorsUse
    <3>2. j # k
      BY DEF Lower
    <3> QED
      BY <2>1, <3>1, <3>2
  <2> QED
    BY <2>2, <2>3
<1>3. x # y /\ x # z /\ y # z
  OBVIOUS
<1> HIDE DEF x, y, z, n
<1>4. Loadable(n, x, y, z)
  BY <1>1, <1>2, <1>3 DEF Loadable
<1> QED
  BY <1>4 DEF x, y, z, n

(* The plugin comes on top of the chain.                                   *)
LEMMA PluginLoadable ==
  Loadable(AllServices \cup Processors(1..N), One("so"), One("plugin"), One("active"))
<1> DEFINE x == <<"so", 1>>  y == <<"plugin", 1>>  z == <<"active", 1>>
           n == AllServices \cup Processors(1..N)
<1>1. Listing(<<x>>, {x}) /\ Listing(<<y, x>>, {y, x}) /\ Listing(<<z, y, x>>, {z, y, x})
  <2>1. Needs(x) = {} /\ Needs(y) = {x}
    BY NeedsNothing, NeedsSome
  <2>2. z \notin Needs(z)
    <3>1. Needs(z) = {<<"plugin", 1>>, One("push_pool")} \cup Used
      <4>1. Needs(z) = {<<"plugin", 1>>, One("push_pool"), One("qdrant"), One("face_server"),
                        One("arcface")} \cup All("ivps")
        BY NeedsSome
      <4> QED
        BY <4>1 DEF Used
    <3> QED
      BY <3>1 DEF Used, One, All
  <2> QED
    BY <2>1, <2>2, UnpartLists
<1>2. ASSUME NEW u \in {x, y, z}, NEW r \in n PROVE u # r /\ u \notin Needs(r)
  <2>1. u[1] \in {"so", "plugin", "active"}
    OBVIOUS
  <2>2. CASE r \in AllServices
    BY <2>1, <2>2, ServicesUse, UsedKinds
  <2>3. CASE r \in Processors(1..N)
    <3>1. PICK j \in 1..N :
            /\ r \in {<<"lib", j>>, <<"processor", j>>, <<"inited", j>>}
            /\ Needs(r) \subseteq {<<"lib", j>>, <<"processor", j>>, <<"rule", j>>}
      BY <2>3, ProcessorsUse
    <3> QED
      BY <2>1, <3>1
  <2> QED
    BY <2>2, <2>3
<1>3. x # y /\ x # z /\ y # z
  OBVIOUS
<1>5. x = One("so") /\ y = One("plugin") /\ z = One("active")
  BY DEF One
<1> HIDE DEF x, y, z, n
<1>4. Loadable(n, x, y, z)
  BY <1>1, <1>2, <1>3 DEF Loadable
<1> QED
  BY <1>4, <1>5 DEF n

(* The calls of PostProcessorChain::Load.                                  *)
LEMMA BusChain ==
  ASSUME NEW k \in 1..N, NEW m \in 0..4, NEW i, i = 11 + (5 * (k - 1) + (m + 1)), NEW n,
         n = AllServices \cup Processors(Lower(k))
  PROVE  CallOK("bus", BusInit[i], i, Partly(n, m, <<"lib", k>>, <<"processor", k>>), n)
<1> DEFINE x == <<"lib", k>>  y == <<"processor", k>>  z == <<"inited", k>>
           q == LoadPart(k)  c == BusInit[i]
<1>1. c = Destroying(q[m + 1])
  <2>1. m + 1 \in 1..5
    OBVIOUS
  <2> QED
    BY <2>1, BusTable
<1>2. PartCalls(q, x, y, z) /\ Loadable(n, x, y, z)
  BY PartEntries, ChainLoadable DEF LoadPart
<1> HIDE DEF q, c
<1>3. m < 4 => Inside("bus", i + 1, Partly(n, m + 1, x, y), n)
  <2>1. m < 4 => m + 1 \in 0..4 /\ i + 1 = 11 + (5 * (k - 1) + ((m + 1) + 1))
    BY AcquisitionAssumption
  <2> QED
    BY <2>1 DEF Inside, BusAt, Partly
<1>4. ASSUME m = 4 PROVE Inside("bus", i + 1, n \cup {x, y, z}, n \cup {x, y, z})
  <2> DEFINE u == n \cup {x, y, z}
  <2>1. \A S : S = Lower(k) \cup {k} => u = AllServices \cup Processors(S)
    BY UpGrows DEF Processors
  <2>2. CASE k = N
    <3>1. 1..N = Lower(k) \cup {k} /\ 0 \in 0..4 /\ ~(0 > 0) /\ ~(0 > 2)
          /\ i + 1 = 11 + 5 * N + (0 + 1)
      BY <1>4, <2>2, AcquisitionAssumption DEF Lower
    <3>2. u = AllServices \cup Processors(1..N)
      BY <2>1, <3>1
    <3>3. u = u \cup When(0 > 0, One("so")) \cup When(0 > 2, One("plugin"))
      BY <3>1 DEF When
    <3> HIDE DEF u
    <3>4. BusAt(i + 1, u, u)
      BY <3>1, <3>2, <3>3 DEF BusAt
    <3> QED
      BY <3>4 DEF Inside, u
  <2>3. CASE k # N
    <3>1. Lower(k + 1) = Lower(k) \cup {k} /\ 0 \in 0..4 /\ ~(0 > 0) /\ ~(0 > 2)
          /\ k + 1 \in 1..N /\ i + 1 = 11 + (5 * ((k + 1) - 1) + (0 + 1))
      BY <1>4, <2>3, AcquisitionAssumption DEF Lower
    <3>2. u = AllServices \cup Processors(Lower(k + 1))
      BY <2>1, <3>1
    <3>3. u = u \cup When(0 > 0, <<"lib", k + 1>>) \cup When(0 > 2, <<"processor", k + 1>>)
      BY <3>1 DEF When
    <3> HIDE DEF u
    <3>4. BusAt(i + 1, u, u)
      BY <3>1, <3>2, <3>3 DEF BusAt
    <3> QED
      BY <3>4 DEF Inside, u
  <2> QED
    BY <2>2, <2>3
<1> HIDE DEF x, y, z
<1>5. CallOK("bus", c, i, Partly(n, m, x, y), n)
  BY <1>1, <1>2, <1>3, <1>4, BusPart
<1> QED
  BY <1>5 DEF c, x, y

(* The calls of PluginManager::Load.                                       *)
LEMMA BusPlugin ==
  ASSUME NEW m \in 0..4, NEW i, i = 11 + 5 * N + (m + 1), NEW n,
         n = AllServices \cup Processors(1..N)
  PROVE  CallOK("bus", BusInit[i], i, Partly(n, m, One("so"), One("plugin")), n)
<1> DEFINE x == One("so")  y == One("plugin")  z == One("active")
           q == PluginLoad  c == BusInit[i]
<1>1. c = Destroying(q[m + 1])
  <2>1. m + 1 \in 1..5
    OBVIOUS
  <2> QED
    BY <2>1, BusTable
<1>2. PartCalls(q, x, y, z) /\ Loadable(n, x, y, z)
  <2>1. PartCalls(q, <<"so", 1>>, <<"plugin", 1>>, <<"active", 1>>)
    BY PartEntries DEF PluginLoad
  <2> QED
    BY <2>1, PluginLoadable DEF One
<1> HIDE DEF q, c
<1>3. m < 4 => Inside("bus", i + 1, Partly(n, m + 1, x, y), n)
  <2>1. m < 4 => m + 1 \in 0..4 /\ i + 1 = 11 + 5 * N + ((m + 1) + 1)
    BY AcquisitionAssumption
  <2> QED
    BY <2>1 DEF Inside, BusAt, Partly
<1>4. ASSUME m = 4 PROVE Inside("bus", i + 1, n \cup {x, y, z}, n \cup {x, y, z})
  <2>1. i + 1 = 17 + 5 * N
    BY <1>4, AcquisitionAssumption
  <2>2. n \cup {x, y, z} = AllServices \cup Processors(1..N) \cup PluginParts
    BY DEF PluginParts
  <2> QED
    BY <2>1, <2>2 DEF Inside, BusAt
<1> HIDE DEF x, y, z
<1>5. CallOK("bus", c, i, Partly(n, m, x, y), n)
  BY <1>1, <1>2, <1>3, <1>4, BusPart
<1> QED
  BY <1>5 DEF c, x, y

(* Every call of BusProcess keeps its records right.                       *)
LEMMA BusCalls ==
  ASSUME NEW i \in 1..(16 + 5 * N), NEW h, NEW n, BusAt(i, h, n)
  PROVE  CallOK("bus", BusInit[i], i, h, n)
<1>1. CASE i \in 1..11 /\ h = n /\ n = Services(i)
  BY <1>1, BusOpens
<1>2. ASSUME NEW c \in 1..N, NEW m \in 0..4, i = 11 + (5 * (c - 1) + (m + 1)),
             n = AllServices \cup Processors(Lower(c)),
             h = n \cup When(m > 0, <<"lib", c>>) \cup When(m > 2, <<"processor", c>>)
      PROVE  CallOK("bus", BusInit[i], i, h, n)
  <2>1. h = Partly(n, m, <<"lib", c>>, <<"processor", c>>)
    BY <1>2 DEF Partly
  <2> QED
    BY <1>2, <2>1, BusChain
<1>3. ASSUME NEW m \in 0..4, i = 11 + 5 * N + (m + 1),
             n = AllServices \cup Processors(1..N),
             h = n \cup When(m > 0, One("so")) \cup When(m > 2, One("plugin"))
      PROVE  CallOK("bus", BusInit[i], i, h, n)
  <2>1. h = Partly(n, m, One("so"), One("plugin"))
    BY <1>3 DEF Partly
  <2> QED
    BY <1>3, <2>1, BusPlugin
<1>4. i # 17 + 5 * N
  BY AcquisitionAssumption
<1> QED
  BY <1>1, <1>2, <1>3, <1>4 DEF BusAt

(* After the last, all that is held is recorded.                           *)
LEMMA BusEnds ==
  ASSUME NEW h, NEW n, BusAt(17 + 5 * N, h, n)
  PROVE  Rest("bus", h, n)
<1>1. 17 + 5 * N \notin 1..11
  BY AcquisitionAssumption
<1>2. \A c \in 1..N, m \in 0..4 : 17 + 5 * N # 11 + (5 * (c - 1) + (m + 1))
  BY AcquisitionAssumption
<1>3. \A m \in 0..4 : 17 + 5 * N # 11 + 5 * N + (m + 1)
  BY AcquisitionAssumption
<1>4. h = n
  BY <1>1, <1>2, <1>3 DEF BusAt
<1> QED
  BY <1>4 DEF Rest

(* Before the first, nothing is held.                                      *)
LEMMA BusStarts == BusAt(1, {}, {})
<1>1. Services(1) = {} /\ 1 \in 1..11
  BY DEF Services, When
<1> QED
  BY <1>1 DEF BusAt

BusOwned == AllServices \cup Processors(1..N) \cup PluginParts

(* What a component's calls take and note.                                 *)
LEMMA PartOwns ==
  ASSUME NEW q, NEW x, NEW y, NEW z, PartCalls(q, x, y, z), NEW m \in 1..5,
         NEW c, c = Destroying(q[m])
  PROVE  /\ c.begins \cup c.gets \subseteq {x, y, z}
         /\ c.before \cup c.notes \subseteq {x, y, z}
         /\ m = 1 => x \in c.gets
         /\ m = 3 => y \in c.gets
         /\ m = 5 => z \in c.begins
<1>1. m = 1 \/ m = 2 \/ m = 3 \/ m = 4 \/ m = 5
  OBVIOUS
<1> QED
  BY <1>1 DEF PartCalls, Entry

(* What the calls of a BusProcess take and note.                           *)
LEMMA BusOwns == Owns(BusInit, BusOwned)
<1> DEFINE b == BusInit
<1>1. Len(b) = 16 + 5 * N /\ 16 + 5 * N \in Nat
  BY BusTable, ListLen, AcquisitionAssumption
<1>2. /\ \A k \in 1..N, m \in 1..5 : b[11 + (5 * (k - 1) + m)] = Destroying(LoadPart(k)[m])
      /\ \A m \in 1..5 : b[11 + 5 * N + m] = Destroying(PluginLoad[m])
  BY BusTable
<1>3. /\ \A k : PartCalls(LoadPart(k), <<"lib", k>>, <<"processor", k>>, <<"inited", k>>)
      /\ PartCalls(PluginLoad, One("so"), One("plugin"), One("active"))
  BY PartEntries DEF LoadPart, PluginLoad, One
<1>4. /\ b[1].gets = {<<"ivps", 1>>} /\ b[2].gets = {<<"ivps", 2>>}
      /\ b[4].gets = {One("arcface")} /\ b[5].gets = {One("qdrant")}
      /\ b[7].gets = {One("face_server")} /\ b[8].gets = {One("push_pool")}
  <2>1. /\ b[1] = Making(<<"ivps", 1>>) /\ b[2] = Making(<<"ivps", 2>>)
        /\ b[4] = Destroying(Taking(One("arcface"))) /\ b[5] = Destroying(Making(One("qdrant")))
        /\ b[7] = Destroying(Making(One("face_server")))
        /\ b[8] = Destroying(Making(One("push_pool")))
    BY BusTable
  <2> HIDE DEF b
  <2> QED
    BY <2>1, MakingFields, DestroyingFields
<1>5. ASSUME NEW i \in 1..11
      PROVE  /\ b[i].begins \cup b[i].gets \subseteq BusOwned
             /\ b[i].before \cup b[i].notes \subseteq BusOwned
  <2>1. Simple(b[i]) /\ Services(i + 1) = Services(i) \cup b[i].gets
    BY BusOpening
  <2>2. Services(i + 1) \subseteq AllServices
    BY DEF Services, AllServices, When
  <2> HIDE DEF b
  <2>3. b[i].gets \subseteq AllServices
    BY <2>1, <2>2
  <2> QED
    BY <2>1, <2>3 DEF Simple, BusOwned
<1> HIDE DEF b
<1>6. ASSUME NEW k \in 1..N
      PROVE  {<<"lib", k>>, <<"processor", k>>, <<"inited", k>>} \subseteq BusOwned
  BY DEF BusOwned, Processors, Up
<1>7. ASSUME NEW k \in 1..N, NEW m \in 1..5, NEW i, i = 11 + (5 * (k - 1) + m)
      PROVE  /\ b[i].begins \cup b[i].gets \subseteq BusOwned
             /\ b[i].before \cup b[i].notes \subseteq BusOwned
             /\ m = 1 => <<"lib", k>> \in b[i].gets
             /\ m = 3 => <<"processor", k>> \in b[i].gets
             /\ m = 5 => <<"inited", k>> \in b[i].begins
  <2> DEFINE x == <<"lib", k>>  y == <<"processor", k>>  z == <<"inited", k>>
  <2>1. b[i] = Destroying(LoadPart(k)[m]) /\ PartCalls(LoadPart(k), x, y, z)
    BY <1>2, <1>3, <1>7
  <2>2. {x, y, z} \subseteq BusOwned
    BY <1>6
  <2> HIDE DEF x, y, z
  <2>3. /\ b[i].begins \cup b[i].gets \subseteq {x, y, z}
        /\ b[i].before \cup b[i].notes \subseteq {x, y, z}
        /\ m = 1 => x \in b[i].gets
        /\ m = 3 => y \in b[i].gets
        /\ m = 5 => z \in b[i].begins
    <3> DEFINE c == b[i]  q == LoadPart(k)
    <3>1. PartCalls(q, x, y, z) /\ c = Destroying(q[m])
      BY <2>1
    <3> HIDE DEF c, q
    <3>2. /\ c.begins \cup c.gets \subseteq {x, y, z}
          /\ c.before \cup c.notes \subseteq {x, y, z}
          /\ m = 1 => x \in c.gets
          /\ m = 3 => y \in c.gets
          /\ m = 5 => z \in c.begins
      BY <3>1, PartOwns
    <3> QED
      BY <3>2 DEF c
  <2>4. /\ b[i].begins \cup b[i].gets \subseteq BusOwned
        /\ b[i].before \cup b[i].notes \subseteq BusOwned
    BY <2>2, <2>3
  <2> QED
    BY <2>3, <2>4 DEF x, y, z
<1>8. ASSUME NEW m \in 1..5, NEW i, i = 11 + 5 * N + m
      PROVE  /\ b[i].begins \cup b[i].gets \subseteq BusOwned
             /\ b[i].before \cup b[i].notes \subseteq BusOwned
             /\ m = 1 => One("so") \in b[i].gets
             /\ m = 3 => One("plugin") \in b[i].gets
             /\ m = 5 => One("active") \in b[i].begins
  <2>1. b[i] = Destroying(PluginLoad[m])
    BY <1>2, <1>8
  <2>2. /\ b[i].begins \cup b[i].gets \subseteq PluginParts
        /\ b[i].before \cup b[i].notes \subseteq PluginParts
        /\ m = 1 => One("so") \in b[i].gets
        /\ m = 3 => One("plugin") \in b[i].gets
        /\ m = 5 => One("active") \in b[i].begins
    <3> DEFINE c == b[i]  q == PluginLoad
               x == One("so")  y == One("plugin")  z == One("active")
    <3>1. PartCalls(q, x, y, z) /\ c = Destroying(q[m])
      BY <1>3, <2>1
    <3> HIDE DEF c, q, x, y, z
    <3>2. /\ c.begins \cup c.gets \subseteq {x, y, z}
          /\ c.before \cup c.notes \subseteq {x, y, z}
          /\ m = 1 => x \in c.gets
          /\ m = 3 => y \in c.gets
          /\ m = 5 => z \in c.begins
      BY <3>1, PartOwns, SMTT(20)
    <3> QED
      BY <3>2 DEF c, x, y, z, PluginParts
  <2> QED
    BY <2>2 DEF BusOwned
<1>9. ASSUME NEW i \in 1..(16 + 5 * N)
      PROVE  /\ b[i].begins \cup b[i].gets \subseteq BusOwned
             /\ b[i].before \cup b[i].notes \subseteq BusOwned
  <2>1. CASE i <= 11
    <3>1. i \in 1..11
      BY <2>1
    <3> QED
      BY <1>5, <3>1
  <2>2. CASE i > 11 /\ i <= 11 + 5 * N
    <3>1. i - 11 \in 1..(5 * N)
      BY <2>2, AcquisitionAssumption
    <3>2. PICK k \in 1..N, m \in 1..5 : i - 11 = 5 * (k - 1) + m
      BY <3>1, Placed
    <3>3. i = 11 + (5 * (k - 1) + m)
      BY <3>2, AcquisitionAssumption
    <3> QED
      BY <1>7, <3>3
  <2>3. CASE i > 11 + 5 * N
    <3>1. i - (11 + 5 * N) \in 1..5 /\ i = 11 + 5 * N + (i - (11 + 5 * N))
      BY <2>3, AcquisitionAssumption
    <3> QED
      BY <1>8, <3>1
  <2> QED
    BY <2>1, <2>2, <2>3, AcquisitionAssumption
<1>10. ASSUME NEW r \in BusOwned
       PROVE  \E i \in 1..(16 + 5 * N) : r \in b[i].begins \cup b[i].gets
  <2>1. CASE r \in AllServices
    <3>1. \A i \in 1..11 : i \in 1..(16 + 5 * N)
      BY AcquisitionAssumption
    <3>2. \E i \in 1..11 : r \in b[i].gets
      BY <1>4, <2>1 DEF AllServices
    <3> QED
      BY <3>1, <3>2
  <2>2. CASE r \in Processors(1..N)
    <3>1. PICK k \in 1..N, kind \in {"lib", "processor", "inited"} : r = <<kind, k>>
      BY <2>2 DEF Processors, Up
    <3> DEFINE m == IF kind = "lib" THEN 1 ELSE IF kind = "processor" THEN 3 ELSE 5
               i == 11 + (5 * (k - 1) + m)
    <3>2. m \in 1..5
      OBVIOUS
    <3>3. i \in 1..(16 + 5 * N)
      <4>1. 5 * (k - 1) + m \in 1..(5 * N)
        BY <3>2, Place
      <4> HIDE DEF m
      <4> QED
        BY <4>1, AcquisitionAssumption
    <3>4. /\ kind = "lib" => m = 1
          /\ kind = "processor" => m = 3
          /\ kind = "inited" => m = 5
      OBVIOUS
    <3>5. kind = "lib" \/ kind = "processor" \/ kind = "inited"
      OBVIOUS
    <3> HIDE DEF m
    <3>6. r \in b[i].begins \cup b[i].gets
      <4>1. /\ m = 1 => <<"lib", k>> \in b[i].gets
            /\ m = 3 => <<"processor", k>> \in b[i].gets
            /\ m = 5 => <<"inited", k>> \in b[i].begins
        BY <1>7, <3>2
      <4> HIDE DEF i
      <4> QED
        BY <3>1, <3>4, <3>5, <4>1
    <3> QED
      BY <3>3, <3>6
  <2>3. CASE r \in PluginParts
    <3> DEFINE j == 11 + 5 * N
    <3>1. j + 1 \in 1..(16 + 5 * N) /\ j + 3 \in 1..(16 + 5 * N) /\ j + 5 \in 1..(16 + 5 * N)
      BY AcquisitionAssumption
    <3>2. One("so") \in b[j + 1].gets /\ One("plugin") \in b[j + 3].gets
          /\ One("active") \in b[j + 5].begins
      <4>1. 1 \in 1..5 /\ 3 \in 1..5 /\ 5 \in 1..5
        OBVIOUS
      <4> QED
        BY <1>8, <4>1
    <3> HIDE DEF j
    <3> QED
      BY <2>3, <3>1, <3>2 DEF PluginParts
  <2> QED
    BY <2>1, <2>2, <2>3 DEF BusOwned
<1>11. Owns(b, BusOwned)
  BY <1>1, <1>9, <1>10 DEF Owns
<1> QED
  BY <1>11 DEF b

(* PostProcessorChain::Unload, last loaded first.                          *)
LEMMA ChainLists == Listing(ChainUnload, Processors(1..N)) /\ IsList(ChainUnload, 3 * N)
<1> DEFINE d == ChainUnload
           f == [k \in 1..N |-> N + 1 - k]
<1>1. d = [k \in 1..(3 * N) |-> UnloadPart((k - 1) \div 3 + 1)[((k - 1) % 3) + 1]]
  BY DEF Repeated, ChainUnload
<1> HIDE DEF d
<1>2. d = [k \in 1..(3 * N) |-> d[k]]
  BY <1>1
<1>3. IsList(d, 3 * N)
  BY <1>2, ListFun, AcquisitionAssumption
<1>4. ASSUME NEW k \in 1..N, NEW m \in 1..3
      PROVE  d[3 * (k - 1) + m] = <<Third("lib", "processor", m), f[k]>>
  <2>1. /\ 3 * (k - 1) + m \in 1..(3 * N)
        /\ (3 * (k - 1) + m - 1) \div 3 + 1 = k
        /\ ((3 * (k - 1) + m - 1) % 3) + 1 = m
    BY Place
  <2>2. d[3 * (k - 1) + m] = UnloadPart(k)[m]
    BY <1>1, <2>1
  <2>3. m = 1 \/ m = 2 \/ m = 3
    OBVIOUS
  <2> QED
    BY <2>2, <2>3 DEF UnloadPart, Unpart, Third
<1>5. /\ f \in [1..N -> 1..N] /\ \A j, k \in 1..N : j # k => f[j] # f[k]
      /\ \A j \in 1..N : \E k \in 1..N : f[k] = j
  <2>1. \A k \in 1..N : N + 1 - k \in 1..N /\ N + 1 - (N + 1 - k) = k
    BY AcquisitionAssumption
  <2>2. f \in [1..N -> 1..N] /\ \A k \in 1..N : f[k] = N + 1 - k
    BY <2>1
  <2>3. \A j, k \in 1..N : j # k => f[j] # f[k]
    BY <2>2, AcquisitionAssumption
  <2>4. \A j \in 1..N : f[N + 1 - j] = j
    BY <2>1, <2>2
  <2> HIDE DEF f
  <2> QED
    BY <2>1, <2>2, <2>3, <2>4
<1> HIDE DEF f
<1>6. Listing(d, Up("lib", "processor", "inited", 1..N))
  BY <1>3, <1>4, <1>5, BothStacked, UnloadListing
<1> QED
  BY <1>3, <1>6 DEF d, Processors

HostParts == {One("push_pool"), One("face_server"), One("qdrant"), One("arcface")}

(* HostServices::Shutdown: the pool before the clients its jobs use.       *)
LEMMA HostLists == Listing(HostShutdown, HostParts) /\ IsList(HostShutdown, 4)
<1> DEFINE a == One("push_pool")  b == One("face_server")  c == One("qdrant")
           d == One("arcface")
<1>1. a # b /\ a # c /\ a # d /\ b # c /\ b # d /\ c # d
  BY KindsDiffer
<1>2. Needs(a) = Used /\ Needs(b) = {} /\ Needs(c) = {} /\ Needs(d) = {}
  BY NeedsNothing, NeedsSome DEF One, Used
<1>3. a \notin Used
  BY DEF Used, One, All
<1> HIDE DEF a, b, c, d
<1>4. IsList(<<a, b, c, d>>, 4)
  BY TupleList
<1>5. Orderly(<<a, b, c, d>>)
  BY <1>1, <1>2, <1>3 DEF Orderly
<1>6. Rng(<<a, b, c, d>>) = {a, b, c, d} /\ Len(<<a, b, c, d>>) = 4
  BY DEF Rng
<1> QED
  BY <1>4, <1>5, <1>6 DEF Listing, HostShutdown, HostParts, a, b, c, d

(* The helpers that are members of HostServices.                           *)
LEMMA MemberLists ==
  Listing(BusMembers, {<<"ivps", 1>>, <<"ivps", 2>>}) /\ IsList(BusMembers, 2)
<1> DEFINE a == <<"ivps", 1>>  b == <<"ivps", 2>>
<1>1. a # b
  OBVIOUS
<1>4. Needs(a) = {} /\ Needs(b) = {}
  <2>1. Needs(<<"ivps", 1>>) = {} /\ Needs(<<"ivps", 2>>) = {}
    BY NeedsNothing
  <2> QED
    BY <2>1
<1> HIDE DEF a, b
<1>2. IsList(<<a, b>>, 2) /\ Orderly(<<a, b>>) /\ Rng(<<a, b>>) = {a, b}
  BY <1>1, <1>4, TupleList DEF Orderly, Rng
<1>3. Len(<<a, b>>) = 2
  OBVIOUS
<1> QED
  BY <1>2, <1>3 DEF Listing, BusMembers, a, b

(* The plugin first, then the chain, the services, and HostServices' own   *)
(* helpers with the object.                                                *)
LEMMA BusLists ==
  Listing(BusShutdown \o BusMembers, BusOwned) /\ IsList(BusShutdown, Len(BusShutdown))
<1> DEFINE p == PluginUnload  q == ChainUnload  r == HostShutdown  m == BusMembers
           ivps == {<<"ivps", 1>>, <<"ivps", 2>>}
           pq == p \o q  pqr == pq \o r
<1>1. Listing(p, PluginParts)
  <2>1. Listing(<<One("active"), One("plugin"), One("so")>>, PluginParts)
    <3>1. {One("active"), One("plugin"), One("so")} = PluginParts
      BY DEF PluginParts
    <3> QED
      BY <3>1, PluginLoadable DEF Loadable
  <2> QED
    BY <2>1 DEF PluginUnload, Unpart, One
<1>2. Listing(q, Processors(1..N)) /\ Listing(r, HostParts) /\ Listing(m, ivps)
  BY ChainLists, HostLists, MemberLists
<1>3. /\ \A y \in PluginParts : y[1] \in {"so", "plugin", "active"}
      /\ \A y \in HostParts : y[1] \in {"push_pool", "face_server", "qdrant", "arcface"}
      /\ \A y \in ivps : y[1] = "ivps"
      /\ \A y \in Used : y[1] \in {"ivps", "arcface", "qdrant", "face_server"}
  BY DEF PluginParts, HostParts, Used, One, All
<1>4. \A y \in Processors(1..N) :
        /\ y[1] \in {"lib", "processor", "inited"}
        /\ \A x \in Needs(y) : x[1] \in {"lib", "processor", "rule"}
  <2> SUFFICES ASSUME NEW y \in Processors(1..N)
               PROVE  /\ y[1] \in {"lib", "processor", "inited"}
                      /\ \A x \in Needs(y) : x[1] \in {"lib", "processor", "rule"}
    OBVIOUS
  <2>1. PICK k \in 1..N : /\ y \in {<<"lib", k>>, <<"processor", k>>, <<"inited", k>>}
                          /\ Needs(y) \subseteq {<<"lib", k>>, <<"processor", k>>, <<"rule", k>>}
    BY ProcessorsUse
  <2> QED
    BY <2>1
<1>5. \A y \in HostParts : Needs(y) \subseteq Used
  BY ServicesUse DEF HostParts, AllServices
<1>6. \A y \in ivps : Needs(y) = {}
  <2>1. Needs(<<"ivps", 1>>) = {} /\ Needs(<<"ivps", 2>>) = {}
    BY NeedsNothing
  <2> QED
    BY <2>1
<1> HIDE DEF p, q, r, m, ivps, pq, pqr
<1>7. Listing(pq, PluginParts \cup Processors(1..N))
  <2>1. \A x \in PluginParts, y \in Processors(1..N) : x # y /\ x \notin Needs(y)
    BY <1>3, <1>4
  <2> QED
    BY <1>1, <1>2, <2>1, ListingConcat DEF pq
<1>8. Listing(pqr, PluginParts \cup Processors(1..N) \cup HostParts)
  <2>1. \A x \in PluginParts \cup Processors(1..N), y \in HostParts :
          x # y /\ x \notin Needs(y)
    BY <1>3, <1>4, <1>5
  <2> QED
    BY <1>2, <1>7, <2>1, ListingConcat DEF pqr
<1>9. Listing(pqr \o m, PluginParts \cup Processors(1..N) \cup HostParts \cup ivps)
  <2>1. \A x \in PluginParts \cup Processors(1..N) \cup HostParts, y \in ivps :
          x # y /\ x \notin Needs(y)
    BY <1>3, <1>4, <1>6
  <2> QED
    BY <1>2, <1>8, <2>1, ListingConcat
<1>10. PluginParts \cup Processors(1..N) \cup HostParts \cup ivps = BusOwned
  BY DEF BusOwned, AllServices, HostParts, ivps
<1>11. BusShutdown = pqr /\ BusMembers = m
  BY DEF BusShutdown, p, q, r, m, pq, pqr
<1> QED
  BY <1>8, <1>9, <1>10, <1>11 DEF Listing

-----------------------------------------------------------------------------
(* All the classes *)

Length(s) == Len(Calls[s])

(* How many calls an Init has.                                             *)
LEMMA Lengths ==
  /\ Length("engine") = 5 + N + N /\ Length("ivps") = 6 + 3 * N
  /\ Length("vdec") = 7 /\ Length("venc") = 2 /\ Length("resource") = 3
  /\ Length("bus") = 16 + 5 * N /\ Length("rules") = 6 * N
  /\ Length("clone") = N /\ Length("jpeg") = 2
BY CallsOf, EngineTable, IvpsTable, VdecTable, VencTable, ResourceTable, BusTable,
   RulesTable, CloneTable, JpegTable, ListLen DEF Length

(* The classes there are.                                                  *)
LEMMA EveryClass ==
  ASSUME NEW s \in Subjects
  PROVE  s \in {"engine", "ivps", "vdec", "venc", "resource", "bus", "rules", "clone", "jpeg"}
BY AcquisitionAssumption

(* Init begins with nothing held and nothing recorded.                     *)
LEMMA EveryStart ==
  ASSUME NEW s \in Subjects
  PROVE  Length(s) \in Nat \ {0} /\ Inside(s, 1, {}, {})
<1>1. /\ 5 + N + N \in Nat \ {0} /\ 6 + 3 * N \in Nat \ {0} /\ 16 + 5 * N \in Nat \ {0}
      /\ 6 * N \in Nat \ {0} /\ N \in Nat \ {0}
  BY AcquisitionAssumption
<1>2. Length(s) \in Nat \ {0}
  BY <1>1, Lengths, EveryClass
<1>3. EngineAt(1, {}, {}) /\ IvpsAt(1, {}, {}) /\ VdecAt(1, {}, {}) /\ VencAt(1, {}, {})
  BY DEF EngineAt, IvpsAt, VdecAt, VencAt, When
<1>4. ResourceAt(1, {}, {}) /\ JpegAt(1, {}, {})
  BY DEF ResourceAt, JpegAt, When
<1>5. CloneAt(1, {}, {})
  BY BelowFacts DEF CloneAt
<1> QED
  BY <1>2, <1>3, <1>4, <1>5, BusStarts, RulesStarts DEF Inside

(* A call of any class keeps the records of its object right.              *)
LEMMA EveryCall ==
  ASSUME NEW s \in Subjects, NEW i \in 1..Length(s), NEW h, NEW n, Inside(s, i, h, n)
  PROVE  CallOK(s, Calls[s][i], i, h, n)
<1>1. CASE s = "engine"
  BY <1>1, Lengths, CallsOf, EngineCalls DEF Inside
<1>2. CASE s = "ivps"
  BY <1>2, Lengths, CallsOf, IvpsCalls DEF Inside
<1>3. CASE s = "vdec"
  BY <1>3, Lengths, CallsOf, VdecCalls DEF Inside
<1>4. CASE s = "venc"
  BY <1>4, Lengths, CallsOf, VencCalls DEF Inside
<1>5. CASE s = "resource"
  BY <1>5, Lengths, CallsOf, ResourceCalls DEF Inside
<1>6. CASE s = "bus"
  BY <1>6, Lengths, CallsOf, BusCalls DEF Inside
<1>7. CASE s = "rules"
  BY <1>7, Lengths, CallsOf, RulesCalls DEF Inside
<1>8. CASE s = "clone"
  BY <1>8, Lengths, CallsOf, CloneCalls DEF Inside
<1>9. CASE s = "jpeg"
  BY <1>9, Lengths, CallsOf, JpegCalls DEF Inside
<1> QED
  BY <1>1, <1>2, <1>3, <1>4, <1>5, <1>6, <1>7, <1>8, <1>9, EveryClass

(* After the last call the clean-up can be trusted.                        *)
LEMMA EveryEnd ==
  ASSUME NEW s \in Subjects, NEW h, NEW n, Inside(s, Length(s) + 1, h, n)
  PROVE  Rest(s, h, n)
<1>1. /\ 5 + N + N + 1 = 6 + N + N /\ 6 + 3 * N + 1 = 7 + 3 * N
      /\ 16 + 5 * N + 1 = 17 + 5 * N
  BY AcquisitionAssumption
<1>2. CASE s \in {"vdec", "venc", "resource", "clone", "jpeg"}
  BY <1>2, Lengths, SmallEnds DEF Inside
<1>3. CASE s \in {"engine", "ivps"}
  BY <1>1, <1>3, Lengths, SmallEnds DEF Inside
<1>4. CASE s = "bus"
  BY <1>1, <1>4, Lengths, BusEnds DEF Inside
<1>5. CASE s = "rules"
  BY <1>5, Lengths, RulesEnds DEF Inside
<1> QED
  BY <1>2, <1>3, <1>4, <1>5, EveryClass

(* What the calls of a class take, and the order its destructor gives it   *)
(* back in.                                                                *)
Balanced(s, S) ==
  /\ Owns(Calls[s], S)
  /\ Listing(CleanUp[s] \o Members(s), S)
  /\ IsList(CleanUp[s], Len(CleanUp[s])) /\ IsList(Members(s), Len(Members(s)))

(* A class whose clean-up is all of its destructor.                        *)
LEMMA WithoutMembers ==
  ASSUME NEW s, s # "bus", NEW S, Owns(Calls[s], S), Listing(CleanUp[s], S)
  PROVE  Balanced(s, S)
<1>1. Members(s) = <<>> /\ Listing(<<>>, {})
  BY ListingTuple DEF Members
<1>2. Listing(CleanUp[s] \o <<>>, S \cup {})
  BY <1>1, ListingConcat
<1>3. S \cup {} = S
  OBVIOUS
<1> QED
  BY <1>1, <1>2, <1>3 DEF Balanced, Listing

(* A destructor gives back what Init takes, in an order that may be.       *)
LEMMA EveryBalance ==
  ASSUME NEW s \in Subjects
  PROVE  \E S : Balanced(s, S)
<1>1. /\ CleanUp["engine"] = EngineDestroy /\ CleanUp["ivps"] = IvpsDestroy
      /\ CleanUp["vdec"] = VdecDestroy /\ CleanUp["venc"] = VencDestroy
      /\ CleanUp["resource"] = ResourceRelease /\ CleanUp["bus"] = BusShutdown
      /\ CleanUp["rules"] = RulesUnload /\ CleanUp["clone"] = FrameDestroy
      /\ CleanUp["jpeg"] = JpegExit
  BY DEF CleanUp
<1>2. Balanced("engine", EngineOwned)
  BY <1>1, CallsOf, EngineOwns, EngineReleases, WithoutMembers
<1>3. Balanced("ivps", IvpsOwned)
  BY <1>1, CallsOf, IvpsOwns, WithoutMembers
<1>4. Balanced("vdec", {One("id"), One("mem"), One("grp")})
  BY <1>1, CallsOf, VdecOwns, WithoutMembers
<1>5. Balanced("venc", {One("id"), One("chn")})
  BY <1>1, CallsOf, VencOwns, WithoutMembers
<1>6. Balanced("resource", {One("sys"), One("vdec"), One("venc")})
  BY <1>1, CallsOf, ResourceOwns, WithoutMembers
<1>7. Balanced("rules", RulesOwned)
  BY <1>1, CallsOf, RulesOwns, RulesLists, WithoutMembers
<1>8. Balanced("clone", All("plane"))
  BY <1>1, CallsOf, CloneOwns, WithoutMembers
<1>9. Balanced("jpeg", {One("buffer")})
  BY <1>1, CallsOf, JpegOwns, WithoutMembers
<1>10. Balanced("bus", BusOwned)
  <2>1. Members("bus") = BusMembers
    BY DEF Members
  <2>2. IsList(BusMembers, Len(BusMembers))
    BY MemberLists DEF Listing
  <2> QED
    BY <1>1, <2>1, <2>2, CallsOf, BusOwns, BusLists DEF Balanced
<1> QED
  BY <1>2, <1>3, <1>4, <1>5, <1>6, <1>7, <1>8, <1>9, <1>10, EveryClass

(* Nothing else is recorded,                                               *)
LEMMA EveryNote ==
  ASSUME NEW s \in Subjects, NEW i \in 1..Length(s)
  PROVE  Calls[s][i].before \cup Calls[s][i].notes \subseteq Resources(s)
<1>1. PICK S : Balanced(s, S)
  BY EveryBalance
<1>2. Owns(Calls[s], S) /\ Resources(s) = S
  BY <1>1, OwnsRule DEF Balanced
<1> QED
  BY <1>2 DEF Owns, Length

(* and nothing else released.                                              *)
LEMMA EveryList ==
  ASSUME NEW s \in Subjects
  PROVE  /\ Listing(CleanUp[s] \o Members(s), Resources(s))
         /\ IsList(CleanUp[s], Len(CleanUp[s])) /\ IsList(Members(s), Len(Members(s)))
<1>1. PICK S : Balanced(s, S)
  BY EveryBalance
<1>2. Owns(Calls[s], S) /\ Resources(s) = S
  BY <1>1, OwnsRule DEF Balanced
<1> QED
  BY <1>1, <1>2 DEF Balanced

-----------------------------------------------------------------------------
(* What goes astray *)

(* A call that takes nothing besides what it gets.                         *)
Tidy(c) == c.strays = {}
AllTidy(q) == \A i \in 1..Len(q) : Tidy(q[i])

(* The forms most calls have.                                              *)
LEMMA TidyForms ==
  ASSUME NEW r
  PROVE  /\ Tidy(Plain) /\ Tidy(Taking(r)) /\ Tidy(Making(r))
         /\ Tidy(Destroying(Plain)) /\ Tidy(Destroying(Taking(r)))
         /\ Tidy(Destroying(Making(r)))
         /\ \A kind, k : Tidy(IoCall(kind, k))
BY DEF Tidy, Plain, Taking, Making, Destroying, IoCall

(* Those of a component of a library, as they are and with an exit.        *)
LEMMA TidyPart ==
  ASSUME NEW so, NEW obj, NEW run, NEW k, NEW m \in 1..5
  PROVE  LET c == Part(so, obj, run, k)[m] IN
         /\ Tidy(c) /\ Tidy(Destroying(c))
         /\ \A g : Tidy([c EXCEPT !.goto = g])
<1> DEFINE q == Part(so, obj, run, k)
           s == <<so, k>>  o == <<obj, k>>  r == <<run, k>>
<1>1. /\ q[1] = [Plain EXCEPT !.gets = {s}] /\ q[2] = [Plain EXCEPT !.undo = <<s>>]
      /\ q[3] = [Plain EXCEPT !.gets = {o}, !.undo = <<s>>]
      /\ q[4] = [Plain EXCEPT !.undo = <<o, s>>]
      /\ q[5] = [Plain EXCEPT !.begins = {r}, !.notes = {s, o, r}, !.undo = <<r, o, s>>]
  BY DEF Part
<1>2. m = 1 \/ m = 2 \/ m = 3 \/ m = 4 \/ m = 5
  OBVIOUS
<1> HIDE DEF q, s, o, r
<1>3. ASSUME NEW c, "strays" \in DOMAIN c, c.strays = {}
      PROVE  /\ Tidy(c) /\ Tidy(Destroying(c)) /\ \A g : Tidy([c EXCEPT !.goto = g])
  BY <1>3 DEF Tidy, Destroying
<1>4. /\ "strays" \in DOMAIN q[1] /\ q[1].strays = {}
      /\ "strays" \in DOMAIN q[2] /\ q[2].strays = {}
      /\ "strays" \in DOMAIN q[3] /\ q[3].strays = {}
      /\ "strays" \in DOMAIN q[4] /\ q[4].strays = {}
      /\ "strays" \in DOMAIN q[5] /\ q[5].strays = {}
  BY <1>1 DEF Plain
<1>5. "strays" \in DOMAIN q[m] /\ q[m].strays = {}
  BY <1>2, <1>4
<1> QED
  BY <1>3, <1>5 DEF q

(* The small tables.                                                       *)
LEMMA SmallTidy ==
  AllTidy(JpegEncode) /\ AllTidy(CloneInit) /\ AllTidy(ResourceInit) /\ AllTidy(VencInit)
<1>1. AllTidy(JpegEncode)
  <2>1. \A i \in 1..2 : i = 1 \/ i = 2
    OBVIOUS
  <2> QED
    BY <2>1, JpegTable, TidyForms DEF AllTidy
<1>2. AllTidy(CloneInit)
  BY CloneTable, TidyForms DEF AllTidy
<1>3. AllTidy(ResourceInit)
  <2>1. Tidy(ResourceInit[1])
    BY DEF ResourceInit, Tidy, Plain
  <2>2. Tidy(ResourceInit[2])
    BY DEF ResourceInit, Tidy, Plain
  <2>3. Tidy(ResourceInit[3])
    BY DEF ResourceInit, Tidy, Plain
  <2>4. \A i \in 1..3 : i = 1 \/ i = 2 \/ i = 3
    OBVIOUS
  <2> QED
    BY <2>1, <2>2, <2>3, <2>4, ResourceTable DEF AllTidy
<1>4. AllTidy(VencInit)
  <2>1. Tidy(VencInit[1])
    BY DEF VencInit, Tidy, Plain, Taking
  <2>2. Tidy(VencInit[2])
    BY DEF VencInit, Tidy, Plain
  <2>3. \A i \in 1..2 : i = 1 \/ i = 2
    OBVIOUS
  <2> QED
    BY <2>1, <2>2, <2>3, VencTable DEF AllTidy
<1> QED
  BY <1>1, <1>2, <1>3, <1>4

(* Engine's.                                                               *)
LEMMA EngineTidy == AllTidy(EngineInit)
<1> SUFFICES ASSUME NEW i \in 1..(5 + N + N) PROVE Tidy(EngineInit[i])
  BY EngineTable, ListLen DEF AllTidy
<1>1. CASE i <= 5
  <2>1. i = 1 \/ i = 2 \/ i = 3 \/ i = 4 \/ i = 5
    BY <1>1
  <2> QED
    BY <2>1, EngineTable, TidyForms
<1>2. CASE i > 5 /\ i <= 5 + N
  <2>1. i - 5 \in 1..N /\ i = 5 + (i - 5)
    BY <1>2, AcquisitionAssumption
  <2>2. EngineInit[i] = IoCall("in", i - 5)
    BY <2>1, EngineTable
  <2> QED
    BY <2>2, TidyForms
<1>3. CASE i > 5 + N
  <2>1. i - (5 + N) \in 1..N /\ i = 5 + N + (i - (5 + N))
    BY <1>3, AcquisitionAssumption
  <2>2. EngineInit[i] = IoCall("out", i - (5 + N))
    BY <2>1, EngineTable
  <2> QED
    BY <2>2, TidyForms
<1> QED
  BY <1>1, <1>2, <1>3, AcquisitionAssumption

(* The rules'.                                                             *)
LEMMA RulesTidy == AllTidy(RulesLoad)
<1> SUFFICES ASSUME NEW i \in 1..(6 * N) PROVE Tidy(RulesLoad[i])
  BY RulesTable, ListLen DEF AllTidy
<1>1. PICK k \in 1..N, m \in 1..6 : i = 6 * (k - 1) + m
  BY Placed
<1>2. RulesLoad[i] = RuleLoad(k)[m]
  BY <1>1, RulesTable
<1> DEFINE b == Part("so", "rule", "inited", k)
           part == <<Plain>> \o b
<1>3. RuleLoad(k)[m] = [part[m] EXCEPT !.goto = 6 * k + 1]
  BY DEF RuleLoad
<1>4. IsList(<<Plain>>, 1) /\ IsList(b, 5) /\ <<Plain>>[1] = Plain
  BY TupleList DEF Part
<1>5. Joined(part, <<Plain>>, b, 1, 5)
  BY <1>4, ListConcat
<1> HIDE DEF part, b
<1>6. CASE m = 1
  <2>1. part[m] = Plain
    BY <1>4, <1>5, <1>6 DEF Joined
  <2> QED
    BY <1>2, <1>3, <2>1 DEF Tidy, Plain
<1>7. CASE m # 1
  <2>1. m - 1 \in 1..5 /\ m = 1 + (m - 1)
    BY <1>7
  <2>2. part[m] = b[m - 1]
    BY <1>5, <2>1 DEF Joined
  <2>3. Tidy([b[m - 1] EXCEPT !.goto = 6 * k + 1])
    BY <2>1, TidyPart DEF b
  <2> QED
    BY <1>2, <1>3, <2>2, <2>3
<1> QED
  BY <1>6, <1>7

(* BusProcess's.                                                           *)
LEMMA BusTidy == AllTidy(BusInit)
<1> SUFFICES ASSUME NEW i \in 1..(16 + 5 * N) PROVE Tidy(BusInit[i])
  BY BusTable, ListLen DEF AllTidy
<1>1. CASE i <= 11
  <2>1. i \in 1..11
    BY <1>1
  <2>2. \/ i = 1 \/ i = 2 \/ i = 3 \/ i = 4 \/ i = 5 \/ i = 6 \/ i = 7 \/ i = 8
        \/ i = 9 \/ i = 10 \/ i = 11
    BY <2>1
  <2> QED
    BY <2>2, BusTable, TidyForms
<1>2. CASE i > 11 /\ i <= 11 + 5 * N
  <2>1. i - 11 \in 1..(5 * N)
    BY <1>2, AcquisitionAssumption
  <2>2. PICK k \in 1..N, m \in 1..5 : i - 11 = 5 * (k - 1) + m
    BY <2>1, Placed
  <2>3. i = 11 + (5 * (k - 1) + m)
    BY <2>2, AcquisitionAssumption
  <2>4. BusInit[i] = Destroying(LoadPart(k)[m])
    BY <2>3, BusTable
  <2> QED
    BY <2>4, TidyPart DEF LoadPart
<1>3. CASE i > 11 + 5 * N
  <2>1. i - (11 + 5 * N) \in 1..5 /\ i = 11 + 5 * N + (i - (11 + 5 * N))
    BY <1>3, AcquisitionAssumption
  <2>2. BusInit[i] = Destroying(PluginLoad[i - (11 + 5 * N)])
    BY <2>1, BusTable
  <2> QED
    BY <2>1, <2>2, TidyPart DEF PluginLoad
<1> QED
  BY <1>1, <1>2, <1>3, AcquisitionAssumption

(* Only CreatePool and VdecHelper::Init are untidy.                        *)
LEMMA EveryTidy ==
  ASSUME NEW s \in Subjects, s \notin {"ivps", "vdec"}
  PROVE  AllTidy(Calls[s])
BY EveryClass, CallsOf, SmallTidy, EngineTidy, RulesTidy, BusTidy

(* VdecHelper's calls, as far as they matter here.                         *)
LEMMA VdecStrays ==
  ASSUME NEW i \in 1..7
  PROVE  VdecInit[i].strays \subseteq {One("vchn")}
<1> DEFINE q == VdecInit
<1>1. q[1].strays = {}
  BY DEF VdecInit, Plain, Taking
<1>2. q[2].strays = {}
  BY DEF VdecInit, Plain, Taking
<1>3. q[3].strays = {}
  BY DEF VdecInit, Plain
<1>4. q[5].strays = {One("vchn")}
  BY DEF VdecInit, Plain
<1>5. q[4].strays = {} /\ q[6].strays = {} /\ q[7].strays = {}
  <2>1. q[4] = Plain /\ q[6] = Plain /\ q[7] = Plain
    BY DEF VdecInit
  <2> QED
    BY <2>1 DEF Plain
<1>6. i = 1 \/ i = 2 \/ i = 3 \/ i = 4 \/ i = 5 \/ i = 6 \/ i = 7
  OBVIOUS
<1> QED
  BY <1>1, <1>2, <1>3, <1>4, <1>5, <1>6

(* And IvpsHelper's: only the last call of CreatePool notes a pool, and it *)
(* gives the blocks back.                                                  *)
LEMMA IvpsStrays ==
  ASSUME NEW i \in 1..(6 + 3 * N)
  PROVE  LET c == IvpsInit[i] IN
         /\ c.before = {}
         /\ i \notin 3..(N + 2) => c.strays = {}
         /\ i \in 3..(N + 2) => c.strays = {<<"blk", i - 2>>} /\ c.once = {One("pool")}
         /\ i # N + 3 => One("pool") \notin c.notes
         /\ i = N + 3 => c.returns = All("blk") /\ ~c.fails /\ c.once = {One("pool")}
<1> DEFINE c == IvpsInit[i]
<1>1. CASE i \in 3..(N + 2)
  <2>1. i - 2 \in 1..N /\ i = 2 + (i - 2) /\ i # N + 3
    BY <1>1, AcquisitionAssumption
  <2>2. c = GetBlock(i - 2)
    BY <2>1, IvpsTable
  <2> HIDE DEF c
  <2>3. /\ c.before = {} /\ c.strays = {<<"blk", i - 2>>} /\ c.once = {One("pool")}
        /\ c.notes = {}
    BY <2>2 DEF GetBlock, Plain
  <2> QED
    BY <1>1, <2>1, <2>3 DEF c
<1>2. CASE i \in {1, 2, N + 3, N + 4, N + 5, 6 + 3 * N}
  <2>1. /\ i \notin 3..(N + 2) /\ N + 3 \notin {1, 2, N + 4, N + 5, 6 + 3 * N}
    BY <1>2, AcquisitionAssumption
  <2>2. /\ One("pool") # One("id") /\ One("pool") # One("grp") /\ One("pool") # One("run")
        /\ One("pool") \notin All("chn")
    BY KindsDiffer
  <2>3. CASE i \in {1, 2, N + 4, N + 5, 6 + 3 * N}
    <3>1. \/ c = [Taking(One("id")) EXCEPT !.goto = 2]
          \/ c = [Plain EXCEPT !.gets = {One("pool")}, !.once = {One("pool")}]
          \/ c = [Plain EXCEPT !.wants = {One("id")}, !.gets = {One("grp")}]
          \/ c = [Plain EXCEPT !.undo = <<One("grp")>>]
          \/ c = [Plain EXCEPT !.gets = {One("run")}, !.undo = Rollback(N),
                               !.notes = {One("grp"), One("run")} \cup All("chn")]
      BY <2>3, IvpsTable
    <3> HIDE DEF c
    <3>2. /\ c.before = {} /\ c.strays = {}
          /\ \/ c.notes = {One("id")} \/ c.notes = {}
             \/ c.notes = {One("grp"), One("run")} \cup All("chn")
      BY <3>1 DEF Taking, Plain
    <3>3. One("pool") \notin c.notes
      BY <2>2, <3>2
    <3> QED
      BY <2>1, <2>3, <3>2, <3>3 DEF c
  <2>4. CASE i = N + 3
    <3>1. /\ c.before = {} /\ c.strays = {} /\ c.returns = All("blk") /\ ~c.fails
          /\ c.once = {One("pool")}
      BY <2>4, IvpsTable DEF Plain
    <3> HIDE DEF c
    <3> QED
      BY <2>1, <2>4, <3>1 DEF c
  <2> QED
    BY <1>2, <2>3, <2>4
<1>3. CASE i \notin 3..(N + 2) /\ i \notin {1, 2, N + 3, N + 4, N + 5, 6 + 3 * N}
  <2>1. i - (N + 5) \in 1..(2 * N) /\ i = N + 5 + (i - (N + 5))
    BY <1>3, AcquisitionAssumption
  <2>2. PICK k \in 1..N, m \in 1..2 : i - (N + 5) = 2 * (k - 1) + m
    BY <2>1, Placed
  <2>3. c = IvpsChn(k)[m]
    BY <2>1, <2>2, IvpsTable
  <2>4. m = 1 \/ m = 2
    OBVIOUS
  <2>5. /\ IvpsChn(k)[1].before = {} /\ IvpsChn(k)[1].strays = {} /\ IvpsChn(k)[1].notes = {}
        /\ IvpsChn(k)[2].before = {} /\ IvpsChn(k)[2].strays = {} /\ IvpsChn(k)[2].notes = {}
    BY DEF IvpsChn, Plain
  <2>6. c.before = {} /\ c.strays = {} /\ c.notes = {}
    BY <2>3, <2>4, <2>5
  <2> HIDE DEF c
  <2> QED
    BY <1>3, <2>6 DEF c
<1> QED
  BY <1>1, <1>2, <1>3

-----------------------------------------------------------------------------
(* The machine *)

(* The error path under way: what is left of it, and what stays.           *)
Undoing ==
  LET u == calls[at].undo IN
  /\ at \in 1..Length(subject) /\ step \in 1..(Len(u) + 1)
  /\ \E rest \in SUBSET held :
       /\ held = rest \cup {u[k] : k \in step..Len(u)}
       /\ Frees(u, rest)
       /\ After(subject, calls[at], rest, noted)

(* A clean-up under way: all that is held is still to come, or, while Init *)
(* cleans up, is the destructor's.                                         *)
Cleaning ==
  /\ step \in 1..(Len(Releases) + 1)
  /\ Rest(subject, held, noted)
  /\ \A r \in held : r \in {Releases[k] : k \in step..Len(Releases)}
                       \cup (IF phase = "clean" THEN Rng(Members(subject)) ELSE {})

(* The types of what a step of the machine looks at.                       *)
HeldTypeOK ==
  /\ subject \in Subjects
  /\ phase \in {"init", "undo", "clean", "ready", "failed", "destroy", "gone"}
  /\ at \in 1..(Len(calls) + 1) /\ (phase = "undo" => at <= Len(calls))
  /\ step \in Nat \ {0}
  /\ inits \in 1..MaxInits
  /\ held \subseteq Resources(subject) /\ noted \subseteq Resources(subject)

(* What is held and noted; what is astray comes after.                     *)
ObjectInv ==
  /\ HeldTypeOK
  /\ phase = "init" => at \in 1..Length(subject) /\ Inside(subject, at, held, noted)
  /\ phase = "undo" => Undoing
  /\ phase \in {"clean", "destroy"} => Cleaning
  /\ phase = "ready" => Rest(subject, held, noted)
  /\ phase = "failed" => Over(subject, held, noted)
  /\ phase = "gone" => held = {}

(* The initial state.                                                      *)
LEMMA ObjectStarts == ObjectInit => ObjectInv
<1> SUFFICES ASSUME ObjectInit PROVE ObjectInv
  OBVIOUS
<1>1. subject \in Subjects /\ Length(subject) \in Nat \ {0} /\ Inside(subject, 1, {}, {})
  BY EveryStart DEF ObjectInit
<1>2. HeldTypeOK
  BY <1>1, AcquisitionAssumption DEF ObjectInit, HeldTypeOK, Length, calls
<1> QED
  BY <1>1, <1>2 DEF ObjectInit, ObjectInv

(* Going on with call i, be it past the last.                              *)
LEMMA ProceedKeeps ==
  ASSUME ObjectInv, NEW i \in 1..(Length(subject) + 1), NEW n, Proceed(i, n),
         UNCHANGED <<subject, inits>>, step' \in Nat \ {0},
         held' \subseteq Resources(subject), noted' \subseteq Resources(subject),
         Inside(subject, i, held', noted')
  PROVE  ObjectInv'
<1>1. subject \in Subjects /\ Length(subject) \in Nat \ {0}
  BY EveryStart DEF ObjectInv, HeldTypeOK
<1>2. HeldTypeOK'
  BY <1>1 DEF ObjectInv, HeldTypeOK, Proceed, Length, calls
<1>3. CASE i <= Length(subject)
  <2>1. phase' = "init" /\ at' \in 1..Length(subject)
    BY <1>1, <1>3 DEF Proceed, Length, calls
  <2> QED
    BY <1>2, <2>1 DEF ObjectInv, Proceed
<1>4. CASE ~(i <= Length(subject))
  <2>1. /\ phase' \in {"failed", "ready"} /\ (phase' = "failed" => subject = "rules")
        /\ i = Length(subject) + 1
    BY <1>1, <1>4 DEF Proceed, Length, calls
  <2>2. Rest(subject, held', noted')
    BY <1>1, <2>1, EveryEnd
  <2>3. phase' = "failed" => Over(subject, held', noted')
    BY <2>1, <2>2 DEF Over, RetryAt
  <2> QED
    BY <1>2, <2>1, <2>2, <2>3 DEF ObjectInv
<1> QED
  BY <1>3, <1>4

(* A call of Init: skipped, made, or failed.                               *)
LEMMA CallKeeps ==
  ASSUME ObjectInv, Skip \/ Succeed \/ Fail
  PROVE  ObjectInv'
<1> DEFINE c == Calls[subject][at]
<1>1. /\ subject \in Subjects /\ at \in 1..Length(subject) /\ phase = "init"
      /\ Inside(subject, at, held, noted) /\ step \in Nat \ {0}
      /\ Length(subject) \in Nat \ {0}
      /\ held \subseteq Resources(subject) /\ noted \subseteq Resources(subject)
  BY EveryStart DEF Skip, Succeed, Fail, Due, ObjectInv, HeldTypeOK
<1>2. CallOK(subject, c, at, held, noted)
  BY <1>1, EveryCall
<1>3. /\ c.begins \cup c.gets \subseteq Resources(subject)
      /\ c.before \cup c.notes \subseteq Resources(subject)
  BY <1>1, EveryNote DEF Resources, Length
<1>4. at + 1 \in 1..(Length(subject) + 1)
  BY <1>1
<1>5. CASE Skip
  <2>1. Inside(subject, at + 1, held, noted)
    BY <1>2, <1>5 DEF Skip, CallOK, SkipOK, calls
  <2> QED
    BY <1>1, <1>4, <1>5, <2>1, ProceedKeeps DEF Skip
<1>6. CASE Succeed
  <2>1. Inside(subject, at + 1, held', noted')
    BY <1>2, <1>6 DEF Succeed, Due, CallOK, SucceedOK, calls
  <2>2. held' \subseteq Resources(subject) /\ noted' \subseteq Resources(subject)
    BY <1>1, <1>3, <1>6 DEF Succeed, calls
  <2> QED
    BY <1>1, <1>4, <1>6, <2>1, <2>2, ProceedKeeps DEF Succeed
<1>7. CASE Fail
  <2>1. PICK rest \in SUBSET (held \cup c.begins) :
          /\ held \cup c.begins = rest \cup Rng(c.undo)
          /\ Frees(c.undo, rest)
          /\ After(subject, c, rest, (noted \cup c.before) \ c.forgets)
    BY <1>2, <1>7 DEF Fail, Due, CallOK, FailOK, calls
  <2>2. /\ held' = held \cup c.begins /\ noted' = (noted \cup c.before) \ c.forgets
        /\ phase' = "undo" /\ step' = 1 /\ at' = at /\ inits' = inits /\ subject' = subject
    BY <1>7 DEF Fail, calls
  <2>3. HeldTypeOK'
    BY <1>1, <1>3, <2>2 DEF ObjectInv, HeldTypeOK, calls, Length
  <2>4. Undoing'
    <3>1. Len(c.undo) \in Nat /\ 1 \in 1..(Len(c.undo) + 1)
      BY <2>1, ListLen DEF Frees
    <3> QED
      BY <1>1, <2>1, <2>2, <3>1 DEF Undoing, calls, Rng
  <2> QED
    BY <2>2, <2>3, <2>4 DEF ObjectInv
<1> QED
  BY <1>5, <1>6, <1>7

(* What is left of a list once its entry has been released.                *)
LEMMA LeftOver ==
  ASSUME NEW q, Orderly(q), Len(q) \in Nat, NEW k \in 1..Len(q)
  PROVE  /\ {q[j] : j \in k..Len(q)} = {q[k]} \cup {q[j] : j \in (k + 1)..Len(q)}
         /\ q[k] \notin {q[j] : j \in (k + 1)..Len(q)}
         /\ \A d \in {q[j] : j \in k..Len(q)} : q[k] \notin Needs(d)
<1>1. k..Len(q) = {k} \cup ((k + 1)..Len(q)) /\ k \in k..Len(q)
  OBVIOUS
<1>2. ASSUME NEW j \in k..Len(q) PROVE q[k] \notin Needs(q[j]) /\ (k < j => q[k] # q[j])
  <2>1. j \in 1..Len(q) /\ k <= j
    OBVIOUS
  <2> QED
    BY <2>1 DEF Orderly
<1>3. \A j \in (k + 1)..Len(q) : j \in k..Len(q) /\ k < j
  OBVIOUS
<1> QED
  BY <1>1, <1>2, <1>3

(* An error path releases one more.                                        *)
LEMMA ReleaseUndoes ==
  ASSUME ObjectInv, Release, phase = "undo"
  PROVE  ObjectInv'
<1> DEFINE u == calls[at].undo
           left(k) == {u[j] : j \in k..Len(u)}
<1>1. PICK rest \in SUBSET held :
        /\ held = rest \cup left(step) /\ Frees(u, rest)
        /\ After(subject, calls[at], rest, noted)
  BY DEF ObjectInv, Undoing
<1>2. /\ Len(u) \in Nat /\ step \in 1..Len(u) /\ at \in 1..Length(subject)
      /\ Releases = u /\ Released = {u[step]}
  BY <1>1, ListLen DEF ObjectInv, Undoing, Release, Releases, Released, Frees
<1>3. /\ held' = held \ {u[step]} /\ noted' = noted /\ step' = step + 1
      /\ subject' = subject /\ phase' = "undo" /\ at' = at /\ inits' = inits
  BY <1>2 DEF Release
<1>4. calls' = calls /\ u' = u
  BY <1>3 DEF calls
<1>5. left(step) = {u[step]} \cup left(step + 1) /\ u[step] \notin left(step + 1)
  BY <1>1, <1>2, LeftOver DEF Frees
<1>6. u[step] \notin rest
  BY <1>1, <1>2 DEF Frees, Rng
<1> HIDE DEF u, left
<1>7. held' = rest \cup left(step + 1) /\ rest \in SUBSET held'
  BY <1>1, <1>3, <1>5, <1>6
<1>8. step' \in 1..(Len(u) + 1)
  BY <1>2, <1>3
<1>9. Undoing'
  <2>1. calls'[at'] = calls[at] /\ Length(subject') = Length(subject)
    BY <1>3, <1>4
  <2>2. held' = rest \cup {u[k] : k \in step'..Len(u)}
    BY <1>3, <1>7 DEF left
  <2>3. After(subject', calls'[at'], rest, noted')
    BY <1>1, <1>3, <2>1
  <2>4. at' \in 1..Length(subject')
    BY <1>2, <1>3, <2>1
  <2>5. \E r \in SUBSET held' :
          /\ held' = r \cup {u[k] : k \in step'..Len(u)}
          /\ Frees(u, r)
          /\ After(subject', calls'[at'], r, noted')
    BY <1>1, <1>7, <2>2, <2>3, Zenon
  <2>6. u = calls'[at'].undo
    BY <2>1 DEF u
  <2> QED
    BY <1>8, <2>4, <2>5, <2>6, Zenon DEF Undoing
<1>10. HeldTypeOK'
  BY <1>2, <1>3, <1>4 DEF ObjectInv, HeldTypeOK
<1> QED
  BY <1>3, <1>9, <1>10 DEF ObjectInv

(* The lists of releases of a clean-up.                                    *)
LEMMA CleaningLists ==
  ASSUME HeldTypeOK, phase \in {"clean", "destroy"}
  PROVE  /\ Len(Releases) \in Nat /\ Orderly(Releases)
         /\ Resources(subject) \subseteq
              Rng(Releases) \cup (IF phase = "clean" THEN Rng(Members(subject)) ELSE {})
<1> DEFINE p == CleanUp[subject]  q == Members(subject)  r == p \o q
<1>1. /\ Listing(r, Resources(subject)) /\ IsList(p, Len(p)) /\ IsList(q, Len(q))
  BY EveryList DEF HeldTypeOK
<1>2. Joined(r, p, q, Len(p), Len(q))
  BY <1>1, ListConcat
<1>3. /\ Len(p) \in Nat /\ Len(q) \in Nat /\ Len(r) = Len(p) + Len(q)
      /\ Rng(r) = Rng(p) \cup Rng(q)
  <2>1. Rng(r) = Rng(p) \cup Rng(q)
    BY <1>1, <1>2, JoinedRange
  <2>2. Len(p) \in Nat /\ Len(q) \in Nat
    BY <1>1, ListLen
  <2>3. IsList(r, Len(p) + Len(q))
    BY <1>2 DEF Joined
  <2> QED
    BY <2>1, <2>2, <2>3, ListLen
<1>4. CASE phase = "destroy"
  <2>1. Releases = r
    BY <1>4 DEF Releases
  <2> QED
    BY <1>1, <1>3, <1>4, <2>1 DEF Listing
<1>5. CASE phase = "clean"
  <2>1. Releases = p
    BY <1>5 DEF Releases
  <2> HIDE DEF p, q, r
  <2>2. Orderly(p)
    <3>1. \A k \in 1..Len(p) : k \in 1..Len(r) /\ r[k] = p[k]
      BY <1>2, <1>3 DEF Joined
    <3> QED
      BY <1>1, <3>1 DEF Listing, Orderly
  <2> QED
    BY <1>1, <1>3, <1>5, <2>1, <2>2 DEF Listing, p, q, r
<1> QED
  BY <1>4, <1>5

(* A clean-up releases one more, if the members record it.                 *)
LEMMA ReleaseCleans ==
  ASSUME ObjectInv, Release, phase \in {"clean", "destroy"}
  PROVE  ObjectInv'
<1> DEFINE q == Releases
           left(k) == {q[j] : j \in k..Len(q)}
           others == IF phase = "clean" THEN Rng(Members(subject)) ELSE {}
<1>1. /\ Len(q) \in Nat /\ Orderly(q) /\ step \in 1..Len(q)
      /\ Rest(subject, held, noted) /\ held \subseteq left(step) \cup others
  BY CleaningLists DEF ObjectInv, Cleaning, Release
<1>2. /\ held' = held \ Released /\ step' = step + 1
      /\ noted' = noted \ (Released \ Tolerated(subject))
      /\ subject' = subject /\ phase' = phase /\ at' = at /\ inits' = inits
  BY DEF Release
<1>3. calls' = calls /\ q' = q /\ others' = others
  BY <1>2 DEF calls, Releases
<1>4. Released = IF q[step] \in noted THEN {q[step]} ELSE {}
  BY <1>1 DEF Released
<1>5. left(step) = {q[step]} \cup left(step + 1)
  BY <1>1, LeftOver
<1> HIDE DEF q, left, others
<1>6. held' \subseteq left(step + 1) \cup others
  BY <1>1, <1>2, <1>4, <1>5 DEF Rest
<1>7. Rest(subject, held', noted')
  BY <1>1, <1>2, <1>4 DEF Rest
<1>8. Cleaning'
  <2>1. step' \in 1..(Len(q) + 1)
    BY <1>1, <1>2
  <2> QED
    BY <1>2, <1>3, <1>6, <1>7, <2>1 DEF Cleaning, q, left, others
<1>9. HeldTypeOK'
  BY <1>1, <1>2, <1>3 DEF ObjectInv, HeldTypeOK
<1> QED
  BY <1>2, <1>8, <1>9 DEF ObjectInv

(* The end of an error path.                                               *)
LEMMA UndoneKeeps ==
  ASSUME ObjectInv, Undone
  PROVE  ObjectInv'
<1> DEFINE u == calls[at].undo
<1>1. PICK rest \in SUBSET held :
        /\ held = rest \cup {u[k] : k \in step..Len(u)}
        /\ Frees(u, rest) /\ After(subject, calls[at], rest, noted)
  BY DEF Undone, ObjectInv, Undoing
<1>2. /\ Releases = u /\ Len(u) \in Nat /\ step \in Nat /\ step > Len(u)
      /\ subject \in Subjects /\ at \in 1..Length(subject)
  BY <1>1, ListLen DEF Undone, ObjectInv, HeldTypeOK, Undoing, Releases, Frees
<1>3. held = rest
  <2>1. step..Len(u) = {}
    BY <1>2
  <2> QED
    BY <1>1, <2>1
<1>4. /\ subject' = subject /\ held' = held /\ noted' = noted /\ inits' = inits
      /\ step' = 1
  BY DEF Undone
<1>5. CASE calls[at].destroys /\ phase' = "clean" /\ at' = at
  <2>1. HeldTypeOK'
    BY <1>2, <1>4, <1>5 DEF ObjectInv, HeldTypeOK, calls
  <2>2. Rest(subject, held, noted)
    BY <1>1, <1>3, <1>5 DEF After
  <2>3. /\ Len(Releases') \in Nat
        /\ Resources(subject) \subseteq Rng(Releases') \cup Rng(Members(subject))
    <3>1. Listing(CleanUp[subject] \o Members(subject), Resources(subject))
      BY <1>2, EveryList
    <3> DEFINE p == CleanUp[subject]  q == Members(subject)
    <3>2. IsList(p, Len(p)) /\ IsList(q, Len(q))
      BY <1>2, EveryList
    <3>3. Joined(p \o q, p, q, Len(p), Len(q))
      BY <3>2, ListConcat
    <3>4. Rng(p \o q) = Rng(p) \cup Rng(q) /\ Len(p) \in Nat
      BY <3>2, <3>3, JoinedRange, ListLen
    <3>5. Releases' = p
      BY <1>4, <1>5 DEF Releases
    <3> QED
      BY <3>1, <3>4, <3>5 DEF Listing
  <2>4. Cleaning'
    <3>1. held \subseteq Resources(subject)
      BY DEF ObjectInv, HeldTypeOK
    <3>2. 1 \in 1..(Len(Releases') + 1)
      BY <2>3
    <3> QED
      BY <1>4, <1>5, <2>2, <2>3, <3>1, <3>2 DEF Cleaning, Rng
  <2> QED
    BY <1>5, <2>1, <2>4 DEF ObjectInv
<1>6. CASE ~calls[at].destroys /\ calls[at].goto = 0 /\ phase' = "failed" /\ at' = at
  <2>1. HeldTypeOK'
    BY <1>2, <1>4, <1>6 DEF ObjectInv, HeldTypeOK, calls
  <2>2. Over(subject, held, noted)
    BY <1>1, <1>3, <1>6 DEF After
  <2> QED
    BY <1>4, <1>6, <2>1, <2>2 DEF ObjectInv
<1>7. CASE ~calls[at].destroys /\ calls[at].goto # 0 /\ Proceed(calls[at].goto, noted)
  <2>1. /\ calls[at].goto \in 1..(Length(subject) + 1)
        /\ Inside(subject, calls[at].goto, held, noted)
    BY <1>1, <1>3, <1>7 DEF After, Length
  <2>2. held \subseteq Resources(subject) /\ noted \subseteq Resources(subject)
    BY DEF ObjectInv, HeldTypeOK
  <2> QED
    BY <1>4, <1>7, <2>1, <2>2, ProceedKeeps
<1> QED
  BY <1>5, <1>6, <1>7 DEF Undone

(* Nothing held and, but for what Release does not ask about, nothing      *)
(* noted: Init may start again.                                            *)
LEMMA EmptyOver ==
  ASSUME NEW s \in Subjects, NEW n, Rest(s, {}, n)
  PROVE  Over(s, {}, n)
<1> SUFFICES ASSUME s \in DOMAIN RetryAt PROVE Inside(s, RetryAt[s], {}, n)
  BY DEF Over
<1>1. n = {} /\ (s = "engine" \/ s = "ivps")
  BY DEF RetryAt, Rest, Tolerated
<1>2. EngineAt(1, {}, {}) /\ IvpsAt(2, {}, {})
  BY DEF EngineAt, IvpsAt, When
<1> QED
  BY <1>1, <1>2 DEF Inside, RetryAt

(* The end of a clean-up.                                                  *)
LEMMA CleanedKeeps ==
  ASSUME ObjectInv, Cleaned
  PROVE  ObjectInv'
<1>1. /\ subject' = subject /\ at' = at /\ step' = step /\ held' = held /\ noted' = noted
      /\ inits' = inits /\ phase' = IF phase = "clean" THEN "failed" ELSE "gone"
      /\ phase \in {"clean", "destroy"} /\ step > Len(Releases) /\ subject \in Subjects
  BY DEF Cleaned, ObjectInv, HeldTypeOK
<1>2. /\ Rest(subject, held, noted)
      /\ held \subseteq IF phase = "clean" THEN Rng(Members(subject)) ELSE {}
  <2>1. Len(Releases) \in Nat /\ step \in Nat
    BY <1>1, CleaningLists DEF ObjectInv, HeldTypeOK
  <2>2. step..Len(Releases) = {}
    BY <1>1, <2>1
  <2> QED
    BY <1>1, <2>2 DEF ObjectInv, Cleaning
<1>3. HeldTypeOK'
  BY <1>1 DEF ObjectInv, HeldTypeOK, calls
<1>4. CASE phase = "destroy"
  BY <1>1, <1>2, <1>3, <1>4 DEF ObjectInv
<1>5. CASE phase = "clean"
  <2>1. CASE subject = "bus"
    BY <1>1, <1>2, <1>3, <1>5, <2>1 DEF ObjectInv, Over, RetryAt
  <2>2. CASE subject # "bus"
    <3>1. Rng(Members(subject)) = {}
      BY <2>2 DEF Members, Rng
    <3>2. held = {}
      BY <1>2, <1>5, <3>1
    <3>3. Over(subject, held, noted)
      BY <1>1, <1>2, <3>2, EmptyOver
    <3> QED
      BY <1>1, <1>3, <1>5, <3>3 DEF ObjectInv
  <2> QED
    BY <2>1, <2>2
<1> QED
  BY <1>1, <1>4, <1>5

(* Init again: what is left is what its first call expects.                *)
LEMMA RetryKeeps ==
  ASSUME ObjectInv, Retry
  PROVE  ObjectInv'
<1>1. /\ subject \in Subjects /\ subject \in DOMAIN RetryAt
      /\ Over(subject, held, noted) /\ phase' = "init" /\ at' = RetryAt[subject]
      /\ subject' = subject /\ held' = held /\ noted' = noted /\ step' = step
      /\ inits' = inits + 1 /\ inits < MaxInits
  BY DEF Retry, ObjectInv, HeldTypeOK
<1>2. RetryAt[subject] \in 1..Length(subject)
  <2>1. 1 \in 1..(5 + N + N) /\ 2 \in 1..(6 + 3 * N)
    BY AcquisitionAssumption
  <2> QED
    BY <1>1, <2>1, Lengths DEF RetryAt
<1>3. Inside(subject, at', held, noted)
  BY <1>1 DEF Over
<1>4. HeldTypeOK'
  BY <1>1, <1>2, AcquisitionAssumption DEF ObjectInv, HeldTypeOK, calls, Length
<1> QED
  BY <1>1, <1>2, <1>3, <1>4 DEF ObjectInv

(* The destructor begins.                                                  *)
LEMMA DestructKeeps ==
  ASSUME ObjectInv, Destruct
  PROVE  ObjectInv'
<1>1. /\ subject \in Subjects /\ Rest(subject, held, noted)
      /\ phase' = "destroy" /\ step' = 1 /\ subject' = subject /\ at' = at
      /\ held' = held /\ noted' = noted /\ inits' = inits
      /\ held \subseteq Resources(subject)
  BY DEF Destruct, ObjectInv, HeldTypeOK, Over
<1>2. HeldTypeOK'
  BY <1>1 DEF ObjectInv, HeldTypeOK, calls
<1>3. Listing(Releases', Resources(subject))
  BY <1>1, EveryList DEF Releases
<1>4. Cleaning'
  <2>1. Len(Releases') \in Nat
    BY <1>3, ListLen DEF Listing
  <2>2. 1 \in 1..(Len(Releases') + 1)
    BY <2>1
  <2> QED
    BY <1>1, <1>3, <2>2 DEF Cleaning, Listing, Rng
<1> QED
  BY <1>1, <1>2, <1>4 DEF ObjectInv

(* Something is released only on an error path or in a clean-up.           *)
LEMMA UnderWay ==
  ASSUME HeldTypeOK, step <= Len(Releases)
  PROVE  phase \in {"undo", "clean", "destroy"}
<1> SUFFICES ASSUME phase \notin {"undo", "clean", "destroy"} PROVE FALSE
  OBVIOUS
<1>1. Releases = <<>>
  BY Zenon DEF Releases
<1>2. Len(Releases) = 0
  BY <1>1
<1> QED
  BY <1>2 DEF HeldTypeOK

(* Every step keeps the invariant.                                         *)
LEMMA ObjectSteps == ObjectInv /\ [ObjectNext]_objectVars => ObjectInv'
<1>1. ObjectInv /\ UNCHANGED objectVars => ObjectInv'
  BY DEF objectVars, ObjectInv, HeldTypeOK, Undoing, Cleaning, Releases, calls
<1>2. ObjectInv /\ Release => ObjectInv'
  <2>1. ObjectInv /\ Release => phase \in {"undo", "clean", "destroy"}
    BY UnderWay DEF Release, ObjectInv
  <2> QED
    BY <2>1, ReleaseUndoes, ReleaseCleans
<1> QED
  BY <1>1, <1>2, CallKeeps, UndoneKeeps, CleanedKeeps, RetryKeeps, DestructKeeps
     DEF ObjectNext, Gone

-----------------------------------------------------------------------------
(* What is astray, of what an object is *)

(* What can go astray of a class, *)
StrayKinds(s) == CASE s = "ivps" -> All("blk") \cup {One("pool")}
                   [] s = "vdec" -> {One("vchn")}
                   [] OTHER      -> {}
StrayTypeOK == stray \subseteq StrayKinds(subject) \X (1..inits)

(* and of IvpsHelper: an Init that has its pool has no block of it out, and*)
(* the last block is out only until CreatePool gives all of them back.     *)
BlocksBack ==
  subject = "ivps" =>
    /\ One("pool") \in noted => \A b \in All("blk") : <<b, inits>> \notin stray
    /\ \A k \in 1..inits : <<<<"blk", N>>, k>> \in stray =>
         phase = "init" /\ at = N + 3 /\ One("pool") \notin noted /\ k = inits

StrayInv == StrayTypeOK /\ BlocksBack
IInvObject == ObjectInv /\ StrayInv

(* Pairs of what is in A and a number.                                     *)
LEMMA PairsGrow ==
  ASSUME NEW A, NEW n \in Nat \ {0}, NEW S, S \subseteq A \X (1..n),
         NEW T, T \subseteq A
  PROVE  /\ S \cup T \X {n} \subseteq A \X (1..n)
         /\ S \subseteq A \X (1..(n + 1))
         /\ \A a : <<a, n + 1>> \notin S
         /\ \A a : <<a, n>> \in T \X {n} <=> a \in T
<1>1. n \in 1..n /\ 1..n \subseteq 1..(n + 1) /\ n + 1 \notin 1..n
  OBVIOUS
<1> QED
  BY <1>1

(* What a call lets go astray is of those.                                 *)
LEMMA CallStrays ==
  ASSUME NEW s \in Subjects, NEW i \in 1..Length(s)
  PROVE  Calls[s][i].strays \subseteq StrayKinds(s)
<1>1. CASE s = "ivps"
  <2>1. Calls[s] = IvpsInit /\ i \in 1..(6 + 3 * N)
    BY <1>1, CallsOf, Lengths, IvpsTable DEF Length
  <2>2. i \in 3..(N + 2) => <<"blk", i - 2>> \in All("blk")
    <3>1. i \in 3..(N + 2) => i - 2 \in 1..N
      BY AcquisitionAssumption
    <3> QED
      BY <3>1 DEF All
  <2> QED
    BY <1>1, <2>1, <2>2, IvpsStrays DEF StrayKinds
<1>2. CASE s = "vdec"
  BY <1>2, CallsOf, Lengths, VdecTable, VdecStrays DEF StrayKinds, Length
<1>3. CASE s \notin {"ivps", "vdec"}
  BY <1>3, EveryTidy DEF AllTidy, Tidy, Length
<1> QED
  BY <1>1, <1>2, <1>3

(* What a step adds is of these kinds; no number comes from a later Init.  *)
LEMMA StrayTypeStep ==
  ASSUME ObjectInv, StrayTypeOK, ObjectNext
  PROVE  StrayTypeOK'
<1> DEFINE K == StrayKinds(subject)
<1>1. /\ subject \in Subjects /\ subject' = subject /\ inits \in Nat \ {0}
  BY AcquisitionAssumption
     DEF ObjectInv, HeldTypeOK, ObjectNext, Skip, Succeed, Fail, Release, Undone, Cleaned,
         Retry, Destruct, Gone, objectVars
<1>2. stray \subseteq K \X (1..inits)
  BY DEF StrayTypeOK
<1>3. stray \subseteq K \X (1..(inits + 1))
  BY <1>1, <1>2, PairsGrow
<1>4. CASE Succeed
  <2>1. calls[at].strays \subseteq K
    BY <1>1, <1>4, CallStrays DEF Succeed, Due, ObjectInv, calls
  <2>2. stray \cup calls[at].strays \X {inits} \subseteq K \X (1..inits)
    BY <1>1, <1>2, <2>1, PairsGrow
  <2>3. stray' \subseteq stray \cup calls[at].strays \X {inits} /\ inits' = inits
    BY <1>4 DEF Succeed
  <2> QED
    BY <1>1, <2>2, <2>3 DEF StrayTypeOK
<1>5. CASE Release
  <2>1. Refusable \subseteq K
    <3>1. CASE subject = "ivps"
      BY <3>1 DEF Refusable, StrayKinds
    <3>2. CASE subject = "vdec"
      <4>1. One("vchn") \notin All("blk")
        BY KindsDiffer
      <4>2. \A r \in Astray : r = One("vchn")
        BY <1>2, <3>2 DEF Astray, StrayKinds
      <4> QED
        BY <4>1, <4>2 DEF Refusable
    <3>3. CASE subject \notin {"ivps", "vdec"}
      <4>1. Astray = {}
        BY <1>2, <3>3 DEF Astray, StrayKinds
      <4> QED
        BY <4>1 DEF Refusable
    <3> QED
      BY <3>1, <3>2, <3>3
  <2>2. stray \cup Refusable \X {inits} \subseteq K \X (1..inits)
    BY <1>1, <1>2, <2>1, PairsGrow
  <2>3. stray' \subseteq stray \cup Refusable \X {inits} /\ inits' = inits
    BY <1>5 DEF Release
  <2> QED
    BY <1>1, <2>2, <2>3 DEF StrayTypeOK
<1>6. CASE Retry
  <2>1. stray' = stray /\ inits' = inits + 1
    BY <1>6 DEF Retry
  <2> QED
    BY <1>1, <1>3, <2>1 DEF StrayTypeOK
<1>7. CASE Skip \/ Fail \/ Undone \/ Cleaned \/ Destruct \/ Gone
  <2>1. stray' = stray /\ inits' = inits
    BY <1>7 DEF Skip, Fail, Undone, Cleaned, Destruct, Gone, objectVars
  <2> QED
    BY <1>1, <1>2, <2>1 DEF StrayTypeOK
<1> QED
  BY <1>4, <1>5, <1>6, <1>7 DEF ObjectNext

(* CreatePool has all its blocks back before the pool is noted.            *)
LEMMA BlocksBackSucceed ==
  ASSUME ObjectInv, StrayTypeOK, BlocksBack, Succeed
  PROVE  BlocksBack'
<1> SUFFICES ASSUME subject = "ivps" PROVE BlocksBack'
  BY DEF BlocksBack, Succeed
<1> DEFINE c == IvpsInit[at]
<1>1. /\ calls = IvpsInit /\ at \in 1..(6 + 3 * N) /\ phase = "init"
      /\ Len(calls) = 6 + 3 * N /\ inits \in Nat \ {0} /\ N \in Nat \ {0}
  BY CallsOf, Lengths, AcquisitionAssumption
     DEF Succeed, Due, ObjectInv, HeldTypeOK, calls, Length
<1>2. /\ subject' = subject /\ inits' = inits
      /\ noted' = noted \cup c.before \cup c.notes
      /\ stray' = (stray \cup c.strays \X {inits}) \ (c.returns \X {inits})
      /\ at' = at + 1 /\ (at + 1 <= 6 + 3 * N => phase' = "init")
      /\ c.once = {} \/ ~(c.once \subseteq noted)
  BY <1>1 DEF Succeed, Due, Proceed
<1>3. /\ c.before = {}
      /\ at \notin 3..(N + 2) => c.strays = {}
      /\ at \in 3..(N + 2) => c.strays = {<<"blk", at - 2>>} /\ c.once = {One("pool")}
      /\ at # N + 3 => One("pool") \notin c.notes
      /\ at = N + 3 => c.returns = All("blk") /\ c.once = {One("pool")}
  BY <1>1, IvpsStrays
<1>4. <<"blk", N>> \in All("blk")
  BY <1>1 DEF All
<1> HIDE DEF c
<1>5. CASE at \in 3..(N + 2)
  <2>1. One("pool") \notin noted /\ One("pool") \notin noted'
    <3>1. at # N + 3
      BY <1>1, <1>5
    <3>2. c.once = {One("pool")} /\ c.before = {} /\ One("pool") \notin c.notes
      BY <1>3, <1>5, <3>1
    <3> QED
      BY <1>2, <3>2
  <2>2. \A k \in 1..inits : <<<<"blk", N>>, k>> \notin stray
    BY <1>1, <1>5 DEF BlocksBack
  <2>3. ASSUME NEW k \in 1..inits, <<<<"blk", N>>, k>> \in stray'
        PROVE  phase' = "init" /\ at' = N + 3 /\ k = inits
    <3>1. <<<<"blk", N>>, k>> \in {<<"blk", at - 2>>} \X {inits}
      BY <1>2, <1>3, <1>5, <2>2, <2>3
    <3>2. N = at - 2 /\ k = inits
      BY <3>1
    <3>3. at = N + 2
      BY <1>1, <3>2
    <3>4. at + 1 = N + 3 /\ at + 1 <= 6 + 3 * N
      BY <1>1, <3>3
    <3> QED
      BY <1>2, <3>2, <3>4
  <2> QED
    BY <1>2, <2>1, <2>3 DEF BlocksBack
<1>6. CASE at = N + 3
  <2>1. c.strays = {} /\ c.returns = All("blk") /\ One("pool") \notin noted
    BY <1>1, <1>2, <1>3, <1>6
  <2>2. stray' = stray \ (All("blk") \X {inits})
    BY <1>2, <2>1
  <2>3. \A b \in All("blk") : <<b, inits>> \notin stray'
    BY <2>2
  <2>4. \A k \in 1..inits : <<<<"blk", N>>, k>> \in stray => k = inits
    BY DEF BlocksBack
  <2> QED
    BY <1>2, <1>4, <2>2, <2>3, <2>4 DEF BlocksBack
<1>7. CASE at \notin 3..(N + 2) /\ at # N + 3
  <2>1. stray' \subseteq stray /\ (One("pool") \in noted' => One("pool") \in noted)
    BY <1>2, <1>3, <1>7
  <2>2. \A k \in 1..inits : <<<<"blk", N>>, k>> \notin stray
    BY <1>7 DEF BlocksBack
  <2> QED
    BY <1>2, <2>1, <2>2 DEF BlocksBack
<1> QED
  BY <1>5, <1>6, <1>7

(* Every other step leaves them where they are.                            *)
LEMMA BlocksBackStep ==
  ASSUME ObjectInv, StrayTypeOK, BlocksBack, ObjectNext
  PROVE  BlocksBack'
<1>1. CASE Succeed
  BY <1>1, BlocksBackSucceed
<1> SUFFICES ASSUME subject = "ivps", ~Succeed PROVE BlocksBack'
  BY <1>1 DEF BlocksBack, ObjectNext, Skip, Fail, Release, Undone, Cleaned, Retry, Destruct,
              Gone, objectVars
<1>2. /\ calls = IvpsInit /\ inits \in Nat \ {0} /\ N \in Nat \ {0}
      /\ phase = "init" => at \in 1..(6 + 3 * N)
  BY CallsOf, Lengths, AcquisitionAssumption
     DEF ObjectInv, HeldTypeOK, calls, Length
<1>3. ASSUME NEW k \in 1..inits, <<<<"blk", N>>, k>> \in stray
      PROVE  phase = "init" /\ at = N + 3 /\ One("pool") \notin noted
  BY <1>3 DEF BlocksBack
<1>4. phase = "init" /\ at = N + 3 =>
         IvpsInit[at].once = {One("pool")} /\ ~IvpsInit[at].fails
  BY <1>2, IvpsStrays
<1>5. CASE Skip \/ Fail
  <2>1. /\ subject' = subject /\ inits' = inits /\ stray' = stray
    BY <1>5 DEF Skip, Fail
  <2>2. One("pool") \in noted' => One("pool") \in noted
    <3>1. CASE Skip
      BY <3>1 DEF Skip
    <3>2. CASE Fail
      <4>1. IvpsInit[at].before = {}
        BY <1>2, <3>2, IvpsStrays DEF Fail, Due
      <4> QED
        BY <1>2, <3>2, <4>1 DEF Fail
    <3> QED
      BY <1>5, <3>1, <3>2
  <2>3. \A k \in 1..inits : <<<<"blk", N>>, k>> \notin stray
    <3>1. CASE Skip
      BY <1>2, <1>3, <1>4, <3>1 DEF Skip
    <3>2. CASE Fail
      BY <1>2, <1>3, <1>4, <3>2 DEF Fail
    <3> QED
      BY <1>5, <3>1, <3>2
  <2> QED
    BY <2>1, <2>2, <2>3 DEF BlocksBack
<1>6. CASE Release
  <2>1. phase \in {"undo", "clean", "destroy"}
    BY <1>6, UnderWay DEF Release, ObjectInv
  <2>2. \A k \in 1..inits : <<<<"blk", N>>, k>> \notin stray
    BY <1>3, <2>1
  <2>3. /\ subject' = subject /\ inits' = inits /\ noted' \subseteq noted
        /\ stray' \subseteq stray \cup {One("pool")} \X {inits}
    BY <1>6 DEF Release, Refusable
  <2>4. One("pool") \notin All("blk") /\ <<"blk", N>> \in All("blk")
    BY <1>2, KindsDiffer DEF All
  <2>5. \A b \in All("blk"), k \in 1..inits : <<b, k>> \in stray' => <<b, k>> \in stray
    BY <2>3, <2>4
  <2> QED
    BY <1>2, <2>2, <2>3, <2>4, <2>5 DEF BlocksBack
<1>7. CASE Undone \/ Cleaned \/ Destruct \/ Gone
  <2>1. phase # "init"
    BY <1>7 DEF Undone, Cleaned, Destruct, Gone
  <2>2. subject' = subject /\ inits' = inits /\ noted' = noted /\ stray' = stray
    BY <1>7 DEF Undone, Cleaned, Destruct, Gone, objectVars
  <2>3. \A k \in 1..inits : <<<<"blk", N>>, k>> \notin stray
    BY <1>3, <2>1
  <2> QED
    BY <2>2, <2>3 DEF BlocksBack
<1>8. CASE Retry
  <2>1. phase # "init"
    BY <1>8 DEF Retry
  <2>2. subject' = subject /\ inits' = inits + 1 /\ noted' = noted /\ stray' = stray
    BY <1>8 DEF Retry
  <2>3. \A b : <<b, inits + 1>> \notin stray
    BY <1>2, PairsGrow DEF StrayTypeOK
  <2>4. \A k \in 1..(inits + 1) : k \in 1..inits \/ k = inits + 1
    BY <1>2
  <2>5. \A k \in 1..(inits + 1) : <<<<"blk", N>>, k>> \notin stray
    BY <1>3, <2>1, <2>3, <2>4
  <2> QED
    BY <2>2, <2>3, <2>5 DEF BlocksBack
<1> QED
  BY <1>5, <1>6, <1>7, <1>8 DEF ObjectNext

(* At the start nothing is astray, and every step keeps the whole.         *)
LEMMA StrayStarts == ObjectInit => StrayInv
BY KindsDiffer DEF ObjectInit, StrayInv, StrayTypeOK, BlocksBack

LEMMA IInvSteps == IInvObject /\ [ObjectNext]_objectVars => IInvObject'
<1>1. IInvObject /\ UNCHANGED objectVars => StrayInv'
  BY DEF objectVars, IInvObject, StrayInv, StrayTypeOK, BlocksBack
<1> QED
  BY <1>1, ObjectSteps, StrayTypeStep, BlocksBackStep DEF IInvObject, StrayInv

-----------------------------------------------------------------------------
(* The invariant's types are those of the model.                           *)
LEMMA TypesOK == IInvObject => ObjectTypeOK
<1> SUFFICES ASSUME IInvObject PROVE stray \subseteq Strays \X (1..inits)
  BY DEF IInvObject, ObjectInv, HeldTypeOK, ObjectTypeOK
<1>1. StrayKinds(subject) \subseteq Strays
  BY DEF StrayKinds, Strays
<1> QED
  BY <1>1 DEF IInvObject, StrayInv, StrayTypeOK

(* What is released is held, or the SDK says that it is not.               *)
LEMMA ReleasedIsHeld == IInvObject => ReleasesHeld
<1> SUFFICES ASSUME ObjectInv, NEW r \in Released PROVE r \in held \cup Tolerated(subject)
  BY TypesOK DEF ReleasesHeld, IInvObject
<1>1. /\ step <= Len(Releases) /\ r = Releases[step] /\ phase \in {"undo", "clean", "destroy"}
      /\ phase = "undo" \/ r \in noted
  BY UnderWay DEF Released, ObjectInv
<1>2. CASE phase = "undo"
  <2>1. Len(Releases) \in Nat /\ step \in step..Len(Releases)
    BY <1>1, <1>2, ListLen DEF ObjectInv, Undoing, Releases, Frees
  <2> QED
    BY <1>1, <1>2, <2>1 DEF ObjectInv, Undoing, Releases
<1>3. CASE phase # "undo"
  BY <1>1, <1>3 DEF ObjectInv, Cleaning, Rest
<1> QED
  BY <1>2, <1>3

(* What is still held does not need what is released.                      *)
LEMMA ReleasedIsUnneeded ==
  ASSUME ObjectInv, NEW r \in Released, NEW d \in held \ Released
  PROVE  r \notin Needs(d)
<1>1. /\ step <= Len(Releases) /\ r = Releases[step] /\ phase \in {"undo", "clean", "destroy"}
  BY UnderWay DEF Released, ObjectInv
<1>2. CASE phase = "undo"
  <2> DEFINE u == calls[at].undo
  <2>1. PICK rest \in SUBSET held :
          /\ held = rest \cup {u[k] : k \in step..Len(u)} /\ Frees(u, rest)
    BY <1>2 DEF ObjectInv, Undoing
  <2>2. Releases = u /\ Len(u) \in Nat /\ step \in 1..Len(u)
    BY <1>1, <1>2, <2>1, ListLen DEF ObjectInv, Undoing, Releases, Frees
  <2>3. \A e \in {u[k] : k \in step..Len(u)} : u[step] \notin Needs(e)
    BY <2>1, <2>2, LeftOver DEF Frees
  <2>4. \A e \in rest : u[step] \notin Needs(e)
    BY <2>1, <2>2 DEF Frees, Rng
  <2> QED
    BY <1>1, <2>1, <2>2, <2>3, <2>4
<1>3. CASE phase # "undo"
  <2>1. /\ Len(Releases) \in Nat /\ step \in 1..Len(Releases)
        /\ held \subseteq {Releases[k] : k \in step..Len(Releases)}
                    \cup (IF phase = "clean" THEN Rng(Members(subject)) ELSE {})
        /\ subject \in Subjects
    BY <1>1, <1>3, CleaningLists DEF ObjectInv, HeldTypeOK, Cleaning
  <2>2. \A e \in {Releases[k] : k \in step..Len(Releases)} : r \notin Needs(e)
    BY <1>1, <1>3, <2>1, CleaningLists, LeftOver DEF ObjectInv
  <2>3. ASSUME phase = "clean", d \in Rng(Members(subject)) PROVE r \notin Needs(d)
    <3>1. \A e \in Rng(Members(subject)) : Needs(e) = {}
      <4>1. Needs(<<"ivps", 1>>) = {} /\ Needs(<<"ivps", 2>>) = {}
        BY NeedsNothing
      <4>2. Rng(<<>>) = {} /\ Rng(BusMembers) = {<<"ivps", 1>>, <<"ivps", 2>>}
        BY DEF Rng, BusMembers
      <4> QED
        BY <4>1, <4>2 DEF Members
    <3> QED
      BY <2>3, <3>1
  <2> QED
    BY <2>1, <2>2, <2>3
<1> QED
  BY <1>2, <1>3

(* What is astray does, in the two places only.                            *)
LEMMA ReleasedIsUsed ==
  ASSUME IInvObject, NEW r \in Released, NEW d \in Astray, r \in Needs(d)
  PROVE  \/ r = One("pool") /\ subject = "ivps" /\ phase = "undo"
         \/ r = One("grp") /\ subject = "vdec"
<1>1. /\ step <= Len(Releases) /\ phase \in {"undo", "clean", "destroy"}
      /\ phase = "undo" \/ r \in noted
  BY UnderWay DEF Released, ObjectInv, IInvObject
<1>2. <<d, inits>> \in stray /\ d \in StrayKinds(subject)
  BY DEF Astray, IInvObject, StrayInv, StrayTypeOK
<1>3. CASE subject = "ivps"
  <2>1. d # One("pool")
    <3>1. Needs(<<"pool", 1>>) = {}
      BY NeedsNothing
    <3> QED
      BY <3>1 DEF One
  <2>2. d \in All("blk")
    BY <1>2, <1>3, <2>1 DEF StrayKinds
  <2>3. r = One("pool")
    BY <2>2, NeedsSome DEF All
  <2>4. One("pool") \notin noted
    BY <1>2, <1>3, <2>2 DEF IInvObject, StrayInv, BlocksBack
  <2> QED
    BY <1>1, <1>3, <2>3, <2>4
<1>4. CASE subject = "vdec"
  <2>1. d = One("vchn")
    BY <1>2, <1>4 DEF StrayKinds
  <2> QED
    BY <1>4, <2>1, NeedsSome DEF One
<1>5. CASE subject \notin {"ivps", "vdec"}
  BY <1>2, <1>5 DEF StrayKinds
<1> QED
  BY <1>3, <1>4, <1>5

(* What is left at the end.                                                *)
LEMMA OnlyLeavings == IInvObject => NothingLeft
<1> SUFFICES ASSUME IInvObject, phase = "gone"
             PROVE  /\ held = {}
                    /\ \A x \in stray :
                         subject \in DOMAIN Leavings /\ x[1] \in Leavings[subject]
  BY DEF NothingLeft
<1>1. held = {}
  BY DEF IInvObject, ObjectInv
<1>2. ASSUME NEW x \in stray
      PROVE  subject \in DOMAIN Leavings /\ x[1] \in Leavings[subject]
  <2>1. x = <<x[1], x[2]>> /\ x[1] \in StrayKinds(subject) /\ x[2] \in 1..inits
    BY <1>2 DEF IInvObject, StrayInv, StrayTypeOK
  <2>2. CASE subject = "ivps"
    <3>1. CASE x[1] \in All("blk")
      <4>1. PICK i \in 1..N : x[1] = <<"blk", i>>
        BY <3>1 DEF All
      <4>2. i # N
        BY <2>1, <2>2, <4>1 DEF IInvObject, StrayInv, BlocksBack
      <4>3. i \in 1..(N - 1)
        BY <4>1, <4>2, AcquisitionAssumption
      <4> QED
        BY <2>2, <4>1, <4>3 DEF Leavings
    <3>2. CASE x[1] = One("pool")
      BY <2>2, <3>2 DEF Leavings
    <3> QED
      BY <2>1, <2>2, <3>1, <3>2 DEF StrayKinds
  <2>3. CASE subject = "vdec"
    BY <2>1, <2>3 DEF StrayKinds, Leavings
  <2>4. CASE subject \notin {"ivps", "vdec"}
    BY <2>1, <2>4 DEF StrayKinds
  <2> QED
    BY <2>2, <2>3, <2>4
<1> QED
  BY <1>1, <1>2

(* No buffer, id, group, handle or library is released twice or unheld,    *)
(* whichever call of Init failed and however often Init was called.        *)
THEOREM ReleasesHeldCorrect == ObjectSpec => []ReleasesHeld
BY ObjectStarts, StrayStarts, IInvSteps, ReleasedIsHeld, PTL DEF ObjectSpec, IInvObject

(* A plugin is destroyed before its library is closed, a thread pool before*)
(* the clients its jobs use, a channel before its group: nothing is        *)
(* released under something that needs it, on any error path or clean-up,  *)
(* but for the pool of a CreatePool that fails, the only place where blocks*)
(* lose theirs, and a VDEC group under its channel.                        *)
THEOREM DependentsFirstCorrect == ObjectSpec => []DependentsFirst
<1>1. IInvObject => DependentsFirst
  BY ReleasedIsUnneeded, ReleasedIsUsed DEF DependentsFirst, IInvObject
<1>2. ObjectInit => IInvObject
  BY ObjectStarts, StrayStarts DEF IInvObject
<1> QED
  BY <1>1, <1>2, IInvSteps, PTL DEF ObjectSpec

(* Whatever sequence of calls failed and succeeded, an object that is gone *)
(* has given back all its members record, and the most it leaves is what   *)
(* CreatePool leaves when it fails (never all the blocks, for the last is  *)
(* taken only when no call is left that can fail) and the VDEC channel.    *)
THEOREM NothingLeftCorrect == ObjectSpec => []NothingLeft
<1>1. ObjectInit => IInvObject
  BY ObjectStarts, StrayStarts DEF IInvObject
<1> QED
  BY <1>1, OnlyLeavings, IInvSteps, PTL DEF ObjectSpec

--------------------------------------------------
(* The closures the gate counts *)

LEMMA InflightFinite == IsFiniteSet(Inflight) /\ Cardinality(Inflight) \in Nat
  BY PluginHostAssumption, FS_Subset, FS_CardinalityType DEF Inflight

(* A closure that enters the count adds one, one that leaves takes one.    *)
LEMMA CountGrows ==
  ASSUME NEW j \in Jobs, j \notin Inflight
  PROVE  Cardinality(Inflight \cup {j}) = Cardinality(Inflight) + 1
BY InflightFinite, FS_AddElement

LEMMA CountShrinks ==
  ASSUME NEW j \in Inflight
  PROVE  /\ Cardinality(Inflight \ {j}) = Cardinality(Inflight) - 1
         /\ Cardinality(Inflight) \in Nat \ {0}
BY InflightFinite, FS_RemoveElement, FS_EmptySet

(* How a change of one closure's state changes the counted set.            *)
LEMMA InflightStep ==
  ASSUME TypeOK, NEW j \in Jobs, NEW s \in JobStates, job' = [job EXCEPT ![j] = s]
  PROVE  Inflight' = IF s \in {"counted", "queued", "running", "threw"}
                     THEN Inflight \cup {j} ELSE Inflight \ {j}
BY DEF TypeOK, Inflight

-----------------------------------------------------------------------------
(* Type correctness needs the count: CountOut keeps it a natural number    *)
(* because a running closure is counted.  Both are proved together.        *)

IInv == TypeOK /\ GateInv

LEMMA InitHolds == Init => IInv
<1> SUFFICES ASSUME Init PROVE IInv
  OBVIOUS
<1>1. TypeOK
  BY PluginHostAssumption DEF Init, TypeOK, HostPcs, WorkerPcs, JobStates
<1>2. Inflight = {}
  BY DEF Init, Inflight
<1> QED
  BY <1>1, <1>2, FS_EmptySet DEF Init, IInv, GateInv, Unloaded

(* The steps of the host thread.                                           *)
LEMMA HostStep ==
  ASSUME IInv,
         \/ \E j \in Jobs : CountIn(j)
         \/ SubmitAsync \/ Unload \/ Unloading \/ SpuriousWake
  PROVE  IInv'
<1> USE DEF IInv
<1>1. ASSUME NEW j \in Jobs, CountIn(j) PROVE IInv'
  <2>1. TypeOK'
    BY <1>1, PluginHostAssumption DEF CountIn, TypeOK, HostPcs, JobStates,
       gateVars, poolVars, libVars
  <2>2. j \notin Inflight /\ Inflight' = Inflight \cup {j}
    BY <1>1, InflightStep DEF CountIn, Inflight, JobStates
  <2>3. count' = Cardinality(Inflight')
    BY <1>1, <2>2, CountGrows DEF CountIn, GateInv
  <2>4. \A w \in Workers : worker[w] = "run" => running[w] # j
    BY <1>1 DEF CountIn, GateInv
  <2> QED
    BY <1>1, <2>1, <2>3, <2>4 DEF CountIn, GateInv, TypeOK, Unloaded, poolVars,
       libVars
<1>2. CASE Submit
  <2>1. TypeOK'
    BY <1>2, PluginHostAssumption DEF Submit, TypeOK, HostPcs, JobStates,
       gateVars, poolVars, libVars
  <2>2. submitting \in Jobs /\ job[submitting] = "counted"
    BY <1>2 DEF Submit, TypeOK, GateInv
  <2>3. Inflight' = Inflight
    BY <1>2, <2>2 DEF Submit, TypeOK, Inflight
  <2> QED
    BY <1>2, <2>1, <2>2, <2>3 DEF Submit, GateInv, TypeOK, Unloaded, gateVars,
       poolVars, libVars
<1>3. CASE CountRefused
  <2>1. submitting \in Jobs /\ job[submitting] = "counted"
    BY <1>3 DEF CountRefused, TypeOK, GateInv
  <2>2. submitting \in Inflight /\ Inflight' = Inflight \ {submitting}
    BY <1>3, <2>1, InflightStep DEF CountRefused, Inflight, JobStates
  <2>3. count' = Cardinality(Inflight') /\ count' \in Nat
    BY <1>3, <2>2, CountShrinks DEF CountRefused, GateInv
  <2>4. TypeOK'
    BY <1>3, <2>3, PluginHostAssumption DEF CountRefused, TypeOK, HostPcs,
       JobStates, poolVars, libVars
  <2>5. \A w \in Workers : worker[w] = "run" => running[w] # submitting
    BY <2>1 DEF GateInv
  <2> QED
    BY <1>3, <2>1, <2>3, <2>4, <2>5 DEF CountRefused, GateInv, TypeOK,
       Unloaded, poolVars, libVars
<1>4. CASE Unload \/ FallAsleep \/ SpuriousWake
  <2>1. TypeOK'
    BY <1>4, PluginHostAssumption DEF Unload, FallAsleep, SpuriousWake, TypeOK,
       HostPcs, gateVars, poolVars, libVars
  <2> QED
    BY <1>4, <2>1 DEF Unload, FallAsleep, SpuriousWake, GateInv, Inflight,
       Unloaded, TypeOK,
       gateVars, poolVars, libVars
<1>5. CASE Check
  <2>1. TypeOK'
    BY <1>5, PluginHostAssumption DEF Check, TypeOK, HostPcs, gateVars,
       poolVars, libVars
  <2>2. count = 0 => Inflight = {}
    BY InflightFinite, FS_EmptySet DEF GateInv
  <2> QED
    BY <1>5, <2>1, <2>2 DEF Check, GateInv, Inflight, Unloaded, TypeOK,
       poolVars, libVars
<1>6. CASE ShutdownPlugin \/ DestroyPlugin \/ Dlclose \/ StopPool \/ JoinPool
  <2>1. TypeOK'
    BY <1>6, PluginHostAssumption DEF ShutdownPlugin, DestroyPlugin, Dlclose,
       StopPool, JoinPool,
       TypeOK, HostPcs, gateVars, poolVars, libVars
  <2> QED
    BY <1>6, <2>1 DEF ShutdownPlugin, DestroyPlugin, Dlclose, StopPool,
       JoinPool, GateInv,
       Inflight, Unloaded, TypeOK, gateVars, poolVars, libVars
<1> QED
  BY <1>1, <1>2, <1>3, <1>4, <1>5, <1>6 DEF SubmitAsync, Unloading

(* The steps of a pool thread.                                             *)
LEMMA PoolStep ==
  ASSUME IInv, NEW w \in Workers, PoolThread(w)
  PROVE  IInv'
<1> USE DEF IInv
<1>1. CASE Take(w)
  <2>1. PICK j \in Jobs : /\ job[j] = "queued"
                          /\ job' = [job EXCEPT ![j] = "running"]
                          /\ running' = [running EXCEPT ![w] = j]
    BY <1>1 DEF Take, InState
  <2>2. TypeOK'
    BY <1>1, <2>1, PluginHostAssumption DEF Take, TypeOK, WorkerPcs, JobStates,
       gateVars, libVars
  <2>3. Inflight' = Inflight
    BY <2>1, InflightStep DEF Inflight, JobStates
  <2>4. \A v \in Workers : worker[v] = "run" => running[v] # j
    BY <2>1 DEF GateInv
  <2> QED
    BY <1>1, <2>1, <2>2, <2>3, <2>4 DEF Take, GateInv, TypeOK, Unloaded,
       gateVars, libVars
<1>2. CASE CountOut(w)
  <2>1. running[w] \in Jobs /\ job[running[w]] = "running"
    BY <1>2 DEF CountOut, TypeOK, GateInv
  <2>2. running[w] \in Inflight /\ Inflight' = Inflight \ {running[w]}
    BY <1>2, <2>1, InflightStep DEF CountOut, Inflight, JobStates
  <2>3. count' = Cardinality(Inflight') /\ count' \in Nat
    BY <1>2, <2>2, CountShrinks DEF CountOut, GateInv
  <2>4. TypeOK'
    BY <1>2, <2>1, <2>3, PluginHostAssumption DEF CountOut, TypeOK, WorkerPcs,
       JobStates, libVars
  <2>5. \A v \in Workers : worker'[v] = "run" => running[v] # running[w]
    BY <1>2 DEF CountOut, TypeOK, GateInv
  <2> QED
    BY <1>2, <2>1, <2>2, <2>3, <2>4, <2>5 DEF CountOut, GateInv, TypeOK,
       Unloaded, libVars
<1>3. CASE JobThrows(w)
  <2>1. running[w] \in Jobs /\ job[running[w]] = "running"
    BY <1>3 DEF JobThrows, TypeOK, GateInv
  <2>2. TypeOK'
    BY <1>3, <2>1, PluginHostAssumption DEF JobThrows, TypeOK, WorkerPcs,
       JobStates, gateVars, libVars
  <2>3. Inflight' = Inflight
    BY <1>3, <2>1, InflightStep DEF JobThrows, Inflight, JobStates
  <2>4. \A v \in Workers : worker'[v] = "run" => running[v] # running[w]
    BY <1>3 DEF JobThrows, TypeOK, GateInv
  <2> QED
    BY <1>3, <2>1, <2>2, <2>3, <2>4 DEF JobThrows, GateInv, TypeOK, Unloaded,
       gateVars, libVars
<1>4. CASE NotifyGate(w)
  <2>1. TypeOK'
    BY <1>4, PluginHostAssumption DEF NotifyGate, TypeOK, HostPcs, WorkerPcs,
       gateVars, libVars
  <2> QED
    BY <1>4, <2>1 DEF NotifyGate, GateInv, Inflight, TypeOK, Unloaded,
       gateVars, libVars
<1>5. CASE DropClosure(w)
  <2>1. TypeOK'
    BY <1>5, PluginHostAssumption DEF DropClosure, TypeOK, WorkerPcs, gateVars,
       libVars
  <2> QED
    BY <1>5, <2>1 DEF DropClosure, GateInv, Inflight, TypeOK, Unloaded,
       gateVars, libVars
<1>6. CASE WorkerExit(w)
  <2>1. TypeOK'
    BY <1>6, PluginHostAssumption DEF WorkerExit, TypeOK, WorkerPcs, gateVars,
       libVars
  <2> QED
    BY <1>6, <2>1 DEF WorkerExit, GateInv, Inflight, TypeOK, Unloaded,
       gateVars, libVars
<1> QED
  BY <1>1, <1>2, <1>3, <1>4, <1>5, <1>6 DEF PoolThread

LEMMA StepKeeps == IInv /\ [Next]_vars => IInv'
<1>1. IInv /\ UNCHANGED vars => IInv'
  BY DEF IInv, TypeOK, GateInv, Inflight, vars, gateVars, poolVars, libVars
<1> QED
  BY <1>1, HostStep, PoolStep DEF Next

(* Every variable keeps its type; count never goes below zero.             *)
THEOREM TypeCorrect == Spec => []TypeOK
BY InitHolds, StepKeeps, PTL DEF Spec, IInv

(* The gate counts exactly the closures in flight, so once WaitQuiesce has *)
(* returned nothing is queued or running.                                  *)
THEOREM GateCorrect == Spec => []GateInv
BY InitHolds, StepKeeps, PTL DEF Spec, IInv

-----------------------------------------------------------------------------
(* The plugin object obeys ObjectLifetime. *)

InPlugin == {w \in Workers : worker[w] = "run"}

LEMMA PluginLifeStep ==
  ASSUME IInv, [Next]_vars
  PROVE  \/ \E w \in Workers :
              \/ plugin /\ UNCHANGED plugin /\ InPlugin' = InPlugin \cup {w}
              \/ UNCHANGED plugin /\ InPlugin' = InPlugin \ {w}
         \/ plugin /\ InPlugin = {} /\ UNCHANGED InPlugin /\ plugin' = FALSE
         \/ UNCHANGED <<plugin, InPlugin>>
<1> DEFINE Goal ==
         \/ \E w \in Workers :
              \/ plugin /\ UNCHANGED plugin /\ InPlugin' = InPlugin \cup {w}
              \/ UNCHANGED plugin /\ InPlugin' = InPlugin \ {w}
         \/ plugin /\ InPlugin = {} /\ UNCHANGED InPlugin /\ plugin' = FALSE
         \/ UNCHANGED <<plugin, InPlugin>>
<1> SUFFICES Goal
  OBVIOUS
<1>1. ASSUME NEW w \in Workers, Take(w) PROVE Goal
  <2>1. Inflight # {}
    BY <1>1 DEF Take, InState, Inflight
  <2>2. plugin
    BY <2>1 DEF IInv, GateInv, Unloaded
  <2>3. InPlugin' = InPlugin \cup {w}
    BY <1>1 DEF Take, InPlugin, IInv, TypeOK
  <2> QED
    BY <1>1, <2>2, <2>3 DEF Take, libVars
<1>2. ASSUME NEW w \in Workers,
             CountOut(w) \/ JobThrows(w) \/ NotifyGate(w) \/ DropClosure(w) \/ WorkerExit(w)
      PROVE  Goal
  <2>1. InPlugin' = InPlugin \ {w}
    BY <1>2 DEF CountOut, JobThrows, NotifyGate, DropClosure, WorkerExit,
       InPlugin, IInv, TypeOK
  <2> QED
    BY <1>2, <2>1 DEF CountOut, JobThrows, NotifyGate, DropClosure, WorkerExit,
       libVars
<1>3. CASE DestroyPlugin
  <2>1. plugin /\ Inflight = {}
    BY <1>3 DEF DestroyPlugin, IInv, GateInv, Unloaded
  <2>2. InPlugin = {}
    BY <2>1 DEF InPlugin, Inflight, IInv, GateInv, TypeOK
  <2> QED
    BY <1>3, <2>1, <2>2 DEF DestroyPlugin, InPlugin, poolVars
<1>4. CASE UNCHANGED <<plugin, worker>>
  BY <1>4 DEF InPlugin
<1> QED
  BY <1>1, <1>2, <1>3, <1>4 DEF Next, PoolThread, SubmitAsync, Unloading, vars,
     CountIn, Submit,
     CountRefused, Unload, SpuriousWake, Check, FallAsleep, ShutdownPlugin, Dlclose, StopPool,
     JoinPool, poolVars, libVars

(* Unload destroys the plugin once and beside no job, for any pool.        *)
THEOREM PluginOutlivesJobs == Spec => PluginLifetime
<1>1. Init => PluginLife!LifeInit
  <2> SUFFICES ASSUME Init PROVE PluginLife!LifeInit
    OBVIOUS
  <2>1. InPlugin = {} /\ plugin = TRUE
    BY DEF Init, InPlugin
  <2> QED
    BY <2>1 DEF PluginLife!LifeInit, InPlugin
<1>2. IInv /\ [Next]_vars => [PluginLife!LifeNext]_(PluginLife!lifeVars)
  <2> SUFFICES ASSUME IInv, [Next]_vars
               PROVE  [PluginLife!LifeNext]_(PluginLife!lifeVars)
    OBVIOUS
  <2> DEFINE alive == [o \in {"plugin"} |-> plugin]
             users == [o \in {"plugin"} |-> InPlugin]
  <2>1. alive["plugin"] = plugin /\ users["plugin"] = InPlugin
    BY Zenon
  <2>2. UNCHANGED plugin => UNCHANGED alive
    BY Zenon
  <2>3. UNCHANGED InPlugin => UNCHANGED users
    OBVIOUS
  <2>4. plugin' = FALSE => alive' = [alive EXCEPT !["plugin"] = FALSE]
    BY Zenon
  <2>5. users' = [o \in {"plugin"} |-> InPlugin'] /\ users'["plugin"] = InPlugin'
    OBVIOUS
  <2>6. CASE UNCHANGED <<plugin, InPlugin>>
    BY <2>2, <2>3, <2>6 DEF PluginLife!lifeVars, InPlugin
  <2>7. ASSUME UNCHANGED plugin, plugin \/ InPlugin' \subseteq InPlugin
        PROVE  PluginLife!Use
    <3>1. users' \in [{"plugin"} -> SUBSET Workers]
      BY <2>5 DEF InPlugin
    <3>2. \A o \in {"plugin"} : alive[o] \/ users'[o] \subseteq users[o]
      BY <2>1, <2>5, <2>7
    <3> QED
      BY <2>2, <2>7, <3>1, <3>2, Zenon DEF PluginLife!Use, InPlugin
  <2>8. ASSUME plugin, InPlugin = {}, UNCHANGED InPlugin, plugin' = FALSE
        PROVE  PluginLife!Destroy("plugin")
    BY <2>1, <2>3, <2>4, <2>8, Zenon DEF PluginLife!Destroy, InPlugin
  <2>9. CASE \E w \in Workers :
               \/ plugin /\ UNCHANGED plugin /\ InPlugin' = InPlugin \cup {w}
               \/ UNCHANGED plugin /\ InPlugin' = InPlugin \ {w}
    BY <2>7, <2>9 DEF PluginLife!LifeNext
  <2> QED
    BY PluginLifeStep, <2>6, <2>8, <2>9, Zenon DEF PluginLife!LifeNext
<1> QED
  BY <1>1, <1>2, InitHolds, StepKeeps, PTL DEF Spec, PluginLifetime,
     PluginLife!LifeSpec
=============================================================================
