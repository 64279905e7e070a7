--------------------------- MODULE LogWriterProofs ---------------------------
(***************************************************************************)
(* The log writer for any number of lines, sizes, days and failures.       *)
(***************************************************************************)
EXTENDS LogWriter, FiniteSetTheorems, SequenceTheorems, TLAPS

(* autoFlush's own line is the last but never comes twice.                 *)
BoundInv == accepted <= MaxLines \/ flPc \in {"last flush", "close", "stopped"}

(* An idle writer has nothing in its hand; the application writes to the   *)
(* file only while it holds bufferMutex.                                   *)
HandInv ==
  /\ \A w \in Writer : stage[w] = "idle" => hand[w] = << >>
  /\ hand[App] # << >> => mutex = App

(* fileHandle is the handle opened last, or nil; there is none while one   *)
(* is about to be opened, and a closed one while it is about to be nil.    *)
FileInv ==
  /\ rotDay <= today
  /\ fileHandle \in {NoFile, Len(fd)}
  /\ fd # << >> => fd[Len(fd)].day <= rotDay
  /\ NoFileLeaked
  /\ rotPc = "open" => fileHandle = NoFile
  /\ logMutex # "free" => fileHandle # NoFile /\ ~fd[fileHandle].open

(* autoFlush closes the file when the output is closed, the rotation when  *)
(* the day has changed.                                                    *)
CloseInv ==
  /\ flPc \in {"say", "last flush", "close", "stopped"} => closeSent
  /\ logMutex = Flusher => closeSent
  /\ rotPc = "close" /\ fileHandle # NoFile => today > 0
  /\ (\E h \in DOMAIN fd : ~fd[h].open) => closeSent \/ today > 0

(* No file of a later day than the handle opened last has been written.    *)
ContentInv ==
  \A d \in Day : content[d] # << >> => fd # << >> /\ d <= fd[Len(fd)].day

(* Unless a forced flush overtakes waiting lines: what is written is older *)
(* than what is in a hand, and that than what is in the buffer; whoever    *)
(* writes with the mutex held has nobody's lines before it.                *)
Written == ToSet(stdout) \cup UNION {ToSet(content[d]) : d \in Day}

OrderInv ==
  ~overtaken =>
    /\ flushForce \/ mutex # "free" => buffer = << >>
    /\ flushForce => hand[Flusher] = << >> \/ mutex = Flusher
    /\ mutex = App => hand[Flusher] = << >>
    /\ Increasing(buffer)
    /\ Before(Written, ToSet(buffer))
    /\ \A w \in Writer : /\ Increasing(hand[w])
                         /\ Before(Written, ToSet(hand[w]))
                         /\ Before(ToSet(hand[w]), ToSet(buffer))

IInv ==
  /\ TypeOK /\ BoundInv /\ HandInv /\ FileInv /\ CloseInv /\ ContentInv
  /\ EachLineOnce /\ OrderInv /\ InOrder

-----------------------------------------------------------------------------
(* Sequences of lines.                                                     *)
LEMMA ConcatSet ==
  ASSUME NEW S, NEW s \in Seq(S), NEW t \in Seq(S)
  PROVE ToSet(s \o t) = ToSet(s) \cup ToSet(t)
<1>1. /\ Len(s \o t) = Len(s) + Len(t)
      /\ \A i \in 1..Len(s) + Len(t) :
           (s \o t)[i] = IF i <= Len(s) THEN s[i] ELSE t[i - Len(s)]
      /\ s \o t \in Seq(S)
  BY ConcatProperties
<1>2. Len(s) \in Nat /\ Len(t) \in Nat
  OBVIOUS
<1>3. ASSUME NEW x \in ToSet(s \o t) PROVE x \in ToSet(s) \cup ToSet(t)
  <2>1. PICK i \in 1..Len(s) + Len(t) : x = (s \o t)[i]
    BY <1>1, <1>3 DEF ToSet
  <2>2. CASE i <= Len(s)
    BY <1>1, <1>2, <2>1, <2>2 DEF ToSet
  <2>3. CASE i > Len(s)
    <3>1. i - Len(s) \in DOMAIN t /\ x = t[i - Len(s)]
      BY <1>1, <1>2, <2>1, <2>3
    <3> QED
      BY <3>1 DEF ToSet
  <2> QED
    BY <1>2, <2>2, <2>3
<1>4. ASSUME NEW i \in DOMAIN s PROVE s[i] \in ToSet(s \o t)
  <2>1. i \in DOMAIN (s \o t) /\ (s \o t)[i] = s[i]
    BY <1>1, <1>2
  <2> QED
    BY <2>1 DEF ToSet
<1>5. ASSUME NEW i \in DOMAIN t PROVE t[i] \in ToSet(s \o t)
  <2>1. Len(s) + i \in DOMAIN (s \o t) /\ (s \o t)[Len(s) + i] = t[i]
    BY <1>1, <1>2
  <2> QED
    BY <2>1 DEF ToSet
<1> QED
  BY <1>3, <1>4, <1>5 DEF ToSet

LEMMA OneElement ==
  ASSUME NEW n
  PROVE /\ <<n>> \in Seq({n})
        /\ ToSet(<<n>>) = {n} /\ IsInjective(<<n>>) /\ Increasing(<<n>>)
<1>1. DOMAIN <<n>> = {1} /\ <<n>>[1] = n
  OBVIOUS
<1> QED
  BY <1>1 DEF ToSet, IsInjective, Increasing

LEMMA NoElement ==
  ToSet(<< >>) = {} /\ IsInjective(<< >>) /\ Increasing(<< >>)
BY DEF ToSet, IsInjective, Increasing

LEMMA LineSet ==
  ASSUME NEW S, NEW s \in Seq(S)
  PROVE ToSet(s) \subseteq S
BY DEF ToSet

LEMMA ConcatInjective ==
  ASSUME NEW S, NEW s \in Seq(S), NEW t \in Seq(S),
         IsInjective(s), IsInjective(t), ToSet(s) \cap ToSet(t) = {}
  PROVE IsInjective(s \o t)
<1>1. /\ Len(s \o t) = Len(s) + Len(t)
      /\ \A i \in 1..Len(s) + Len(t) :
           (s \o t)[i] = IF i <= Len(s) THEN s[i] ELSE t[i - Len(s)]
      /\ s \o t \in Seq(S)
  BY ConcatProperties
<1>2. Len(s) \in Nat /\ Len(t) \in Nat
  OBVIOUS
<1> SUFFICES ASSUME NEW i \in 1..Len(s) + Len(t), NEW j \in 1..Len(s) + Len(t),
                    (s \o t)[i] = (s \o t)[j]
             PROVE i = j
  BY <1>1 DEF IsInjective
<1>3. \A a \in DOMAIN s, b \in DOMAIN t : s[a] # t[b]
  BY DEF ToSet
<1>4. CASE i <= Len(s) /\ j <= Len(s)
  <2>1. i \in DOMAIN s /\ j \in DOMAIN s /\ s[i] = s[j]
    BY <1>1, <1>2, <1>4
  <2> QED
    BY <2>1 DEF IsInjective
<1>5. CASE i > Len(s) /\ j > Len(s)
  <2>1. /\ i - Len(s) \in DOMAIN t /\ j - Len(s) \in DOMAIN t
        /\ t[i - Len(s)] = t[j - Len(s)]
    BY <1>1, <1>2, <1>5
  <2>2. i - Len(s) = j - Len(s)
    BY <2>1 DEF IsInjective
  <2> QED
    BY <1>2, <2>2
<1>6. CASE i <= Len(s) /\ j > Len(s)
  <2>1. i \in DOMAIN s /\ j - Len(s) \in DOMAIN t /\ s[i] = t[j - Len(s)]
    BY <1>1, <1>2, <1>6
  <2> QED
    BY <1>3, <2>1
<1>7. CASE i > Len(s) /\ j <= Len(s)
  <2>1. j \in DOMAIN s /\ i - Len(s) \in DOMAIN t /\ s[j] = t[i - Len(s)]
    BY <1>1, <1>2, <1>7
  <2> QED
    BY <1>3, <2>1
<1> QED
  BY <1>2, <1>4, <1>5, <1>6, <1>7

(* The first k elements of a sequence, and the others.                     *)
First(b, k) == SubSeq(b, 1, k)
Others(b, k) == {b[i] : i \in k+1..Len(b)}

LEMMA Parts ==
  ASSUME NEW S, NEW b \in Seq(S), NEW k \in 0..Len(b)
  PROVE /\ First(b, k) \in Seq(S)
        /\ ToSet(b) = ToSet(First(b, k)) \cup Others(b, k)
        /\ Others(b, k) \subseteq S
        /\ IsInjective(b) =>
             IsInjective(First(b, k)) /\ ToSet(First(b, k)) \cap Others(b, k) = {}
        /\ Increasing(b) => Increasing(First(b, k))
<1> DEFINE s == First(b, k)
<1>1. /\ s \in Seq(S) /\ DOMAIN s = 1..k /\ \A i \in 1..k : s[i] = b[i]
      /\ k \in Nat /\ Len(b) \in Nat /\ DOMAIN b = 1..Len(b)
      /\ 1..Len(b) = (1..k) \cup (k+1..Len(b))
      /\ (1..k) \cap (k+1..Len(b)) = {}
  BY SubSeqProperties DEF First
<1> HIDE DEF s
<1>2. ToSet(s) = {b[i] : i \in 1..k} /\ ToSet(b) = {b[i] : i \in 1..Len(b)}
  BY <1>1 DEF ToSet
<1>3. ToSet(b) = ToSet(s) \cup Others(b, k)
  BY <1>1, <1>2 DEF Others
<1>4. Others(b, k) \subseteq S
  BY <1>1 DEF Others
<1>5. ASSUME IsInjective(b) PROVE IsInjective(s) /\ ToSet(s) \cap Others(b, k) = {}
  <2>1. \A i, j \in 1..Len(b) : b[i] = b[j] => i = j
    BY <1>1, <1>5 DEF IsInjective
  <2>2. IsInjective(s)
    BY <1>1, <2>1 DEF IsInjective
  <2> QED
    BY <1>1, <1>2, <2>1, <2>2 DEF Others
<1>6. ASSUME Increasing(b) PROVE Increasing(s)
  BY <1>1, <1>6 DEF Increasing
<1> QED
  BY <1>1, <1>3, <1>4, <1>5, <1>6 DEF s

LEMMA ConcatIncreasing ==
  ASSUME NEW s \in Seq(Nat), NEW t \in Seq(Nat),
         Increasing(s), Increasing(t), Before(ToSet(s), ToSet(t))
  PROVE Increasing(s \o t)
<1>1. /\ Len(s \o t) = Len(s) + Len(t)
      /\ \A i \in 1..Len(s) + Len(t) :
           (s \o t)[i] = IF i <= Len(s) THEN s[i] ELSE t[i - Len(s)]
      /\ s \o t \in Seq(Nat)
  BY ConcatProperties
<1>2. Len(s) \in Nat /\ Len(t) \in Nat
  OBVIOUS
<1> SUFFICES ASSUME NEW i \in 1..Len(s) + Len(t), NEW j \in 1..Len(s) + Len(t), i < j
             PROVE (s \o t)[i] < (s \o t)[j]
  BY <1>1 DEF Increasing
<1>3. \A a \in DOMAIN s, b \in DOMAIN t : s[a] < t[b]
  BY DEF ToSet, Before
<1>4. CASE j <= Len(s)
  <2>1. /\ i \in DOMAIN s /\ j \in DOMAIN s
        /\ (s \o t)[i] = s[i] /\ (s \o t)[j] = s[j]
    BY <1>1, <1>2, <1>4
  <2> QED
    BY <2>1 DEF Increasing
<1>5. CASE i > Len(s)
  <2>1. /\ i - Len(s) \in DOMAIN t /\ j - Len(s) \in DOMAIN t
        /\ i - Len(s) < j - Len(s)
        /\ (s \o t)[i] = t[i - Len(s)] /\ (s \o t)[j] = t[j - Len(s)]
    BY <1>1, <1>2, <1>5
  <2> QED
    BY <2>1 DEF Increasing
<1>6. CASE i <= Len(s) /\ j > Len(s)
  <2>1. /\ i \in DOMAIN s /\ j - Len(s) \in DOMAIN t
        /\ (s \o t)[i] = s[i] /\ (s \o t)[j] = t[j - Len(s)]
    BY <1>1, <1>2, <1>6
  <2> QED
    BY <1>3, <2>1
<1> QED
  BY <1>2, <1>4, <1>5, <1>6

-----------------------------------------------------------------------------
(* Lines 1 to n, those of L apart, are each once in one of the sequences K *)
(* at the places P.                                                        *)
Once(P, K, L, n) ==
  /\ \A p \in P : IsInjective(K[p])
  /\ \A p, q \in P : p # q => ToSet(K[p]) \cap ToSet(K[q]) = {}
  /\ L \subseteq 1..n
  /\ UNION {ToSet(K[p]) : p \in P} = (1..n) \ L

LEMMA OnceRange ==
  ASSUME NEW P, NEW K, NEW L, NEW n, Once(P, K, L, n), NEW p \in P
  PROVE ToSet(K[p]) \subseteq 1..n /\ ToSet(K[p]) \cap L = {}
BY DEF Once

(* Line n + 1 is put at a place.                                           *)
LEMMA OnceMore ==
  ASSUME NEW P, NEW K \in [P -> Seq(Nat)], NEW H, NEW L, NEW n \in Nat, NEW p \in P,
         Once(P, K, L, n),
         H[p] = K[p] \o <<n + 1>>,
         \A q \in P \ {p} : H[q] = K[q]
  PROVE Once(P, H, L, n + 1)
<1> DEFINE s == K[p]
           t == <<n + 1>>
<1>1. s \in Seq(Nat) /\ t \in Seq(Nat) /\ H[p] = s \o t
  OBVIOUS
<1>2. ToSet(t) = {n + 1} /\ IsInjective(t)
  BY OneElement
<1>3. ToSet(s) = ToSet(K[p]) /\ IsInjective(s)
  BY DEF Once
<1>4. \A q \in P : n + 1 \notin ToSet(K[q])
  <2>1. \A q \in P : ToSet(K[q]) \subseteq 1..n
    BY OnceRange
  <2> QED
    BY <2>1
<1> HIDE DEF s, t
<1>5. ToSet(s \o t) = ToSet(s) \cup ToSet(t)
  BY <1>1, ConcatSet
<1>6. IsInjective(s \o t)
  <2>1. ToSet(s) \cap ToSet(t) = {}
    BY <1>2, <1>3, <1>4
  <2> QED
    BY <1>1, <1>2, <1>3, <2>1, ConcatInjective
<1> DEFINE A == [q \in P |-> ToSet(K[q])]
           B == [q \in P |-> ToSet(H[q])]
<1>7. /\ B[p] = A[p] \cup {n + 1}
      /\ \A q \in P \ {p} : B[q] = A[q]
  <2>1. ToSet(H[p]) = ToSet(K[p]) \cup {n + 1}
    BY <1>1, <1>2, <1>3, <1>5
  <2> QED
    BY <2>1
<1>8. /\ \A q, r \in P : q # r => A[q] \cap A[r] = {}
      /\ \A q \in P : n + 1 \notin A[q]
      /\ UNION {A[q] : q \in P} = (1..n) \ L
      /\ L \subseteq 1..n
  BY <1>4 DEF Once
<1>9. /\ Once(P, H, L, n + 1) <=>
           /\ \A q \in P : IsInjective(H[q])
           /\ \A q, r \in P : q # r => B[q] \cap B[r] = {}
           /\ L \subseteq 1..(n + 1)
           /\ UNION {B[q] : q \in P} = (1..(n + 1)) \ L
  BY DEF Once
<1> HIDE DEF A, B
<1>10. \A q \in P : IsInjective(H[q])
  <2>1. \A q \in P \ {p} : IsInjective(H[q])
    BY DEF Once
  <2> QED
    BY <1>1, <1>6, <2>1
<1>11. ASSUME NEW q \in P, NEW r \in P, q # r PROVE B[q] \cap B[r] = {}
  <2>1. CASE q = p
    BY <1>7, <1>8, <1>11, <2>1
  <2>2. CASE q # p
    BY <1>7, <1>8, <1>11, <2>2
  <2> QED
    BY <2>1, <2>2
<1>12. 1..(n + 1) = (1..n) \cup {n + 1} /\ n + 1 \notin 1..n
  OBVIOUS
<1>13. UNION {B[q] : q \in P} = (UNION {A[q] : q \in P}) \cup {n + 1}
  BY <1>7
<1> QED
  BY <1>8, <1>9, <1>10, <1>11, <1>12, <1>13

(* The lines at one place are put behind those at another.                 *)
LEMMA OnceMoved ==
  ASSUME NEW P, NEW K \in [P -> Seq(Nat)], NEW H, NEW L, NEW n,
         NEW p \in P, NEW q \in P, p # q,
         Once(P, K, L, n),
         H[p] = << >>, H[q] = K[q] \o K[p],
         \A r \in P \ {p, q} : H[r] = K[r]
  PROVE Once(P, H, L, n)
<1>1. K[p] \in Seq(Nat) /\ K[q] \in Seq(Nat)
  OBVIOUS
<1>2. ToSet(H[p]) = {} /\ IsInjective(H[p])
  BY NoElement
<1>3. ToSet(H[q]) = ToSet(K[q]) \cup ToSet(K[p])
  BY <1>1, ConcatSet
<1>4. IsInjective(H[q])
  <2>1. IsInjective(K[p]) /\ IsInjective(K[q]) /\ ToSet(K[q]) \cap ToSet(K[p]) = {}
    BY DEF Once
  <2> QED
    BY <1>1, <2>1, ConcatInjective
<1>5. \A r \in P : IsInjective(H[r])
  BY <1>2, <1>4 DEF Once
<1>6. \A r, u \in P : r # u => ToSet(H[r]) \cap ToSet(H[u]) = {}
  <2>1. \A r, u \in P : r # u => ToSet(K[r]) \cap ToSet(K[u]) = {}
    BY DEF Once
  <2> QED
    BY <1>2, <1>3, <2>1
<1>7. UNION {ToSet(H[r]) : r \in P} = UNION {ToSet(K[r]) : r \in P}
  BY <1>2, <1>3
<1> QED
  BY <1>5, <1>6, <1>7 DEF Once

(* The lines at one place are lost.                                        *)
LEMMA OnceLost ==
  ASSUME NEW P, NEW K, NEW H, NEW L, NEW n, NEW p \in P,
         Once(P, K, L, n),
         H[p] = << >>, \A q \in P \ {p} : H[q] = K[q]
  PROVE Once(P, H, L \cup ToSet(K[p]), n)
<1>1. ToSet(H[p]) = {} /\ IsInjective(H[p])
  BY NoElement
<1>2. \A q \in P : IsInjective(H[q])
  BY <1>1 DEF Once
<1>3. \A q, r \in P : q # r => ToSet(H[q]) \cap ToSet(H[r]) = {}
  BY <1>1 DEF Once
<1>4. ToSet(K[p]) \subseteq 1..n
  BY OnceRange
<1>5. UNION {ToSet(H[q]) : q \in P} = (UNION {ToSet(K[q]) : q \in P}) \ ToSet(K[p])
  <2>1. \A q \in P \ {p} : ToSet(K[q]) \cap ToSet(K[p]) = {}
    BY DEF Once
  <2> QED
    BY <1>1, <2>1
<1> QED
  BY <1>2, <1>3, <1>4, <1>5 DEF Once

(* The first k lines at one place are put behind those at another, and the *)
(* others are lost.                                                        *)
LEMMA OnceParted ==
  ASSUME NEW P, NEW K \in [P -> Seq(Nat)], NEW H, NEW L, NEW n,
         NEW p \in P, NEW q \in P, p # q, NEW k \in 0..Len(K[p]),
         Once(P, K, L, n),
         H[p] = << >>, H[q] = K[q] \o First(K[p], k),
         \A r \in P \ {p, q} : H[r] = K[r]
  PROVE Once(P, H, L \cup Others(K[p], k), n)
<1> DEFINE s == First(K[p], k)
           R == Others(K[p], k)
           G == [K EXCEPT ![p] = s]
<1>1. /\ s \in Seq(Nat) /\ ToSet(K[p]) = ToSet(s) \cup R
      /\ IsInjective(s) /\ ToSet(s) \cap R = {}
  BY Parts DEF Once
<1>2. /\ G \in [P -> Seq(Nat)] /\ G[p] = s
      /\ \A r \in P \ {p} : G[r] = K[r]
  BY <1>1
<1> HIDE DEF G, s, R
<1>3. Once(P, G, L \cup R, n)
  <2>1. \A r \in P : IsInjective(G[r])
    BY <1>1, <1>2 DEF Once
  <2>2. \A r, u \in P : r # u => ToSet(G[r]) \cap ToSet(G[u]) = {}
    <3>1. \A r \in P : ToSet(G[r]) \subseteq ToSet(K[r])
      BY <1>1, <1>2
    <3> QED
      BY <3>1 DEF Once
  <2>3. R \subseteq 1..n /\ L \subseteq 1..n
    BY <1>1, OnceRange DEF Once
  <2>4. \A r \in P \ {p} : ToSet(K[r]) \cap R = {}
    BY <1>1 DEF Once
  <2>5. UNION {ToSet(G[r]) : r \in P} = (UNION {ToSet(K[r]) : r \in P}) \ R
    <3>1. \A r \in P : ToSet(G[r]) = ToSet(K[r]) \ R
      BY <1>1, <1>2, <2>4
    <3> QED
      BY <3>1
  <2> QED
    BY <2>1, <2>2, <2>3, <2>5 DEF Once
<1>4. H[q] = G[q] \o G[p] /\ \A r \in P \ {p, q} : H[r] = G[r]
  BY <1>2 DEF s
<1>5. Once(P, H, L \cup R, n)
  BY <1>2, <1>3, <1>4, OnceMoved
<1> QED
  BY <1>5 DEF R

-----------------------------------------------------------------------------
(* The places and what is there.                                           *)
Buffer == <<"buffer", 0>>
Stdout == <<"stdout", 0>>
Hand(w) == <<"hand", w>>
File(d) == <<"file", d>>

LEMMA Places ==
  /\ Buffer \in Place /\ Stdout \in Place
  /\ \A w \in Writer : Hand(w) \in Place
  /\ \A d \in Day : File(d) \in Place
BY DEF Place, Buffer, Stdout, Hand, File

LEMMA PlaceCases ==
  ASSUME NEW p \in Place
  PROVE \/ p = Buffer \/ p = Stdout
        \/ \E w \in Writer : p = Hand(w)
        \/ \E d \in Day : p = File(d)
BY DEF Place, Buffer, Stdout, Hand, File

LEMMA PlacesDiffer ==
  /\ Buffer # Stdout
  /\ \A w : Hand(w) # Buffer /\ Hand(w) # Stdout
  /\ \A d : File(d) # Buffer /\ File(d) # Stdout
  /\ \A w, d : Hand(w) # File(d)
  /\ \A v, w : v # w => Hand(v) # Hand(w)
  /\ \A d, e : d # e => File(d) # File(e)
BY DEF Buffer, Stdout, Hand, File

LEMMA KeptThere ==
  /\ Kept[Buffer] = buffer /\ Kept[Stdout] = stdout
  /\ \A w \in Writer : Kept[Hand(w)] = hand[w]
  /\ \A d \in Day : Kept[File(d)] = content[d]
<1>1. \A p \in Place :
        Kept[p] = CASE p[1] = "buffer" -> buffer
                    [] p[1] = "hand"   -> hand[p[2]]
                    [] p[1] = "file"   -> content[p[2]]
                    [] p[1] = "stdout" -> stdout
  BY DEF Kept
<1>2. Buffer[1] = "buffer" /\ Stdout[1] = "stdout"
  BY DEF Buffer, Stdout
<1>3. \A w : Hand(w)[1] = "hand" /\ Hand(w)[2] = w
  BY DEF Hand
<1>4. \A d : File(d)[1] = "file" /\ File(d)[2] = d
  BY DEF File
<1> QED
  BY <1>1, <1>2, <1>3, <1>4, Places

LEMMA KeptThereNext ==
  /\ Kept'[Buffer] = buffer' /\ Kept'[Stdout] = stdout'
  /\ \A w \in Writer : Kept'[Hand(w)] = hand'[w]
  /\ \A d \in Day : Kept'[File(d)] = content'[d]
<1>1. \A p \in Place :
        Kept'[p] = CASE p[1] = "buffer" -> buffer'
                     [] p[1] = "hand"   -> hand'[p[2]]
                     [] p[1] = "file"   -> content'[p[2]]
                     [] p[1] = "stdout" -> stdout'
  BY DEF Kept
<1>2. Buffer[1] = "buffer" /\ Stdout[1] = "stdout"
  BY DEF Buffer, Stdout
<1>3. \A w : Hand(w)[1] = "hand" /\ Hand(w)[2] = w
  BY DEF Hand
<1>4. \A d : File(d)[1] = "file" /\ File(d)[2] = d
  BY DEF File
<1> QED
  BY <1>1, <1>2, <1>3, <1>4, Places

LEMMA LinesAreNumbers == Seq(Line) \subseteq Seq(Nat)
<1>1. Line \subseteq Nat
  BY DEF Line
<1> QED
  BY <1>1, SeqMonotonic

LEMMA KeptType ==
  ASSUME TypeOK
  PROVE Kept \in [Place -> Seq(Nat)]
<1>2. /\ buffer \in Seq(Line) /\ stdout \in Seq(Line)
      /\ \A w \in Writer : hand[w] \in Seq(Line)
      /\ \A d \in Day : content[d] \in Seq(Line)
  BY DEF TypeOK
<1>3. Seq(Line) \subseteq Seq(Nat)
  BY LinesAreNumbers
<1>4. \A p \in Place : Kept[p] \in Seq(Nat)
  <2> SUFFICES ASSUME NEW p \in Place PROVE Kept[p] \in Seq(Nat)
    OBVIOUS
  <2> QED
    BY <1>2, <1>3, PlaceCases, KeptThere
<1> DEFINE at(p) == CASE p[1] = "buffer" -> buffer
                       [] p[1] = "hand"   -> hand[p[2]]
                       [] p[1] = "file"   -> content[p[2]]
                       [] p[1] = "stdout" -> stdout
<1>5. Kept = [p \in Place |-> at(p)]
  BY DEF Kept
<1> HIDE DEF at
<1> QED
  BY <1>4, <1>5

-----------------------------------------------------------------------------
LEMMA Steps ==
  ASSUME [Next]_vars
  PROVE \/ AppWrites
        \/ \E w \in Writer : ReadHandle(w) \/ WriteOut(w)
        \/ Tick \/ TakeToken \/ TakeClose \/ SayClosed \/ GetBuffer
        \/ \E g \in {Flusher, Rotator} : CloseNothing(g) \/ CloseHandle(g) \/ SetNil(g)
        \/ Rotate \/ Open \/ ForceOn \/ ForceOff \/ CloseOutput \/ Midnight
        \/ UNCHANGED vars
BY DEF Next, FlusherStep, RotatorStep, WriteStep, CloseStep, Writer

(* The two ways of a Write that accepts a line.                            *)
Direct(w) ==
  /\ flushForce = TRUE /\ mutex = "free" /\ stage[w] = "idle"
  /\ accepted' = accepted + 1
  /\ mutex' = w
  /\ hand' = [hand EXCEPT ![w] = <<accepted + 1>>]
  /\ stage' = [stage EXCEPT ![w] = "file"]
  /\ buffer' = buffer /\ tokens' = tokens /\ target' = target

Buffered ==
  /\ flushForce = FALSE /\ mutex = "free"
  /\ Len(buffer) < MaxBuffer
  /\ accepted' = accepted + 1
  /\ buffer' = Append(buffer, accepted + 1)
  /\ tokens' = tokens \/ (tokens < ChanSize /\ tokens' = tokens + 1)
  /\ mutex' = mutex /\ hand' = hand /\ stage' = stage /\ target' = target

LEMMA WriteCases ==
  ASSUME TypeOK, NEW w \in Writer, Write(w)
  PROVE Direct(w) \/ Buffered
<1>1. CASE WriteDirect(w)
  <2>1. flushForce = TRUE
    BY <1>1 DEF WriteDirect, TypeOK
  <2> QED
    BY <1>1, <2>1 DEF Write, WriteDirect, Direct
<1>2. CASE WriteBuffered(w)
  <2>1. flushForce = FALSE
    BY <1>2 DEF WriteBuffered, TypeOK
  <2> QED
    BY <1>2, <2>1 DEF Write, WriteBuffered, Buffered, writeVars
<1> QED
  BY <1>1, <1>2 DEF Write

LEMMA AcceptedType ==
  ASSUME TypeOK, NEW w \in Writer, Write(w), accepted <= MaxLines
  PROVE /\ accepted' \in 0..MaxLines + 1
        /\ buffer' \in Seq(Line) /\ Len(buffer') <= MaxBuffer
        /\ mutex' \in Writer \cup {"free"}
        /\ tokens' \in 0..ChanSize
        /\ stage' \in [Writer -> {"idle", "file", "write"}]
        /\ hand' \in [Writer -> Seq(Line)]
        /\ target' = target
<1>1. accepted \in Nat /\ accepted + 1 \in Line /\ accepted + 1 \in 0..MaxLines + 1
  <2>1. accepted \in 0..MaxLines + 1
    BY DEF TypeOK
  <2> QED
    BY <2>1, SizeAssumption DEF Line
<1>2. CASE Direct(w)
  <2>1. <<accepted + 1>> \in Seq(Line)
    BY <1>1
  <2> QED
    BY <1>1, <1>2, <2>1 DEF Direct, TypeOK
<1>3. CASE Buffered
  <2>1. buffer \in Seq(Line)
    BY DEF TypeOK
  <2>2. buffer' \in Seq(Line) /\ Len(buffer') = Len(buffer) + 1
    BY <1>1, <1>3, <2>1, AppendProperties DEF Buffered
  <2>3. Len(buffer') <= MaxBuffer
    <3>1. Len(buffer) \in Nat
      BY <2>1
    <3> QED
      BY <1>3, <2>2, <3>1, SizeAssumption DEF Buffered
  <2>4. tokens' \in 0..ChanSize
    <3>1. tokens \in 0..ChanSize
      BY DEF TypeOK
    <3> QED
      BY <1>3, <3>1, SizeAssumption DEF Buffered
  <2> QED
    BY <1>1, <1>3, <2>2, <2>3, <2>4 DEF Buffered, TypeOK
<1> QED
  BY <1>2, <1>3, WriteCases

(* The files written and what is lost are lines.                           *)
LEMMA WrittenType ==
  ASSUME TypeOK, NEW w \in Writer, WriteOut(w)
  PROVE /\ content' \in [Day -> Seq(Line)] /\ stdout' \in Seq(Line)
        /\ lost' \subseteq Line /\ unwritten' \subseteq Line
        /\ failures' \in 0..MaxFailures
<1> DEFINE h == target[w]
           l == hand[w]
<1>1. l \in Seq(Line) /\ h \in 0..Len(fd)
  BY DEF TypeOK
<1>2. /\ stdout \in Seq(Line) /\ content \in [Day -> Seq(Line)]
      /\ lost \subseteq Line /\ unwritten \subseteq Line
  BY DEF TypeOK
<1>3. ASSUME NEW k \in 0..Len(l), Puts(w, k)
      PROVE  /\ content' \in [Day -> Seq(Line)] /\ stdout' \in Seq(Line)
             /\ lost' \subseteq Line /\ unwritten' \subseteq Line
  <2>1. First(l, k) \in Seq(Line) /\ Others(l, k) \subseteq Line
    BY <1>1, Parts
  <2>2. /\ \/ stdout' = stdout \o First(l, k) /\ content' = content
           \/ /\ h # NoFile
              /\ content' = [content EXCEPT ![fd[h].day] = @ \o First(l, k)]
              /\ stdout' = stdout
        /\ lost' = lost /\ unwritten' = unwritten \cup Others(l, k)
    BY <1>3 DEF Puts, First, Others
  <2> HIDE DEF h, l
  <2>3. CASE stdout' = stdout \o First(l, k) /\ content' = content
    <3>1. stdout \o First(l, k) \in Seq(Line)
      BY <1>2, <2>1, ConcatProperties
    <3> QED
      BY <1>2, <2>1, <2>2, <2>3, <3>1
  <2>4. CASE /\ h # NoFile
             /\ content' = [content EXCEPT ![fd[h].day] = @ \o First(l, k)]
             /\ stdout' = stdout
    <3>1. fd[h].day \in Day
      <4>1. fd \in Seq([day : Day, open : BOOLEAN])
        BY DEF TypeOK
      <4>2. h \in 1..Len(fd)
        BY <1>1, <2>4, <4>1 DEF NoFile
      <4>3. fd[h] \in [day : Day, open : BOOLEAN]
        BY <4>1, <4>2, ElementOfSeq
      <4> QED
        BY <4>3
    <3>2. content[fd[h].day] \o First(l, k) \in Seq(Line)
      <4>1. content[fd[h].day] \in Seq(Line)
        BY <1>2, <3>1
      <4> QED
        BY <2>1, <4>1, ConcatProperties
    <3> QED
      BY <1>2, <2>1, <2>2, <2>4, <3>1, <3>2
  <2> QED
    BY <2>2, <2>3, <2>4
<1>4. ASSUME lost' = lost \cup ToSet(l), UNCHANGED <<content, stdout, unwritten>>
      PROVE  /\ content' \in [Day -> Seq(Line)] /\ stdout' \in Seq(Line)
             /\ lost' \subseteq Line /\ unwritten' \subseteq Line
  <2>1. ToSet(l) \subseteq Line
    BY <1>1, LineSet
  <2> QED
    BY <1>2, <1>4, <2>1
<1>5. \/ \E k \in 0..Len(l) : Puts(w, k)
      \/ lost' = lost \cup ToSet(l) /\ UNCHANGED <<content, stdout, unwritten>>
  <2>1. Len(l) \in 0..Len(l) /\ 0..Len(l)-1 \subseteq 0..Len(l)
    BY <1>1
  <2> HIDE DEF l
  <2> QED
    BY <2>1 DEF WriteOut, l
<1>6. failures' \in 0..MaxFailures
  <2>1. failures \in 0..MaxFailures
    BY DEF TypeOK
  <2>2. failures' = failures \/ (failures < MaxFailures /\ failures' = failures + 1)
    BY DEF WriteOut
  <2> QED
    BY <2>1, <2>2, SizeAssumption
<1> QED
  BY <1>3, <1>4, <1>5, <1>6

(* Every handle stays a handle, whoever closes, opens or forgets one.      *)
FdType == Seq([day : Day, open : BOOLEAN])
Closed(f, h) == [f EXCEPT ![h].open = FALSE]
Opened(f, d) == Append(f, [day |-> d, open |-> TRUE])

LEMMA Replaced ==
  ASSUME NEW S, NEW f \in Seq(S), NEW h \in DOMAIN f, NEW r \in S,
         NEW g, g = [f EXCEPT ![h] = r]
  PROVE /\ g \in Seq(S) /\ Len(g) = Len(f)
        /\ \A i \in DOMAIN f : g[i] = IF i = h THEN r ELSE f[i]
<1>1. h \in 1..Len(f)
  OBVIOUS
<1> QED
  BY <1>1, ExceptSeq

LEMMA HandleType ==
  ASSUME NEW f \in FdType, f # << >>
  PROVE /\ Len(f) \in DOMAIN f
        /\ f[Len(f)] \in [day : Day, open : BOOLEAN]
<1> DEFINE R == [day : Day, open : BOOLEAN]
<1>1. f \in Seq(R)
  BY DEF FdType
<1> HIDE DEF R
<1>2. Len(f) \in 1..Len(f) /\ DOMAIN f = 1..Len(f)
  BY <1>1
<1>3. f[Len(f)] \in R
  BY <1>1, <1>2, ElementOfSeq
<1> QED
  BY <1>2, <1>3 DEF R

LEMMA ClosedType ==
  ASSUME NEW f \in FdType, NEW h \in DOMAIN f,
         NEW g, g = Closed(f, h)
  PROVE /\ g \in FdType /\ Len(g) = Len(f)
        /\ g[h].open = FALSE
        /\ \A i \in DOMAIN f : g[i].day = f[i].day /\ (i # h => g[i] = f[i])
<1> DEFINE R == [day : Day, open : BOOLEAN]
           r == [f[h] EXCEPT !.open = FALSE]
<1>1. f \in Seq(R)
  BY DEF FdType
<1>2. f[h] \in R
  <2>1. h \in 1..Len(f)
    BY <1>1
  <2> HIDE DEF R
  <2> QED
    BY <1>1, <2>1, ElementOfSeq
<1>3. r \in R /\ r.open = FALSE /\ r.day = f[h].day
  BY <1>2
<1>4. g = [f EXCEPT ![h] = r]
  BY DEF Closed
<1>5. FdType = Seq(R)
  BY DEF FdType
<1> HIDE DEF r, R
<1>6. /\ g \in Seq(R) /\ Len(g) = Len(f)
      /\ \A i \in DOMAIN f : g[i] = IF i = h THEN r ELSE f[i]
  <2>1. f \in Seq(R) /\ h \in DOMAIN f /\ r \in R
    BY <1>1, <1>3
  <2> QED
    BY <2>1, <1>4, Replaced, Zenon
<1>7. ASSUME NEW i \in DOMAIN f PROVE g[i].day = f[i].day /\ (i # h => g[i] = f[i])
  <2>1. CASE i = h
    BY <1>3, <1>6, <2>1
  <2>2. CASE i # h
    BY <1>6, <2>2
  <2> QED
    BY <2>1, <2>2
<1>8. g[h].open = FALSE
  <2>1. g[h] = r
    BY <1>6
  <2> QED
    BY <1>3, <2>1
<1> QED
  BY <1>5, <1>6, <1>7, <1>8

LEMMA OpenedType ==
  ASSUME NEW f \in FdType, NEW d \in Day,
         NEW g, g = Opened(f, d)
  PROVE /\ g \in FdType /\ Len(g) = Len(f) + 1
        /\ g[Len(g)] = [day |-> d, open |-> TRUE]
        /\ \A i \in DOMAIN f : g[i] = f[i]
<1>1. [day |-> d, open |-> TRUE] \in [day : Day, open : BOOLEAN]
  OBVIOUS
<1> QED
  BY <1>1, AppendProperties DEF FdType, Opened

LEMMA TypeStep == IInv /\ [Next]_vars => TypeOK'
<1> SUFFICES ASSUME IInv, [Next]_vars PROVE TypeOK'
  OBVIOUS
<1>0. TypeOK /\ BoundInv /\ fd \in FdType /\ Len(fd) \in Nat
  <2>1. fd \in FdType
    BY DEF IInv, TypeOK, FdType
  <2> QED
    BY <2>1 DEF IInv, FdType
<1> USE <1>0
<1>1. CASE AppWrites
  <2>1. Write(App) /\ App \in Writer /\ accepted <= MaxLines
    <3>1. accepted \in 0..MaxLines + 1
      BY DEF TypeOK
    <3> QED
      BY <1>1, <3>1, SizeAssumption DEF AppWrites, Writer
  <2>2. UNCHANGED <<closeSent, flPc, fileVars, rotPc, rotDay, today, output, forceVars,
                    failures>>
    BY <1>1 DEF AppWrites
  <2> QED
    BY <2>1, <2>2, AcceptedType DEF TypeOK, fileVars, output, forceVars
<1>2. ASSUME NEW w \in Writer, ReadHandle(w) PROVE TypeOK'
  BY <1>2 DEF ReadHandle, TypeOK, bufferVars, fileVars, output, forceVars
<1>3. ASSUME NEW w \in Writer, WriteOut(w) PROVE TypeOK'
  <2>1. /\ stage' = [stage EXCEPT ![w] = "idle"]
        /\ hand' = [hand EXCEPT ![w] = << >>]
        /\ target' = [target EXCEPT ![w] = NoFile]
        /\ mutex' = "free" \/ mutex' = mutex
        /\ UNCHANGED <<accepted, buffer, tokens, closeSent, flPc, fileVars, rotPc, rotDay,
                       today, forceVars>>
    BY <1>3 DEF WriteOut
  <2>2. << >> \in Seq(Line) /\ NoFile \in 0..Len(fd)
    BY DEF NoFile
  <2>3. /\ hand' \in [Writer -> Seq(Line)] /\ target' \in [Writer -> 0..Len(fd)]
        /\ stage' \in [Writer -> {"idle", "file", "write"}]
    BY <2>1, <2>2 DEF TypeOK
  <2>4. /\ content' \in [Day -> Seq(Line)] /\ stdout' \in Seq(Line)
        /\ lost' \subseteq Line /\ unwritten' \subseteq Line /\ failures' \in 0..MaxFailures
    BY <1>3, WrittenType
  <2>5. mutex' \in Writer \cup {"free"}
    BY <2>1 DEF TypeOK
  <2> QED
    BY <2>1, <2>3, <2>4, <2>5 DEF TypeOK, fileVars, forceVars
<1>4. CASE Tick
  BY <1>4 DEF Tick, TypeOK, bufferVars, writeVars, fileVars, output, forceVars
<1>5. CASE TakeToken
  <2>1. tokens' \in 0..ChanSize
    <3>1. tokens \in 0..ChanSize
      BY DEF TypeOK
    <3> QED
      BY <1>5, <3>1, SizeAssumption DEF TakeToken
  <2> QED
    BY <1>5, <2>1 DEF TakeToken, TypeOK, writeVars, fileVars, output, forceVars
<1>6. CASE TakeClose
  BY <1>6 DEF TakeClose, TypeOK, bufferVars, writeVars, fileVars, output, forceVars
<1>7. CASE SayClosed
  <2>1. /\ flPc = "say" /\ flPc' = "last flush"
        /\ UNCHANGED <<closeSent, fileVars, rotPc, rotDay, today, output, forceVars,
                       failures>>
    BY <1>7 DEF SayClosed
  <2>2. CASE Write(Flusher)
    <3>1. Flusher \in Writer /\ accepted <= MaxLines
      BY <2>1 DEF Writer, BoundInv
    <3> QED
      BY <2>1, <2>2, <3>1, AcceptedType DEF TypeOK, fileVars, output, forceVars
  <2>3. CASE UNCHANGED <<bufferVars, writeVars>>
    BY <2>1, <2>3 DEF TypeOK, bufferVars, writeVars, fileVars, output, forceVars
  <2> QED
    BY <1>7, <2>2, <2>3 DEF SayClosed
<1>8. CASE GetBuffer
  <2>1. /\ flPc' \in {"select", "close"}
        /\ hand' = [hand EXCEPT ![Flusher] = buffer]
        /\ stage' = [stage EXCEPT ![Flusher] = IF buffer = << >> THEN "idle" ELSE "file"]
        /\ buffer' = << >>
        /\ UNCHANGED <<accepted, mutex, tokens, closeSent, target, fileVars, rotPc, rotDay,
                       today, output, forceVars, failures>>
    BY <1>8 DEF GetBuffer
  <2>2. buffer' \in Seq(Line) /\ Len(buffer') <= MaxBuffer
    BY <2>1, SizeAssumption
  <2>3. hand' \in [Writer -> Seq(Line)] /\ stage' \in [Writer -> {"idle", "file", "write"}]
    BY <2>1 DEF TypeOK
  <2> QED
    BY <2>1, <2>2, <2>3 DEF TypeOK, fileVars, output, forceVars
<1>9. ASSUME NEW g \in {Flusher, Rotator}, CloseNothing(g) PROVE TypeOK'
  BY <1>9 DEF CloseNothing, GoesOn, TypeOK, bufferVars, writeVars, fileVars, output,
              forceVars
<1>10. ASSUME NEW g \in {Flusher, Rotator}, CloseHandle(g) PROVE TypeOK'
  <2>1. /\ fileHandle # NoFile
        /\ fd' = [fd EXCEPT ![fileHandle].open = FALSE]
        /\ logMutex' = g
        /\ UNCHANGED <<bufferVars, closeSent, flPc, writeVars, fileHandle, rotPc, rotDay,
                       today, output, forceVars, failures>>
    BY <1>10 DEF CloseHandle
  <2>2. fileHandle \in DOMAIN fd
    <3>1. fileHandle \in 0..Len(fd)
      BY DEF TypeOK
    <3> QED
      BY <2>1, <3>1 DEF NoFile, FdType
  <2>3. fd' \in FdType /\ Len(fd') = Len(fd)
    <3>1. fd' = Closed(fd, fileHandle)
      BY <2>1 DEF Closed
    <3> QED
      BY <2>2, <3>1, ClosedType
  <2> QED
    BY <2>1, <2>3 DEF TypeOK, FdType, bufferVars, writeVars, output, forceVars
<1>11. ASSUME NEW g \in {Flusher, Rotator}, SetNil(g) PROVE TypeOK'
  <2>1. fileHandle' \in 0..Len(fd)
    BY <1>11 DEF SetNil, NoFile
  <2>2. /\ flPc' \in {"off", "select", "flush", "say", "last flush", "close", "stopped"}
        /\ rotPc' \in {"check", "close", "open"}
    BY <1>11 DEF SetNil, GoesOn, TypeOK
  <2> QED
    BY <1>11, <2>1, <2>2 DEF SetNil, TypeOK, bufferVars, writeVars, output, forceVars
<1>12. CASE Rotate
  BY <1>12 DEF Rotate, TypeOK, bufferVars, writeVars, fileVars, output, forceVars
<1>13. CASE Open
  <2>1. /\ rotPc' = "check"
        /\ UNCHANGED <<bufferVars, closeSent, flPc, writeVars, logMutex, rotDay, today,
                       output, forceVars>>
    BY <1>13 DEF Open
  <2>2. CASE /\ fd' = Append(fd, [day |-> rotDay, open |-> TRUE])
             /\ fileHandle' = Len(fd) + 1
             /\ UNCHANGED failures
    <3>1. fd' \in FdType /\ Len(fd') = Len(fd) + 1
      <4>1. rotDay \in Day
        BY DEF TypeOK
      <4> QED
        BY <2>2, <4>1, OpenedType DEF Opened
    <3>2. target' \in [Writer -> 0..Len(fd')]
      <4>1. target \in [Writer -> 0..Len(fd)] /\ target' = target
        BY <2>1 DEF TypeOK, writeVars
      <4> QED
        BY <3>1, <4>1
    <3>3. fileHandle' \in 0..Len(fd')
      BY <2>2, <3>1
    <3> QED
      BY <2>1, <2>2, <3>1, <3>2, <3>3
         DEF TypeOK, FdType, bufferVars, writeVars, output, forceVars
  <2>3. CASE /\ failures < MaxFailures /\ failures' = failures + 1
             /\ UNCHANGED <<fd, fileHandle>>
    <3>1. failures' \in 0..MaxFailures
      <4>1. failures \in 0..MaxFailures
        BY DEF TypeOK
      <4> QED
        BY <2>3, <4>1, SizeAssumption
    <3> QED
      BY <2>1, <2>3, <3>1 DEF TypeOK, bufferVars, writeVars, output, forceVars
  <2> QED
    BY <1>13, <2>2, <2>3 DEF Open
<1>14. CASE ForceOn
  <2>1. forces' \in 0..MaxForces
    <3>1. forces \in 0..MaxForces
      BY DEF TypeOK
    <3> QED
      BY <1>14, <3>1, SizeAssumption DEF ForceOn
  <2>2. overtaken' \in BOOLEAN
    BY <1>14 DEF ForceOn
  <2>3. flPc' \in {"off", "select", "flush", "say", "last flush", "close", "stopped"}
    BY <1>14 DEF ForceOn, TypeOK
  <2> QED
    BY <1>14, <2>1, <2>2, <2>3
       DEF ForceOn, TypeOK, bufferVars, writeVars, fileVars, output
<1>15. CASE ForceOff
  BY <1>15 DEF ForceOff, TypeOK, bufferVars, writeVars, fileVars, output
<1>16. CASE CloseOutput
  BY <1>16 DEF CloseOutput, TypeOK, bufferVars, writeVars, fileVars, output, forceVars
<1>17. CASE Midnight
  <2>1. today' \in Day
    <3>1. today \in Day
      BY DEF TypeOK
    <3> QED
      BY <1>17, <3>1, SizeAssumption DEF Midnight, Day
  <2> QED
    BY <1>17, <2>1 DEF Midnight, TypeOK, bufferVars, writeVars, fileVars, output, forceVars
<1>18. CASE UNCHANGED vars
  BY <1>18 DEF vars, TypeOK, bufferVars, writeVars, fileVars, output, forceVars
<1> QED
  BY <1>1, <1>2, <1>3, <1>4, <1>5, <1>6, <1>7, <1>8, <1>9, <1>10, <1>11, <1>12, <1>13,
     <1>14, <1>15, <1>16, <1>17, <1>18, Steps

-----------------------------------------------------------------------------
(* Which steps concern the lines, and which the file.                      *)
LEMMA LineSteps ==
  ASSUME [Next]_vars
  PROVE \/ \E w \in Writer :
             /\ Write(w)
             /\ UNCHANGED <<content, stdout, lost, unwritten, flushForce, overtaken, fd>>
        \/ \E w \in Writer : ReadHandle(w) \/ WriteOut(w)
        \/ GetBuffer
        \/ UNCHANGED <<accepted, buffer, mutex, stage, hand, content, stdout, lost, unwritten>>
<1>1. CASE AppWrites
  BY <1>1 DEF AppWrites, Writer, output, forceVars, fileVars
<1>2. CASE SayClosed
  BY <1>2 DEF SayClosed, Writer, output, forceVars, fileVars, bufferVars, writeVars
<1>3. ASSUME NEW g \in {Flusher, Rotator}, CloseNothing(g) \/ CloseHandle(g) \/ SetNil(g)
      PROVE UNCHANGED <<accepted, buffer, mutex, stage, hand, content, stdout, lost, unwritten>>
  BY <1>3 DEF CloseNothing, CloseHandle, SetNil, bufferVars, writeVars, output
<1>4. CASE Tick \/ TakeToken \/ TakeClose
  BY <1>4 DEF Tick, TakeToken, TakeClose, bufferVars, writeVars, output
<1>5. CASE Rotate \/ Open \/ Midnight \/ CloseOutput \/ ForceOn \/ ForceOff
  BY <1>5 DEF Rotate, Open, Midnight, CloseOutput, ForceOn, ForceOff,
              bufferVars, writeVars, output
<1>6. CASE UNCHANGED vars
  BY <1>6 DEF vars, bufferVars, writeVars, output
<1> QED
  BY <1>1, <1>2, <1>3, <1>4, <1>5, <1>6, Steps

LEMMA FileSteps ==
  ASSUME [Next]_vars
  PROVE \/ \E g \in {Flusher, Rotator} : CloseNothing(g) \/ CloseHandle(g) \/ SetNil(g)
        \/ Rotate \/ Open \/ Midnight
        \/ UNCHANGED <<fd, fileHandle, logMutex, rotPc, rotDay, today>>
<1>1. CASE AppWrites \/ SayClosed
  BY <1>1 DEF AppWrites, SayClosed, fileVars
<1>2. ASSUME NEW w \in Writer, ReadHandle(w) \/ WriteOut(w)
      PROVE UNCHANGED <<fd, fileHandle, logMutex, rotPc, rotDay, today>>
  BY <1>2 DEF ReadHandle, WriteOut, fileVars
<1>3. CASE Tick \/ TakeToken \/ TakeClose \/ GetBuffer
  BY <1>3 DEF Tick, TakeToken, TakeClose, GetBuffer, fileVars
<1>4. CASE CloseOutput \/ ForceOn \/ ForceOff
  BY <1>4 DEF CloseOutput, ForceOn, ForceOff, fileVars
<1>5. CASE UNCHANGED vars
  BY <1>5 DEF vars, fileVars
<1> QED
  BY <1>1, <1>2, <1>3, <1>4, <1>5, Steps

LEMMA BoundStep == IInv /\ [Next]_vars => BoundInv'
<1> SUFFICES ASSUME IInv, [Next]_vars PROVE BoundInv'
  OBVIOUS
<1>1. accepted \in 0..MaxLines + 1 /\ BoundInv
  BY DEF IInv, TypeOK
<1>2. CASE AppWrites
  <2>1. accepted < MaxLines /\ accepted' = accepted + 1
    BY <1>2 DEF AppWrites, Write
  <2>2. accepted' <= MaxLines
    BY <1>1, <2>1, SizeAssumption
  <2> QED
    BY <2>2 DEF BoundInv
<1>3. CASE SayClosed
  BY <1>3 DEF SayClosed, BoundInv
<1>4. ASSUME NEW w \in Writer, ReadHandle(w) \/ WriteOut(w) PROVE BoundInv'
  BY <1>1, <1>4 DEF ReadHandle, WriteOut, BoundInv, bufferVars
<1>5. CASE Tick \/ TakeToken \/ TakeClose \/ GetBuffer
  BY <1>1, <1>5 DEF Tick, TakeToken, TakeClose, GetBuffer, Selects, BoundInv, bufferVars
<1>6. ASSUME NEW g \in {Flusher, Rotator}, CloseNothing(g) \/ CloseHandle(g) \/ SetNil(g)
      PROVE BoundInv'
  BY <1>1, <1>6 DEF CloseNothing, CloseHandle, SetNil, GoesOn, BoundInv, bufferVars
<1>7. CASE Rotate \/ Open \/ Midnight \/ CloseOutput \/ ForceOn \/ ForceOff
  BY <1>1, <1>7 DEF Rotate, Open, Midnight, CloseOutput, ForceOn, ForceOff, BoundInv,
                    bufferVars
<1>8. CASE UNCHANGED vars
  BY <1>1, <1>8 DEF vars, BoundInv, bufferVars
<1> QED
  BY <1>2, <1>3, <1>4, <1>5, <1>6, <1>7, <1>8, Steps

LEMMA HandStep == IInv /\ [Next]_vars => HandInv'
<1> SUFFICES ASSUME IInv, [Next]_vars PROVE HandInv'
  OBVIOUS
<1>1. /\ hand \in [Writer -> Seq(Line)] /\ stage \in [Writer -> {"idle", "file", "write"}]
      /\ HandInv /\ TypeOK
  BY DEF IInv, TypeOK
<1>2. App \in Writer /\ Flusher \in Writer /\ App # Flusher /\ App # "free"
  BY GoroutineAssumption DEF Writer
<1>3. ASSUME NEW w \in Writer, Write(w) PROVE HandInv'
  <2>1. CASE Direct(w)
    BY <1>1, <1>2, <2>1 DEF Direct, HandInv
  <2>2. CASE Buffered
    BY <1>1, <1>2, <2>2 DEF Buffered, HandInv
  <2> QED
    BY <1>1, <1>3, <2>1, <2>2, WriteCases
<1>4. ASSUME NEW w \in Writer, ReadHandle(w) PROVE HandInv'
  BY <1>1, <1>2, <1>4 DEF ReadHandle, HandInv, bufferVars
<1>5. ASSUME NEW w \in Writer, WriteOut(w) PROVE HandInv'
  <2>1. /\ stage' = [stage EXCEPT ![w] = "idle"]
        /\ hand' = [hand EXCEPT ![w] = << >>]
        /\ mutex' = IF mutex = w THEN "free" ELSE mutex
    BY <1>5 DEF WriteOut
  <2> QED
    BY <1>1, <1>2, <2>1 DEF HandInv
<1>6. CASE GetBuffer
  <2>1. /\ hand' = [hand EXCEPT ![Flusher] = buffer]
        /\ stage' = [stage EXCEPT ![Flusher] = IF buffer = << >> THEN "idle" ELSE "file"]
        /\ mutex' = mutex
    BY <1>6 DEF GetBuffer
  <2> QED
    BY <1>1, <1>2, <2>1 DEF HandInv
<1>7. CASE UNCHANGED <<accepted, buffer, mutex, stage, hand, content, stdout, lost, unwritten>>
  BY <1>1, <1>7 DEF HandInv
<1> QED
  BY <1>3, <1>4, <1>5, <1>6, <1>7, LineSteps

LEMMA HandleInRange ==
  ASSUME TypeOK, fileHandle # NoFile
  PROVE fileHandle \in DOMAIN fd
<1>1. fileHandle \in 0..Len(fd) /\ fd \in Seq([day : Day, open : BOOLEAN])
  BY DEF TypeOK
<1> QED
  BY <1>1 DEF NoFile

LEMMA FileStep == IInv /\ [Next]_vars => FileInv'
<1> SUFFICES ASSUME IInv, [Next]_vars PROVE FileInv'
  OBVIOUS
<1>1. /\ fd \in FdType /\ Len(fd) \in Nat /\ DOMAIN fd = 1..Len(fd)
      /\ rotDay \in Nat /\ today \in Nat /\ rotDay <= today
  <2>1. fd \in FdType
    BY DEF IInv, TypeOK, FdType
  <2>2. rotDay \in Day /\ today \in Day
    BY DEF IInv, TypeOK
  <2>3. rotDay <= today
    BY DEF IInv, FileInv
  <2> QED
    BY <2>1, <2>2, <2>3 DEF FdType, Day
<1>2. FileInv /\ TypeOK /\ \A h \in DOMAIN fd : fd[h].open => h = fileHandle
  BY DEF IInv, FileInv, NoFileLeaked
<1>3. ASSUME NEW g \in {Flusher, Rotator}, CloseNothing(g) PROVE FileInv'
  BY <1>2, <1>3 DEF CloseNothing, GoesOn, FileInv, NoFileLeaked, fileVars
<1>4. ASSUME NEW g \in {Flusher, Rotator}, CloseHandle(g) PROVE FileInv'
  <2>1. /\ fileHandle # NoFile /\ fileHandle' = fileHandle
        /\ fd' = [fd EXCEPT ![fileHandle].open = FALSE]
        /\ rotPc' = rotPc /\ rotDay' = rotDay /\ today' = today
    BY <1>4 DEF CloseHandle
  <2>2. fileHandle \in DOMAIN fd
    BY <1>2, <2>1, HandleInRange
  <2>3. /\ fd' \in FdType /\ Len(fd') = Len(fd)
        /\ fd'[fileHandle].open = FALSE
        /\ \A i \in DOMAIN fd : fd'[i].day = fd[i].day
        /\ \A i \in DOMAIN fd : i # fileHandle => fd'[i] = fd[i]
    <3>1. fd' = Closed(fd, fileHandle)
      BY <2>1 DEF Closed
    <3>2. fd \in FdType /\ fileHandle \in DOMAIN fd
      BY <1>1, <2>2
    <3>3. /\ fd' \in FdType /\ Len(fd') = Len(fd)
          /\ fd'[fileHandle].open = FALSE
          /\ \A i \in DOMAIN fd :
               fd'[i].day = fd[i].day /\ (i # fileHandle => fd'[i] = fd[i])
      BY <3>1, <3>2, ClosedType
    <3> QED
      BY <3>3
  <2>4. DOMAIN fd' = DOMAIN fd
    BY <1>1, <2>3 DEF FdType
  <2>5. NoFileLeaked'
    BY <1>2, <2>1, <2>3, <2>4 DEF NoFileLeaked
  <2>6. fd' # << >> => fd'[Len(fd')].day <= rotDay'
    <3>1. fd # << >> /\ Len(fd) \in DOMAIN fd
      BY <1>1, <2>2
    <3> QED
      BY <1>2, <2>1, <2>3, <3>1 DEF FileInv
  <2> QED
    BY <1>2, <2>1, <2>3, <2>5, <2>6 DEF FileInv
<1>5. ASSUME NEW g \in {Flusher, Rotator}, SetNil(g) PROVE FileInv'
  <2>1. /\ logMutex = g /\ fileHandle' = NoFile /\ logMutex' = "free"
        /\ fd' = fd /\ rotDay' = rotDay /\ today' = today
    BY <1>5 DEF SetNil
  <2>2. fileHandle # NoFile /\ ~fd[fileHandle].open
    BY <1>2, <2>1, GoroutineAssumption DEF FileInv
  <2>3. NoFileLeaked'
    BY <1>2, <2>1, <2>2 DEF NoFileLeaked
  <2> QED
    BY <1>2, <2>1, <2>3 DEF FileInv
<1>6. CASE Rotate
  <2>1. /\ rotDay' = today /\ rotPc' = "close"
        /\ UNCHANGED <<fd, fileHandle, logMutex, today>>
    BY <1>6 DEF Rotate, fileVars
  <2>2. fd # << >> => fd[Len(fd)].day <= today
    <3> SUFFICES ASSUME fd # << >> PROVE fd[Len(fd)].day <= today
      OBVIOUS
    <3>1. fd[Len(fd)] \in [day : Day, open : BOOLEAN]
      BY <1>1, HandleType
    <3>2. fd[Len(fd)].day \in Nat /\ fd[Len(fd)].day <= rotDay
      BY <1>2, <3>1 DEF FileInv, Day
    <3> QED
      BY <1>1, <3>2
  <2> QED
    BY <1>1, <1>2, <2>1, <2>2 DEF FileInv, NoFileLeaked
<1>7. CASE Open
  <2>1. /\ rotPc = "open" /\ rotPc' = "check"
        /\ logMutex' = logMutex /\ rotDay' = rotDay /\ today' = today
    BY <1>7 DEF Open
  <2>2. fileHandle = NoFile /\ logMutex = "free"
    BY <1>2, <2>1 DEF FileInv
  <2>3. CASE /\ fd' = Append(fd, [day |-> rotDay, open |-> TRUE])
             /\ fileHandle' = Len(fd) + 1
    <3>1. rotDay \in Day
      BY <1>2 DEF TypeOK
    <3>2. /\ fd' \in FdType /\ Len(fd') = Len(fd) + 1
          /\ fd'[Len(fd')] = [day |-> rotDay, open |-> TRUE]
          /\ \A i \in DOMAIN fd : fd'[i] = fd[i]
      <4>1. fd' = Opened(fd, rotDay)
        BY <2>3 DEF Opened
      <4>2. fd \in FdType
        BY <1>1
      <4> QED
        BY <3>1, <4>1, <4>2, OpenedType
    <3>3. DOMAIN fd' = 1..(Len(fd) + 1)
      BY <3>2 DEF FdType
    <3>4. NoFileLeaked'
      <4> SUFFICES ASSUME NEW h \in DOMAIN fd', fd'[h].open PROVE h = fileHandle'
        BY DEF NoFileLeaked
      <4>1. CASE h \in DOMAIN fd
        BY <1>1, <1>2, <2>2, <3>2, <4>1 DEF NoFile
      <4>2. CASE h = Len(fd) + 1
        BY <2>3, <4>2
      <4> QED
        BY <1>1, <3>3, <4>1, <4>2
    <3>5. fd'[Len(fd')].day <= rotDay'
      BY <1>1, <2>1, <3>2
    <3> QED
      BY <1>1, <2>1, <2>2, <2>3, <3>2, <3>4, <3>5 DEF FileInv
  <2>4. CASE UNCHANGED <<fd, fileHandle>>
    BY <1>2, <2>1, <2>2, <2>4 DEF FileInv, NoFileLeaked
  <2> QED
    BY <1>7, <2>3, <2>4 DEF Open
<1>8. CASE Midnight
  <2>1. today' = today + 1 /\ UNCHANGED <<fd, fileHandle, logMutex, rotPc, rotDay>>
    BY <1>8 DEF Midnight, fileVars
  <2> QED
    BY <1>1, <1>2, <2>1 DEF FileInv, NoFileLeaked
<1>9. CASE UNCHANGED <<fd, fileHandle, logMutex, rotPc, rotDay, today>>
  BY <1>2, <1>9 DEF FileInv, NoFileLeaked
<1> QED
  BY <1>3, <1>4, <1>5, <1>6, <1>7, <1>8, <1>9, FileSteps

LEMMA ClosingSteps ==
  ASSUME [Next]_vars
  PROVE \/ TakeClose \/ CloseOutput
        \/ \E g \in {Flusher, Rotator} : CloseNothing(g) \/ CloseHandle(g) \/ SetNil(g)
        \/ Rotate \/ Open \/ Midnight
        \/ /\ UNCHANGED <<fd, fileHandle, logMutex, rotPc, today, closeSent>>
           /\ \/ flPc' = flPc
              \/ flPc' \notin {"say", "last flush", "close", "stopped"}
              \/ flPc \in {"say", "last flush"}
<1>1. CASE AppWrites \/ SayClosed
  BY <1>1 DEF AppWrites, SayClosed, fileVars
<1>2. ASSUME NEW w \in Writer, ReadHandle(w) \/ WriteOut(w)
      PROVE UNCHANGED <<fd, fileHandle, logMutex, rotPc, today, closeSent, flPc>>
  BY <1>2 DEF ReadHandle, WriteOut, fileVars
<1>3. CASE Tick \/ TakeToken \/ GetBuffer
  BY <1>3 DEF Tick, TakeToken, GetBuffer, fileVars
<1>4. CASE ForceOn \/ ForceOff
  BY <1>4 DEF ForceOn, ForceOff, fileVars
<1>5. CASE UNCHANGED vars
  BY <1>5 DEF vars, fileVars
<1> QED
  BY <1>1, <1>2, <1>3, <1>4, <1>5, Steps

LEMMA ClosingStep == IInv /\ [Next]_vars => CloseInv'
<1> SUFFICES ASSUME IInv, [Next]_vars PROVE CloseInv'
  OBVIOUS
<1> DEFINE Ending == {"say", "last flush", "close", "stopped"}
           OneClosed == \E h \in DOMAIN fd : ~fd[h].open
<1>1. /\ flPc \in Ending => closeSent
      /\ logMutex = Flusher => closeSent
      /\ rotPc = "close" /\ fileHandle # NoFile => today > 0
      /\ OneClosed => closeSent \/ today > 0
  BY DEF IInv, CloseInv
<1>2. /\ fd \in FdType /\ DOMAIN fd = 1..Len(fd) /\ Len(fd) \in Nat
      /\ today \in Nat /\ TypeOK /\ FileInv
  <2>1. fd \in FdType /\ today \in Day
    BY DEF IInv, TypeOK, FdType
  <2> QED
    BY <2>1 DEF IInv, FdType, Day
<1>3. CloseInv' <=>
        /\ flPc' \in Ending => closeSent'
        /\ logMutex' = Flusher => closeSent'
        /\ rotPc' = "close" /\ fileHandle' # NoFile => today' > 0
        /\ OneClosed' => closeSent' \/ today' > 0
  BY DEF CloseInv
<1>4. CASE TakeClose
  BY <1>1, <1>3, <1>4 DEF TakeClose, fileVars
<1>5. CASE CloseOutput
  BY <1>1, <1>3, <1>5 DEF CloseOutput, fileVars
<1>6. ASSUME NEW g \in {Flusher, Rotator}, CloseNothing(g) PROVE CloseInv'
  <2>1. UNCHANGED <<fd, fileHandle, logMutex, today, closeSent>> /\ fileHandle = NoFile
    BY <1>6 DEF CloseNothing, fileVars
  <2>2. flPc' = flPc \/ flPc = "close"
    BY <1>6, GoroutineAssumption DEF CloseNothing, Closes, GoesOn
  <2> QED
    BY <1>1, <1>3, <2>1, <2>2
<1>7. ASSUME NEW g \in {Flusher, Rotator}, CloseHandle(g) PROVE CloseInv'
  <2>1. UNCHANGED <<fileHandle, today, closeSent, flPc, rotPc>> /\ logMutex' = g
    BY <1>7 DEF CloseHandle
  <2>2. (g = Flusher /\ closeSent) \/ (g = Rotator /\ today > 0)
    <3>1. /\ fileHandle # NoFile
          /\ \/ g = Flusher /\ flPc = "close"
             \/ g = Rotator /\ rotPc = "close"
      BY <1>7 DEF CloseHandle, Closes
    <3>2. /\ flPc = "close" => closeSent
          /\ rotPc = "close" /\ fileHandle # NoFile => today > 0
      BY <1>1
    <3> QED
      BY <3>1, <3>2
  <2> QED
    BY <1>1, <1>3, <2>1, <2>2, GoroutineAssumption
<1>8. ASSUME NEW g \in {Flusher, Rotator}, SetNil(g) PROVE CloseInv'
  <2>1. /\ UNCHANGED <<fd, today, closeSent>> /\ logMutex = g
        /\ fileHandle' = NoFile /\ logMutex' = "free"
        /\ flPc' = flPc \/ g = Flusher
    BY <1>8 DEF SetNil, GoesOn
  <2> QED
    BY <1>1, <1>3, <2>1, GoroutineAssumption DEF Writer
<1>9. CASE Rotate
  <2>1. /\ UNCHANGED <<fd, fileHandle, logMutex, today, closeSent, flPc>>
        /\ fileHandle = NoFile \/ ~FileExists(today)
    BY <1>9 DEF Rotate, fileVars
  <2>2. fileHandle # NoFile => today > 0
    <3> SUFFICES ASSUME fileHandle # NoFile, today = 0 PROVE FALSE
      BY <1>2
    <3>1. fileHandle \in DOMAIN fd /\ fileHandle = Len(fd) /\ fd # << >>
      BY <1>2, HandleInRange DEF FileInv
    <3>2. fd[Len(fd)].day \in Nat
      <4>1. fd[Len(fd)] \in [day : Day, open : BOOLEAN]
        BY <1>2, <3>1, HandleType
      <4> QED
        BY <4>1 DEF Day
    <3>3. rotDay \in Nat /\ rotDay <= today /\ fd[Len(fd)].day <= rotDay
      <4>1. rotDay \in Day
        BY <1>2 DEF TypeOK
      <4> QED
        BY <1>2, <3>1, <4>1 DEF FileInv, Day
    <3>4. fd[Len(fd)].day = today
      BY <3>2, <3>3
    <3> QED
      BY <2>1, <3>1, <3>4 DEF FileExists
  <2> QED
    BY <1>1, <1>3, <2>1, <2>2
<1>10. CASE Open
  <2>1. /\ rotPc' = "check" /\ UNCHANGED <<logMutex, today, closeSent, flPc>>
        /\ fd' = fd \/ fd' = Opened(fd, rotDay)
    BY <1>10 DEF Open, Opened
  <2>2. OneClosed' => OneClosed
    <3>1. CASE fd' = Opened(fd, rotDay)
      <4>1. rotDay \in Day
        BY <1>2 DEF TypeOK
      <4>2. /\ fd' \in FdType /\ Len(fd') = Len(fd) + 1
            /\ fd'[Len(fd')] = [day |-> rotDay, open |-> TRUE]
            /\ \A i \in DOMAIN fd : fd'[i] = fd[i]
        BY <1>2, <3>1, <4>1, OpenedType
      <4>3. DOMAIN fd' = 1..(Len(fd) + 1) /\ fd'[Len(fd) + 1].open
        BY <4>2 DEF FdType
      <4>4. ASSUME NEW h \in DOMAIN fd', ~fd'[h].open PROVE h \in DOMAIN fd /\ ~fd[h].open
        BY <1>2, <4>2, <4>3, <4>4
      <4> QED
        BY <4>4
    <3> QED
      BY <2>1, <3>1
  <2> QED
    BY <1>1, <1>3, <2>1, <2>2
<1>11. CASE Midnight
  <2>1. /\ today' = today + 1
        /\ UNCHANGED <<fd, fileHandle, logMutex, rotPc, closeSent, flPc>>
    BY <1>11 DEF Midnight, fileVars
  <2>2. today' > 0
    BY <1>2, <2>1
  <2> QED
    BY <1>1, <1>3, <2>1, <2>2
<1>12. CASE /\ UNCHANGED <<fd, fileHandle, logMutex, rotPc, today, closeSent>>
            /\ \/ flPc' = flPc
               \/ flPc' \notin Ending
               \/ flPc \in {"say", "last flush"}
  BY <1>1, <1>3, <1>12
<1> QED
  BY <1>4, <1>5, <1>6, <1>7, <1>8, <1>9, <1>10, <1>11, <1>12, ClosingSteps

-----------------------------------------------------------------------------
(* A line written to a file that is open goes to the handle opened last.   *)
LEMMA OpenIsLast ==
  ASSUME IInv, NEW h \in 0..Len(fd), h # NoFile, fd[h].open
  PROVE /\ h = Len(fd) /\ fd # << >> /\ fd[h].day \in Day
        /\ \A d \in Day : content[d] # << >> => d <= fd[h].day
<1>1. fd \in FdType /\ DOMAIN fd = 1..Len(fd) /\ Len(fd) \in Nat
  <2>1. fd \in FdType
    BY DEF IInv, TypeOK, FdType
  <2> QED
    BY <2>1 DEF FdType
<1>2. h \in DOMAIN fd
  BY <1>1 DEF NoFile
<1>3. h = fileHandle
  BY <1>2 DEF IInv, FileInv, NoFileLeaked
<1>4. h = Len(fd) /\ fd # << >>
  BY <1>1, <1>2, <1>3 DEF IInv, FileInv
<1>5. fd[h].day \in Day
  <2>1. fd[Len(fd)] \in [day : Day, open : BOOLEAN]
    BY <1>1, <1>4, HandleType
  <2> QED
    BY <1>4, <2>1
<1> QED
  BY <1>4, <1>5 DEF IInv, ContentInv

(* What WriteOut does with the lines in the hand.                          *)
Printed(w, k) ==
  /\ stdout' = stdout \o First(hand[w], k)
  /\ unwritten' = unwritten \cup Others(hand[w], k)
  /\ UNCHANGED <<content, lost>>
Filed(w, k, d) ==
  /\ content' = [content EXCEPT ![d] = @ \o First(hand[w], k)]
  /\ unwritten' = unwritten \cup Others(hand[w], k)
  /\ UNCHANGED <<stdout, lost>>
Lost(w) == lost' = lost \cup ToSet(hand[w]) /\ UNCHANGED <<content, stdout, unwritten>>

LEMMA WriteOutCases ==
  ASSUME IInv, NEW w \in Writer, WriteOut(w)
  PROVE /\ hand' = [hand EXCEPT ![w] = << >>]
        /\ mutex' = IF mutex = w THEN "free" ELSE mutex
        /\ UNCHANGED <<accepted, buffer, fd, flushForce, overtaken>>
        /\ \/ \E k \in 0..Len(hand[w]) : Printed(w, k)
           \/ Lost(w) /\ \E h \in DOMAIN fd : ~fd[h].open
           \/ \E k \in 0..Len(hand[w]), d \in Day :
                /\ Filed(w, k, d)
                /\ fd # << >> /\ d = fd[Len(fd)].day
                /\ \A e \in Day : content[e] # << >> => e <= d
<1>1. /\ hand' = [hand EXCEPT ![w] = << >>]
      /\ mutex' = IF mutex = w THEN "free" ELSE mutex
      /\ UNCHANGED <<accepted, buffer, fd, flushForce, overtaken>>
  BY DEF WriteOut, fileVars, forceVars
<1> DEFINE h == target[w]
           n == Len(hand[w])
<1>2. h \in 0..Len(fd) /\ n \in Nat
  <2>1. target \in [Writer -> 0..Len(fd)] /\ hand \in [Writer -> Seq(Line)]
    BY DEF IInv, TypeOK
  <2>2. hand[w] \in Seq(Line)
    BY <2>1
  <2> QED
    BY <2>1, <2>2
<1>3. \/ \E k \in 0..n : Puts(w, k)
      \/ h # NoFile /\ ~fd[h].open /\ Lost(w)
  <2>1. n \in 0..n /\ 0..n-1 \subseteq 0..n
    BY <1>2
  <2> HIDE DEF n
  <2> QED
    BY <2>1 DEF WriteOut, Lost, n
<1>4. h # NoFile => h \in DOMAIN fd
  <2>1. fd \in FdType
    BY DEF IInv, TypeOK, FdType
  <2> QED
    BY <1>2, <2>1 DEF FdType, NoFile
<1>5. ASSUME NEW k \in 0..n, Puts(w, k)
      PROVE  \/ Printed(w, k)
             \/ \E d \in Day : /\ Filed(w, k, d)
                               /\ fd # << >> /\ d = fd[Len(fd)].day
                               /\ \A e \in Day : content[e] # << >> => e <= d
  <2>1. \/ Printed(w, k)
        \/ h # NoFile /\ fd[h].open /\ Filed(w, k, fd[h].day)
    BY <1>5 DEF Puts, Printed, Filed, First, Others
  <2> HIDE DEF h, n
  <2>2. CASE h # NoFile /\ fd[h].open /\ Filed(w, k, fd[h].day)
    <3>1. /\ h = Len(fd) /\ fd # << >> /\ fd[h].day \in Day
          /\ \A d \in Day : content[d] # << >> => d <= fd[h].day
      BY <1>2, <2>2, OpenIsLast
    <3> QED
      BY <2>2, <3>1
  <2> QED
    BY <2>1, <2>2
<1> HIDE DEF h
<1> QED
  BY <1>1, <1>3, <1>4, <1>5

LEMMA ContentStep == IInv /\ [Next]_vars => ContentInv'
<1> SUFFICES ASSUME IInv, [Next]_vars PROVE ContentInv'
  OBVIOUS
<1>1. /\ fd \in FdType /\ content \in [Day -> Seq(Line)] /\ ContentInv
      /\ DOMAIN fd = 1..Len(fd) /\ Len(fd) \in Nat
  <2>1. fd \in FdType
    BY DEF IInv, TypeOK, FdType
  <2>2. content \in [Day -> Seq(Line)] /\ ContentInv
    BY DEF IInv, TypeOK
  <2> QED
    BY <2>1, <2>2 DEF FdType
<1>2. ASSUME NEW w \in Writer, WriteOut(w) PROVE ContentInv'
  <2>1. CASE content' = content
    BY <1>1, <1>2, <2>1, WriteOutCases DEF ContentInv
  <2>2. ASSUME NEW k, NEW d \in Day, Filed(w, k, d), fd # << >>, d = fd[Len(fd)].day,
               \A e \in Day : content[e] # << >> => e <= d
        PROVE ContentInv'
    <3>1. content' = [content EXCEPT ![d] = @ \o First(hand[w], k)] /\ fd' = fd
      BY <1>2, <2>2, WriteOutCases DEF Filed
    <3>2. \A e \in Day : content'[e] # << >> => e <= d
      <4>1. \A e \in Day : e # d => content'[e] = content[e]
        BY <1>1, <3>1
      <4>2. d <= d
        BY DEF Day
      <4> QED
        BY <2>2, <4>1, <4>2
    <3> QED
      BY <2>2, <3>1, <3>2 DEF ContentInv
  <2> QED
    BY <1>2, <2>1, <2>2, WriteOutCases DEF Printed, Lost
<1>3. ASSUME NEW g \in {Flusher, Rotator}, CloseHandle(g) PROVE ContentInv'
  <2>1. /\ fileHandle # NoFile /\ content' = content
        /\ fd' = Closed(fd, fileHandle)
    BY <1>3 DEF CloseHandle, Closed, output
  <2>2. fileHandle \in DOMAIN fd
    BY <2>1, HandleInRange DEF IInv
  <2>3. /\ fd' \in FdType /\ Len(fd') = Len(fd)
        /\ \A i \in DOMAIN fd : fd'[i].day = fd[i].day
    BY <1>1, <2>1, <2>2, ClosedType
  <2>4. fd' # << >> /\ Len(fd) \in DOMAIN fd
    BY <1>1, <2>2, <2>3
  <2> QED
    BY <1>1, <2>1, <2>3, <2>4 DEF ContentInv
<1>4. CASE Open
  <2>1. content' = content
    BY <1>4 DEF Open, output
  <2>2. CASE fd' = fd
    BY <1>1, <2>1, <2>2 DEF ContentInv
  <2>3. CASE fd' = Opened(fd, rotDay)
    <3>1. rotDay \in Day
      BY DEF IInv, TypeOK
    <3>2. /\ fd' \in FdType /\ Len(fd') = Len(fd) + 1
          /\ fd'[Len(fd')] = [day |-> rotDay, open |-> TRUE]
      BY <1>1, <2>3, <3>1, OpenedType
    <3>3. fd' # << >> /\ fd'[Len(fd')].day = rotDay
      BY <1>1, <3>2
    <3> SUFFICES ASSUME NEW d \in Day, content[d] # << >> PROVE d <= rotDay
      BY <2>1, <3>3 DEF ContentInv
    <3>4. fd # << >> /\ d <= fd[Len(fd)].day /\ fd[Len(fd)].day <= rotDay
      BY DEF IInv, ContentInv, FileInv
    <3>5. fd[Len(fd)].day \in Day
      <4>1. fd[Len(fd)] \in [day : Day, open : BOOLEAN]
        BY <1>1, <3>4, HandleType
      <4> QED
        BY <4>1
    <3> QED
      BY <3>1, <3>4, <3>5 DEF Day
  <2> QED
    BY <1>4, <2>2, <2>3 DEF Open, Opened
<1>5. CASE content' = content /\ fd' = fd
  BY <1>1, <1>5 DEF ContentInv
<1>6. content' = content \/ \E w \in Writer : WriteOut(w)
  BY LineSteps DEF ReadHandle, GetBuffer, output
<1>7. fd' = fd \/ Open \/ \E g \in {Flusher, Rotator} : CloseHandle(g)
  BY FileSteps DEF CloseNothing, SetNil, Rotate, Midnight, fileVars
<1> QED
  BY <1>2, <1>3, <1>4, <1>5, <1>6, <1>7

-----------------------------------------------------------------------------
LEMMA LinesOnce == EachLineOnce <=> Once(Place, Kept, Gone, accepted)
BY DEF EachLineOnce, Once

LEMMA LinesOnceNext == EachLineOnce' <=> Once(Place, Kept', Gone', accepted')
BY DEF EachLineOnce, Once

(* What is kept where nothing changes.                                     *)
LEMMA Elsewhere ==
  ASSUME NEW B \in SUBSET Place,
         Buffer \notin B => buffer' = buffer,
         Stdout \notin B => stdout' = stdout,
         \A w \in Writer : Hand(w) \notin B => hand'[w] = hand[w],
         \A d \in Day : File(d) \notin B => content'[d] = content[d]
  PROVE \A p \in Place \ B : Kept'[p] = Kept[p]
<1> SUFFICES ASSUME NEW p \in Place, p \notin B PROVE Kept'[p] = Kept[p]
  OBVIOUS
<1>1. CASE p = Buffer
  BY <1>1, KeptThere, KeptThereNext
<1>2. CASE p = Stdout
  BY <1>2, KeptThere, KeptThereNext
<1>3. ASSUME NEW w \in Writer, p = Hand(w) PROVE Kept'[p] = Kept[p]
  BY <1>3, KeptThere, KeptThereNext
<1>4. ASSUME NEW d \in Day, p = File(d) PROVE Kept'[p] = Kept[p]
  BY <1>4, KeptThere, KeptThereNext
<1> QED
  BY <1>1, <1>2, <1>3, <1>4, PlaceCases

LEMMA LineStep == IInv /\ [Next]_vars => EachLineOnce'
<1> SUFFICES ASSUME IInv, [Next]_vars PROVE EachLineOnce'
  OBVIOUS
<1>1. /\ TypeOK /\ HandInv /\ Once(Place, Kept, Gone, accepted)
      /\ Kept \in [Place -> Seq(Nat)] /\ accepted \in Nat
  <2>1. TypeOK /\ HandInv /\ Once(Place, Kept, Gone, accepted)
    BY LinesOnce DEF IInv
  <2>2. accepted \in 0..MaxLines + 1
    BY DEF IInv, TypeOK
  <2> QED
    BY <2>1, <2>2, KeptType
<1>2. /\ hand \in [Writer -> Seq(Line)] /\ content \in [Day -> Seq(Line)]
      /\ buffer \in Seq(Line) /\ stdout \in Seq(Line)
  BY <1>1 DEF TypeOK
<1>3. ASSUME NEW w \in Writer, Write(w), UNCHANGED <<content, stdout, lost, unwritten>>
      PROVE EachLineOnce'
  <2>1. accepted' = accepted + 1
    BY <1>3 DEF Write
  <2>2. CASE Direct(w)
    <3>1. buffer' = buffer /\ hand' = [hand EXCEPT ![w] = <<accepted + 1>>]
      BY <2>2 DEF Direct
    <3>2. hand[w] = << >>
      BY <1>1, <2>2 DEF Direct, HandInv
    <3>3. Kept'[Hand(w)] = Kept[Hand(w)] \o <<accepted + 1>>
      <4>1. hand'[w] = <<accepted + 1>>
        BY <1>2, <3>1
      <4>2. << >> \o <<accepted + 1>> = <<accepted + 1>>
        OBVIOUS
      <4> QED
        BY <3>2, <4>1, <4>2, KeptThere, KeptThereNext
    <3>4. \A p \in Place \ {Hand(w)} : Kept'[p] = Kept[p]
      <4>1. \A v \in Writer : Hand(v) \notin {Hand(w)} => hand'[v] = hand[v]
        BY <1>2, <3>1
      <4>2. Hand(w) \in Place
        BY Places
      <4> QED
        BY <1>3, <3>1, <4>1, <4>2, Elsewhere
    <3>5. Once(Place, Kept', Gone, accepted + 1)
      <4>1. Hand(w) \in Place
        BY Places
      <4> QED
        BY <1>1, <3>3, <3>4, <4>1, OnceMore
    <3> QED
      BY <1>3, <2>1, <3>5, LinesOnceNext DEF Gone
  <2>3. CASE Buffered
    <3>1. buffer' = Append(buffer, accepted + 1) /\ hand' = hand
      BY <2>3 DEF Buffered
    <3>2. Kept'[Buffer] = Kept[Buffer] \o <<accepted + 1>>
      <4>1. buffer' = buffer \o <<accepted + 1>>
        BY <1>2, <3>1
      <4> QED
        BY <4>1, KeptThere, KeptThereNext
    <3>3. \A p \in Place \ {Buffer} : Kept'[p] = Kept[p]
      BY <1>3, <3>1, Places, Elsewhere
    <3>4. Once(Place, Kept', Gone, accepted + 1)
      BY <1>1, <3>2, <3>3, Places, OnceMore
    <3> QED
      BY <1>3, <2>1, <3>4, LinesOnceNext DEF Gone
  <2> QED
    BY <1>1, <1>3, <2>2, <2>3, WriteCases
<1>4. ASSUME NEW w \in Writer, WriteOut(w) PROVE EachLineOnce'
  <2>1. /\ hand' = [hand EXCEPT ![w] = << >>] /\ buffer' = buffer /\ accepted' = accepted
        /\ Hand(w) \in Place
    BY <1>4, WriteOutCases, Places
  <2>2. \A v \in Writer : v # w => hand'[v] = hand[v]
    BY <1>2, <2>1
  <2>3. Kept[Hand(w)] = hand[w] /\ Kept'[Hand(w)] = << >>
    BY <1>2, <2>1, KeptThere, KeptThereNext
  <2>4. ASSUME NEW k \in 0..Len(hand[w]), Printed(w, k) PROVE EachLineOnce'
    <3>1. Kept'[Stdout] = Kept[Stdout] \o First(Kept[Hand(w)], k)
      BY <2>3, <2>4, KeptThere, KeptThereNext DEF Printed
    <3>2. \A p \in Place \ {Hand(w), Stdout} : Kept'[p] = Kept[p]
      BY <2>1, <2>2, <2>4, Places, Elsewhere DEF Printed
    <3>3. Once(Place, Kept', Gone \cup Others(Kept[Hand(w)], k), accepted)
      BY <1>1, <2>1, <2>3, <2>4, <3>1, <3>2, Places, PlacesDiffer, OnceParted
    <3>4. Gone' = Gone \cup Others(Kept[Hand(w)], k)
      BY <2>3, <2>4 DEF Printed, Gone
    <3> QED
      BY <2>1, <3>3, <3>4, LinesOnceNext
  <2>5. CASE Lost(w)
    <3>1. \A p \in Place \ {Hand(w)} : Kept'[p] = Kept[p]
      BY <2>1, <2>2, <2>5, Elsewhere DEF Lost
    <3>2. Once(Place, Kept', Gone \cup ToSet(Kept[Hand(w)]), accepted)
      BY <1>1, <2>1, <2>3, <3>1, OnceLost
    <3>3. Gone' = Gone \cup ToSet(Kept[Hand(w)])
      BY <2>3, <2>5 DEF Lost, Gone
    <3> QED
      BY <2>1, <3>2, <3>3, LinesOnceNext
  <2>6. ASSUME NEW k \in 0..Len(hand[w]), NEW d \in Day, Filed(w, k, d)
        PROVE EachLineOnce'
    <3>1. content' = [content EXCEPT ![d] = @ \o First(hand[w], k)] /\ stdout' = stdout
      BY <2>6 DEF Filed
    <3>2. /\ content'[d] = content[d] \o First(hand[w], k)
          /\ \A e \in Day : e # d => content'[e] = content[e]
      BY <1>2, <3>1
    <3>3. File(d) \in Place /\ Kept'[File(d)] = Kept[File(d)] \o First(Kept[Hand(w)], k)
      BY <2>3, <3>2, Places, KeptThere, KeptThereNext
    <3>4. \A p \in Place \ {Hand(w), File(d)} : Kept'[p] = Kept[p]
      BY <2>1, <2>2, <3>1, <3>2, <3>3, Elsewhere
    <3>5. Once(Place, Kept', Gone \cup Others(Kept[Hand(w)], k), accepted)
      BY <1>1, <2>1, <2>3, <2>6, <3>3, <3>4, PlacesDiffer, OnceParted
    <3>6. Gone' = Gone \cup Others(Kept[Hand(w)], k)
      BY <2>3, <2>6 DEF Filed, Gone
    <3> QED
      BY <2>1, <3>5, <3>6, LinesOnceNext
  <2> QED
    BY <1>4, <2>4, <2>5, <2>6, WriteOutCases
<1>5. CASE GetBuffer
  <2>1. /\ hand' = [hand EXCEPT ![Flusher] = buffer] /\ buffer' = << >>
        /\ stage[Flusher] = "idle" /\ Flusher \in Writer
        /\ UNCHANGED <<accepted, content, stdout, lost, unwritten>>
    BY <1>5 DEF GetBuffer, Writer, output
  <2>2. /\ hand[Flusher] = << >> /\ hand'[Flusher] = buffer
        /\ \A w \in Writer : w # Flusher => hand'[w] = hand[w]
    BY <1>1, <1>2, <2>1 DEF HandInv
  <2>3. Hand(Flusher) \in Place /\ Kept'[Buffer] = << >>
    BY <2>1, Places, KeptThereNext
  <2>4. Kept'[Hand(Flusher)] = Kept[Hand(Flusher)] \o Kept[Buffer]
    <3>1. << >> \o buffer = buffer
      BY <1>2
    <3> QED
      BY <2>1, <2>2, <3>1, KeptThere, KeptThereNext
  <2>5. \A p \in Place \ {Buffer, Hand(Flusher)} : Kept'[p] = Kept[p]
    BY <2>1, <2>2, <2>3, Places, Elsewhere
  <2>6. Once(Place, Kept', Gone, accepted)
    BY <1>1, <2>3, <2>4, <2>5, Places, PlacesDiffer, OnceMoved
  <2> QED
    BY <2>1, <2>6, LinesOnceNext DEF Gone
<1>6. CASE UNCHANGED <<accepted, buffer, hand, content, stdout, lost, unwritten>>
  <2>1. Kept' = Kept
    BY <1>6 DEF Kept
  <2> QED
    BY <1>1, <1>6, <2>1, LinesOnceNext DEF Gone
<1>7. ASSUME NEW w \in Writer, ReadHandle(w)
      PROVE UNCHANGED <<accepted, buffer, hand, content, stdout, lost, unwritten>>
  BY <1>7 DEF ReadHandle, bufferVars, output
<1> QED
  BY <1>3, <1>4, <1>5, <1>6, <1>7, LineSteps

-----------------------------------------------------------------------------
(* Everything kept is a line accepted already, younger than none to come.  *)
LEMMA KeptAccepted ==
  ASSUME EachLineOnce
  PROVE /\ ToSet(buffer) \subseteq 1..accepted
        /\ Written \subseteq 1..accepted
        /\ \A w \in Writer : ToSet(hand[w]) \subseteq 1..accepted
<1>1. \A p \in Place : ToSet(Kept[p]) \subseteq 1..accepted
  BY LinesOnce, OnceRange
<1> QED
  BY <1>1, Places, KeptThere DEF Written

(* The order of the lines, as sets and sequences.                          *)
InLine(o, c) ==
  /\ Increasing(o)
  /\ \A d \in Day : Increasing(c[d])
  /\ \A d, e \in Day : d < e => Before(ToSet(c[d]), ToSet(c[e]))

AllWritten(o, c) == ToSet(o) \cup UNION {ToSet(c[d]) : d \in Day}

(* Lines younger than all written are written in order.                    *)
LEMMA PrintedInLine ==
  ASSUME NEW o \in Seq(Nat), NEW c, NEW l \in Seq(Nat),
         InLine(o, c), Increasing(l), Before(AllWritten(o, c), ToSet(l))
  PROVE InLine(o \o l, c) /\ AllWritten(o \o l, c) = AllWritten(o, c) \cup ToSet(l)
<1>1. ToSet(o \o l) = ToSet(o) \cup ToSet(l)
  BY ConcatSet
<1>2. Increasing(o \o l)
  <2>1. Before(ToSet(o), ToSet(l)) /\ Increasing(o)
    BY DEF Before, AllWritten, InLine
  <2> QED
    BY <2>1, ConcatIncreasing
<1> QED
  BY <1>1, <1>2 DEF InLine, AllWritten

PutAt(c, d, l) == [c EXCEPT ![d] = @ \o l]

LEMMA FiledInLine ==
  ASSUME NEW o, NEW c \in [Day -> Seq(Nat)], NEW l \in Seq(Nat), NEW d \in Day,
         \A e \in Day : c[e] # << >> => e <= d,
         InLine(o, c), Increasing(l), Before(AllWritten(o, c), ToSet(l)),
         NEW b, b = PutAt(c, d, l)
  PROVE InLine(o, b) /\ AllWritten(o, b) = AllWritten(o, c) \cup ToSet(l)
<1>1. /\ b[d] = c[d] \o l
      /\ \A e \in Day : e # d => b[e] = c[e]
  BY DEF PutAt
<1>2. c[d] \in Seq(Nat)
  OBVIOUS
<1>3. ToSet(b[d]) = ToSet(c[d]) \cup ToSet(l)
  <2>1. ToSet(c[d] \o l) = ToSet(c[d]) \cup ToSet(l)
    BY <1>2, ConcatSet
  <2> QED
    BY <1>1, <2>1
<1>4. \A e \in Day : Before(ToSet(c[e]), ToSet(l))
  BY DEF Before, AllWritten
<1>5. Increasing(b[d])
  <2>1. Increasing(c[d]) /\ Before(ToSet(c[d]), ToSet(l))
    BY <1>4 DEF InLine
  <2>2. Increasing(c[d] \o l)
    BY <1>2, <2>1, ConcatIncreasing
  <2> QED
    BY <1>1, <2>2
<1>6. \A e \in Day : Increasing(b[e])
  BY <1>1, <1>5 DEF InLine
<1>7. ASSUME NEW e \in Day, NEW f \in Day, e < f
      PROVE Before(ToSet(b[e]), ToSet(b[f]))
  <2>1. Before(ToSet(c[e]), ToSet(c[f]))
    BY <1>7 DEF InLine
  <2>2. CASE e = d
    <3>1. f # d /\ ~ (f <= d)
      BY <1>7, <2>2 DEF Day
    <3>2. b[f] = << >>
      BY <1>1, <3>1
    <3> QED
      BY <3>2, NoElement DEF Before
  <2>3. CASE e # d /\ f = d
    <3>1. ToSet(b[e]) = ToSet(c[e])
      BY <1>1, <2>3
    <3> QED
      BY <1>3, <1>4, <2>1, <2>3, <3>1 DEF Before
  <2>4. CASE e # d /\ f # d
    BY <1>1, <2>1, <2>4
  <2> QED
    BY <2>2, <2>3, <2>4
<1>8. AllWritten(o, b) = AllWritten(o, c) \cup ToSet(l)
  <2>1. \A e \in Day : ToSet(b[e]) = IF e = d THEN ToSet(c[e]) \cup ToSet(l) ELSE ToSet(c[e])
    BY <1>1, <1>3
  <2> QED
    BY <2>1 DEF AllWritten
<1> QED
  BY <1>6, <1>7, <1>8 DEF InLine

LEMMA OrderStep == IInv /\ [Next]_vars => OrderInv' /\ InOrder'
<1> SUFFICES ASSUME IInv, [Next]_vars
             PROVE OrderInv' /\ InOrder'
  OBVIOUS
<1>0. overtaken' \in BOOLEAN /\ flushForce' \in BOOLEAN
  <2>1. TypeOK'
    BY TypeStep
  <2> QED
    BY <2>1 DEF TypeOK
<1>a. CASE overtaken' = TRUE
  BY <1>a DEF OrderInv, InOrder
<1> SUFFICES ASSUME overtaken' = FALSE
             PROVE OrderInv' /\ InOrder'
  BY <1>0, <1>a
<1>1. /\ TypeOK /\ HandInv /\ EachLineOnce
      /\ hand \in [Writer -> Seq(Line)] /\ content \in [Day -> Seq(Line)]
      /\ buffer \in Seq(Line) /\ stdout \in Seq(Line)
  BY DEF IInv, TypeOK
<1>2. App \in Writer /\ Flusher \in Writer /\ App # Flusher /\ App # "free" /\ Flusher # "free"
      /\ \A w \in Writer : w = App \/ w = Flusher
  BY GoroutineAssumption DEF Writer
<1>3. overtaken = FALSE
  <2>1. overtaken \in BOOLEAN
    BY DEF IInv, TypeOK
  <2>2. overtaken' = overtaken \/ ForceOn
    BY Steps DEF AppWrites, ReadHandle, WriteOut, Tick, TakeToken, TakeClose, SayClosed,
                 GetBuffer, CloseNothing, CloseHandle, SetNil, Rotate, Open, ForceOff,
                 CloseOutput, Midnight, vars, forceVars
  <2> QED
    BY <2>1, <2>2 DEF ForceOn
<1>4. /\ flushForce = TRUE \/ mutex # "free" => buffer = << >>
      /\ flushForce = TRUE => hand[Flusher] = << >> \/ mutex = Flusher
      /\ mutex = App => hand[Flusher] = << >>
      /\ Increasing(buffer)
      /\ Before(Written, ToSet(buffer))
      /\ \A w \in Writer : /\ Increasing(hand[w])
                           /\ Before(Written, ToSet(hand[w]))
                           /\ Before(ToSet(hand[w]), ToSet(buffer))
  BY <1>3 DEF IInv, OrderInv
<1>5. InLine(stdout, content) /\ Written = AllWritten(stdout, content)
  BY <1>3 DEF IInv, InOrder, InLine, Written, AllWritten
<1>6. hand[App] # << >> => mutex = App
  BY DEF IInv, HandInv
<1> DEFINE Goal ==
      /\ InLine(stdout', content')
      /\ flushForce' = TRUE \/ mutex' # "free" => buffer' = << >>
      /\ flushForce' = TRUE => hand'[Flusher] = << >> \/ mutex' = Flusher
      /\ mutex' = App => hand'[Flusher] = << >>
      /\ Increasing(buffer')
      /\ Before(Written', ToSet(buffer'))
      /\ \A w \in Writer : /\ Increasing(hand'[w])
                           /\ Before(Written', ToSet(hand'[w]))
                           /\ Before(ToSet(hand'[w]), ToSet(buffer'))
<1>7. Goal => OrderInv' /\ InOrder'
  BY <1>0 DEF OrderInv, InOrder, InLine
<1>8. ASSUME UNCHANGED <<stdout, content>> PROVE Written' = Written /\ InLine(stdout', content')
  BY <1>5, <1>8 DEF Written
<1>9. /\ ToSet(buffer) \subseteq 1..accepted /\ Written \subseteq 1..accepted
      /\ \A w \in Writer : ToSet(hand[w]) \subseteq 1..accepted
      /\ accepted \in Nat
  <2>1. accepted \in 0..MaxLines + 1
    BY <1>1 DEF TypeOK
  <2> QED
    BY <1>1, <2>1, KeptAccepted
<1>10. ASSUME NEW w \in Writer, Write(w),
              UNCHANGED <<content, stdout, lost, unwritten, flushForce, overtaken, fd>>
       PROVE Goal
  <2> DEFINE n == accepted + 1
  <2>1. \A S \in SUBSET (1..accepted) : Before(S, {n})
    BY <1>9 DEF Before
  <2>2. ToSet(<<n>>) = {n} /\ Increasing(<<n>>) /\ <<n>> \in Seq(Nat)
    <3>1. n \in Nat
      BY <1>9
    <3> QED
      BY <3>1, OneElement
  <2>3. CASE Direct(w)
    <3>1. /\ flushForce = TRUE /\ mutex = "free" /\ mutex' = w
          /\ buffer' = buffer /\ hand' = [hand EXCEPT ![w] = <<n>>]
      BY <2>3 DEF Direct
    <3>2. buffer = << >> /\ hand[App] = << >> /\ hand[Flusher] = << >>
      BY <1>2, <1>4, <1>6, <3>1
    <3>3. hand'[w] = <<n>> /\ \A v \in Writer : v # w => hand'[v] = << >>
      BY <1>1, <1>2, <3>1, <3>2
    <3>4. mutex' = App => hand'[Flusher] = << >>
      BY <1>2, <3>1, <3>3
    <3>5. flushForce' = TRUE => hand'[Flusher] = << >> \/ mutex' = Flusher
      BY <1>2, <3>1, <3>3
    <3>6. ToSet(buffer') = {}
      BY <3>1, <3>2, NoElement
    <3>7. \A v \in Writer : Increasing(hand'[v]) /\ Before(Written', ToSet(hand'[v]))
      <4>1. Before(Written, {n}) /\ Before(Written, {})
        BY <1>9, <2>1 DEF Before
      <4> QED
        BY <1>8, <1>10, <2>2, <3>3, <4>1, NoElement
    <3> HIDE DEF n
    <3> QED
      BY <1>4, <1>8, <1>10, <3>1, <3>2, <3>4, <3>5, <3>6, <3>7 DEF Before
  <2>4. CASE Buffered
    <3>1. /\ flushForce = FALSE /\ mutex = "free" /\ mutex' = mutex
          /\ buffer' = Append(buffer, n) /\ hand' = hand
      BY <2>4 DEF Buffered
    <3>2. buffer \in Seq(Nat) /\ buffer' = buffer \o <<n>>
      <4>1. buffer \in Seq(Nat)
        BY <1>1, LinesAreNumbers
      <4> QED
        BY <3>1, <4>1
    <3> DEFINE t == <<n>>
    <3>t. t \in Seq(Nat) /\ buffer' = buffer \o t /\ ToSet(t) = {n} /\ Increasing(t)
      BY <2>2, <3>2
    <3> HIDE DEF t, n
    <3>3. ToSet(buffer') = ToSet(buffer) \cup {n}
      BY <3>2, <3>t, ConcatSet
    <3>4. Increasing(buffer')
      <4>1. Before(ToSet(buffer), ToSet(t))
        BY <1>9, <2>1, <3>t
      <4> QED
        BY <1>4, <3>2, <3>t, <4>1, ConcatIncreasing
    <3>5. /\ Before(Written, ToSet(buffer'))
          /\ \A v \in Writer : Before(ToSet(hand[v]), ToSet(buffer'))
      <4>1. Before(Written, {n}) /\ \A v \in Writer : Before(ToSet(hand[v]), {n})
        BY <1>9, <2>1
      <4> QED
        BY <1>4, <3>3, <4>1 DEF Before
    <3>6. hand' = hand /\ mutex' = mutex /\ mutex = "free" /\ flushForce' = FALSE
      BY <1>10, <3>1
    <3>7. mutex' # App
      BY <1>2, <3>6
    <3> QED
      BY <1>4, <1>8, <1>10, <3>4, <3>5, <3>6, <3>7
  <2> QED
    BY <1>1, <1>10, <2>3, <2>4, WriteCases
<1>11. ASSUME NEW w \in Writer, WriteOut(w) PROVE Goal
  <2>1. /\ hand' = [hand EXCEPT ![w] = << >>]
        /\ mutex' = IF mutex = w THEN "free" ELSE mutex
        /\ UNCHANGED <<accepted, buffer, flushForce, overtaken>>
    BY <1>11, WriteOutCases
  <2>2. hand'[w] = << >> /\ \A v \in Writer : v # w => hand'[v] = hand[v]
    BY <1>1, <2>1
  <2>3. /\ stdout \in Seq(Nat) /\ hand[w] \in Seq(Nat) /\ content \in [Day -> Seq(Nat)]
    BY <1>1, LinesAreNumbers
  <2>4. \A k \in 0..Len(hand[w]) :
          LET l == First(hand[w], k) IN
          /\ l \in Seq(Nat) /\ Increasing(l) /\ ToSet(l) \subseteq ToSet(hand[w])
          /\ Before(AllWritten(stdout, content), ToSet(l))
    <3> SUFFICES ASSUME NEW k \in 0..Len(hand[w])
                 PROVE  LET l == First(hand[w], k) IN
                        /\ l \in Seq(Nat) /\ Increasing(l) /\ ToSet(l) \subseteq ToSet(hand[w])
                        /\ Before(AllWritten(stdout, content), ToSet(l))
      OBVIOUS
    <3>1. Increasing(hand[w]) /\ Before(AllWritten(stdout, content), ToSet(hand[w]))
      BY <1>4, <1>5
    <3>2. /\ First(hand[w], k) \in Seq(Nat) /\ Increasing(First(hand[w], k))
          /\ ToSet(First(hand[w], k)) \subseteq ToSet(hand[w])
      BY <2>3, <3>1, Parts
    <3> QED
      BY <3>1, <3>2 DEF Before
  <2>5. /\ InLine(stdout', content')
        /\ Written' \subseteq Written \cup ToSet(hand[w])
    <3>1. ASSUME NEW k \in 0..Len(hand[w]), Printed(w, k)
          PROVE /\ InLine(stdout', content')
                /\ Written' \subseteq Written \cup ToSet(hand[w])
      <4> DEFINE l == First(hand[w], k)
      <4>1. stdout' = stdout \o l /\ content' = content
        BY <3>1 DEF Printed
      <4>2. /\ l \in Seq(Nat) /\ Increasing(l) /\ ToSet(l) \subseteq ToSet(hand[w])
            /\ Before(AllWritten(stdout, content), ToSet(l))
        BY <2>4
      <4> HIDE DEF l
      <4>3. /\ InLine(stdout \o l, content)
            /\ AllWritten(stdout \o l, content) = AllWritten(stdout, content) \cup ToSet(l)
        BY <1>5, <2>3, <4>2, PrintedInLine
      <4>4. Written' = AllWritten(stdout', content)
        BY <4>1 DEF Written, AllWritten
      <4> QED
        BY <1>5, <4>1, <4>2, <4>3, <4>4
    <3>2. CASE Lost(w)
      BY <1>8, <3>2 DEF Lost
    <3>3. ASSUME NEW k \in 0..Len(hand[w]), NEW d \in Day, Filed(w, k, d),
                 \A e \in Day : content[e] # << >> => e <= d
          PROVE /\ InLine(stdout', content')
                /\ Written' \subseteq Written \cup ToSet(hand[w])
      <4>0. PICK l \in Seq(Nat) : l = First(hand[w], k)
        BY <2>4
      <4>1. content' = PutAt(content, d, l) /\ stdout' = stdout
        BY <3>3, <4>0 DEF Filed, PutAt
      <4>2. /\ Increasing(l) /\ ToSet(l) \subseteq ToSet(hand[w])
            /\ Before(AllWritten(stdout, content), ToSet(l))
        BY <2>4, <4>0
      <4>3. /\ InLine(stdout, content')
            /\ AllWritten(stdout, content') = AllWritten(stdout, content) \cup ToSet(l)
        <5>1. /\ content \in [Day -> Seq(Nat)] /\ InLine(stdout, content)
              /\ \A e \in Day : content[e] # << >> => e <= d
          BY <1>5, <2>3, <3>3
        <5> QED
          BY <4>0, <4>1, <4>2, <5>1, FiledInLine
      <4>4. Written' = AllWritten(stdout, content')
        BY <4>1 DEF Written, AllWritten
      <4> QED
        BY <1>5, <4>1, <4>2, <4>3, <4>4
    <3> QED
      BY <1>11, <3>1, <3>2, <3>3, WriteOutCases
  <2>6. Before(ToSet(hand[w]), ToSet(buffer)) /\ Before(Written, ToSet(buffer))
    BY <1>4
  <2>7. Before(Written', ToSet(buffer'))
    BY <2>1, <2>5, <2>6 DEF Before
  <2>8. \A v \in Writer : v # w => hand[v] = << >> \/ hand[w] = << >>
    BY <1>2, <1>4, <1>6
  <2>9. ASSUME NEW v \in Writer
        PROVE /\ Increasing(hand'[v])
              /\ Before(Written', ToSet(hand'[v]))
              /\ Before(ToSet(hand'[v]), ToSet(buffer'))
    <3>1. CASE hand'[v] = << >>
      BY <3>1, NoElement DEF Before
    <3>2. CASE hand'[v] # << >>
      <4>1. v # w /\ hand'[v] = hand[v] /\ hand[w] = << >>
        BY <2>2, <2>8, <3>2
      <4>2. Written' \subseteq Written
        BY <2>5, <4>1, NoElement
      <4> QED
        BY <1>4, <2>1, <4>1, <4>2 DEF Before
    <3> QED
      BY <3>1, <3>2
  <2>10. /\ flushForce' = TRUE \/ mutex' # "free" => buffer' = << >>
         /\ flushForce' = TRUE => hand'[Flusher] = << >> \/ mutex' = Flusher
         /\ mutex' = App => hand'[Flusher] = << >>
    BY <1>2, <1>4, <2>1, <2>2
  <2> QED
    BY <1>4, <2>1, <2>5, <2>7, <2>9, <2>10
<1>12. ASSUME GetBuffer PROVE Goal
  <2>1. /\ hand' = [hand EXCEPT ![Flusher] = buffer] /\ buffer' = << >> /\ mutex = "free"
        /\ UNCHANGED <<accepted, mutex, content, stdout, flushForce>>
    BY <1>12 DEF GetBuffer, output, forceVars
  <2>2. hand'[Flusher] = buffer /\ \A w \in Writer : w # Flusher => hand'[w] = hand[w]
    BY <1>1, <1>2, <2>1
  <2>3. ToSet(buffer') = {} /\ Increasing(buffer')
    BY <2>1, NoElement
  <2>4. Written' = Written /\ InLine(stdout', content')
    BY <1>8, <2>1
  <2>5. mutex' # App /\ mutex' = "free"
    BY <1>2, <2>1
  <2>6. \A w \in Writer : /\ Increasing(hand'[w])
                          /\ Before(Written', ToSet(hand'[w]))
    BY <1>4, <2>2, <2>4
  <2>7. flushForce' = TRUE => hand'[Flusher] = << >>
    BY <1>4, <2>1, <2>2
  <2>8. /\ Before(Written', ToSet(buffer'))
        /\ \A w \in Writer : Before(ToSet(hand'[w]), ToSet(buffer'))
    BY <2>3 DEF Before
  <2>9. buffer' = << >>
    BY <2>1
  <2>10. /\ flushForce' = TRUE \/ mutex' # "free" => buffer' = << >>
         /\ flushForce' = TRUE => hand'[Flusher] = << >> \/ mutex' = Flusher
         /\ mutex' = App => hand'[Flusher] = << >>
    BY <2>5, <2>7, <2>9
  <2>11. \A w \in Writer : /\ Increasing(hand'[w])
                           /\ Before(Written', ToSet(hand'[w]))
                           /\ Before(ToSet(hand'[w]), ToSet(buffer'))
    BY <2>6, <2>8
  <2> QED
    BY <2>3, <2>4, <2>8, <2>10, <2>11
<1>13. ASSUME UNCHANGED <<accepted, buffer, mutex, stage, hand, content, stdout, lost, unwritten>>
       PROVE Goal
  <2>1. Written' = Written /\ InLine(stdout', content')
    BY <1>8, <1>13
  <2>2. flushForce' = flushForce \/ flushForce' = FALSE \/ ForceOn
    BY Steps DEF AppWrites, ReadHandle, WriteOut, Tick, TakeToken, TakeClose, SayClosed,
                 GetBuffer, CloseNothing, CloseHandle, SetNil, Rotate, Open, ForceOff,
                 CloseOutput, Midnight, vars, forceVars
  <2>3. ForceOn => buffer = << >> /\ hand[Flusher] = << >>
    BY DEF ForceOn
  <2>4. buffer' = buffer /\ mutex' = mutex /\ hand' = hand
    BY <1>13
  <2>5. /\ flushForce' = TRUE \/ mutex # "free" => buffer = << >>
        /\ flushForce' = TRUE => hand[Flusher] = << >> \/ mutex = Flusher
    BY <1>4, <2>2, <2>3
  <2>6. /\ flushForce' = TRUE \/ mutex' # "free" => buffer' = << >>
        /\ flushForce' = TRUE => hand'[Flusher] = << >> \/ mutex' = Flusher
        /\ mutex' = App => hand'[Flusher] = << >>
    BY <1>4, <2>4, <2>5
  <2>7. Increasing(buffer') /\ Before(Written', ToSet(buffer'))
    BY <1>4, <2>1, <2>4
  <2>8. \A w \in Writer : /\ Increasing(hand'[w])
                          /\ Before(Written', ToSet(hand'[w]))
                          /\ Before(ToSet(hand'[w]), ToSet(buffer'))
    BY <1>4, <2>1, <2>4
  <2> QED
    BY <2>1, <2>6, <2>7, <2>8
<1>14. ASSUME NEW w \in Writer, ReadHandle(w) PROVE Goal
  <2>1. UNCHANGED <<buffer, mutex, hand, content, stdout, flushForce>>
    BY <1>14 DEF ReadHandle, bufferVars, output, forceVars
  <2> QED
    BY <1>4, <1>8, <2>1
<1> QED
  BY <1>7, <1>10, <1>11, <1>12, <1>13, <1>14, LineSteps

-----------------------------------------------------------------------------
LEMMA InductiveInit == Init => IInv
<1> SUFFICES ASSUME Init PROVE IInv
  OBVIOUS
<1>1. /\ accepted = 0 /\ buffer = << >> /\ stdout = << >>
      /\ lost = {} /\ unwritten = {}
      /\ \A w \in Writer : hand[w] = << >>
      /\ \A d \in Day : content[d] = << >>
  BY DEF Init
<1>2. 0 \in Day
  BY SizeAssumption DEF Day
<1>3. /\ fd \in FdType /\ fileHandle = Len(fd)
      /\ \A h \in DOMAIN fd : h = Len(fd)
      /\ fd # << >> => fd[Len(fd)].day = 0
  <2>1. CASE fd = << >> /\ fileHandle = NoFile
    BY <2>1 DEF FdType, NoFile
  <2>2. CASE fd = <<[day |-> 0, open |-> TRUE]>> /\ fileHandle = 1
    <3>1. [day |-> 0, open |-> TRUE] \in [day : Day, open : BOOLEAN]
      BY <1>2
    <3> QED
      BY <2>2, <3>1 DEF FdType
  <2> QED
    BY <2>1, <2>2 DEF Init
<1>4. TypeOK
  <2>1. Len(fd) \in Nat
    BY <1>3 DEF FdType
  <2>2. fd \in Seq([day : Day, open : BOOLEAN]) /\ fileHandle \in 0..Len(fd)
    BY <1>3, <2>1 DEF FdType
  <2>3. target \in [Writer -> 0..Len(fd)]
    BY <2>1 DEF Init, NoFile
  <2>4. /\ buffer \in Seq(Line) /\ Len(buffer) <= MaxBuffer /\ stdout \in Seq(Line)
        /\ hand \in [Writer -> Seq(Line)] /\ content \in [Day -> Seq(Line)]
        /\ lost \subseteq Line /\ unwritten \subseteq Line
    BY SizeAssumption DEF Init
  <2>5. /\ accepted \in 0..MaxLines + 1 /\ tokens \in 0..ChanSize
        /\ forces \in 0..MaxForces /\ failures \in 0..MaxFailures
    BY SizeAssumption DEF Init
  <2>6. /\ mutex \in Writer \cup {"free"} /\ logMutex \in {"free", Flusher, Rotator}
        /\ closeSent \in BOOLEAN /\ flushForce \in BOOLEAN /\ overtaken \in BOOLEAN
        /\ flPc \in {"off", "select", "flush", "say", "last flush", "close", "stopped"}
        /\ stage \in [Writer -> {"idle", "file", "write"}]
        /\ rotPc \in {"check", "close", "open"}
        /\ rotDay \in Day /\ today \in Day
    BY <1>2 DEF Init
  <2> QED
    BY <2>2, <2>3, <2>4, <2>5, <2>6 DEF TypeOK
<1>5. BoundInv /\ HandInv
  BY <1>1, SizeAssumption DEF BoundInv, HandInv, Init, Writer
<1>6. FileInv
  <2>1. NoFileLeaked
    BY <1>3 DEF NoFileLeaked
  <2> QED
    BY <1>3, <2>1 DEF FileInv, Init
<1>7. ContentInv
  BY <1>1 DEF ContentInv
<1>10. CloseInv
  <2>1. \A h \in DOMAIN fd : fd[h].open
    BY DEF Init
  <2> QED
    BY <2>1, GoroutineAssumption DEF CloseInv, Init, Writer
<1>8. EachLineOnce
  <2>1. \A p \in Place : Kept[p] = << >>
    BY <1>1, PlaceCases, KeptThere
  <2>2. \A p \in Place : ToSet(Kept[p]) = {} /\ IsInjective(Kept[p])
    BY <2>1, NoElement
  <2>3. 1..accepted = {}
    BY <1>1
  <2> QED
    BY <1>1, <2>2, <2>3 DEF EachLineOnce, Gone
<1>9. OrderInv /\ InOrder
  <2>1. Written = {}
    BY <1>1, NoElement DEF Written
  <2> QED
    BY <1>1, <2>1, NoElement DEF OrderInv, InOrder, Before, Init, Writer
<1> QED
  BY <1>4, <1>5, <1>6, <1>7, <1>8, <1>9, <1>10 DEF IInv

(* Every state satisfies it.                                               *)
LEMMA Invariance == Spec => []IInv
<1>1. IInv /\ [Next]_vars => IInv'
  BY TypeStep, BoundStep, HandStep, FileStep, ClosingStep, ContentStep, LineStep,
     OrderStep DEF IInv
<1> QED
  BY <1>1, InductiveInit, PTL DEF Spec

(* The buffer never grows beyond its limit, and what is kept is lines.     *)
THEOREM TypeCorrect == Spec => []TypeOK
<1>1. IInv => TypeOK
  BY DEF IInv
<1> QED
  BY <1>1, Invariance, PTL

(* No accepted line is written twice or forgotten, through direct writes,  *)
(* flushes, rotations, failures to open a file and the end of the program. *)
THEOREM LinesKept == Spec => []EachLineOnce
<1>1. IInv => EachLineOnce
  BY DEF IInv
<1> QED
  BY <1>1, Invariance, PTL

(* As long as no forced flush overtakes waiting lines, lines appear in the *)
(* order they were accepted, within a file and from day to day.            *)
THEOREM LinesInOrder == Spec => []InOrder
<1>1. IInv => InOrder
  BY DEF IInv
<1> QED
  BY <1>1, Invariance, PTL

(* Every file that is open is the one fileHandle names, though autoFlush   *)
(* and the rotation close and open files at the same time.                 *)
THEOREM FilesClosed == Spec => []NoFileLeaked
<1>1. IInv => NoFileLeaked
  BY DEF IInv, FileInv
<1> QED
  BY <1>1, Invariance, PTL

-----------------------------------------------------------------------------
(* What a writer holds can leave the log as a block.                       *)
LEMMA Blocks ==
  ASSUME NEW b \in Seq(Nat), IsInjective(b), b # << >>, ToSet(b) \subseteq Waiting
  PROVE  b \in Promise!Block
<1> DEFINE n == Len(b)
           S == ToSet(b)
<1>1. n \in Nat /\ DOMAIN b = 1..n /\ b \in [1..n -> S] /\ b \in Surjection(1..n, S)
  BY DEF ToSet, Surjection
<1>2. \A i, j \in 1..n : b[i] = b[j] => i = j
  BY <1>1 DEF IsInjective
<1>3. Cardinality(S) = n
  <2>1. b \in Bijection(1..n, S)
    BY <1>1, <1>2 DEF Bijection, Injection
  <2> HIDE DEF n, S
  <2>2. ExistsBijection(1..n, S)
    BY <2>1 DEF ExistsBijection
  <2> QED
    BY <1>1, <2>2, FS_CountingElements
<1>4. Promise!Cardinality(S) = Cardinality(S)
  BY DEF Promise!Cardinality, Cardinality
<1>5. b \in Promise!SetToSeqs(S)
  BY <1>1, <1>2, <1>3, <1>4 DEF Promise!SetToSeqs
<1>6. b \in Promise!SetToAllKPermutations(Waiting)
  BY <1>5 DEF Promise!SetToAllKPermutations
<1> QED
  BY <1>6 DEF Promise!Block

(* The lines that wait, in the buffer and in the writers' hands.           *)
LEMMA WaitingSets ==
  /\ ToSet(buffer) \subseteq Waiting
  /\ \A w \in Writer : ToSet(hand[w]) \subseteq Waiting
  /\ \A m \in Waiting : m \in ToSet(buffer) \/ \E w \in Writer : m \in ToSet(hand[w])
BY DEF Waiting

LEMMA HandTypes ==
  ASSUME IInv
  PROVE /\ hand \in [Writer -> Seq(Nat)] /\ hand \in [Writer -> Seq(Line)]
        /\ buffer \in Seq(Nat) /\ content \in [Day -> Seq(Line)]
        /\ stdout \in Seq(Line) /\ today \in Nat /\ accepted \in Nat
<1>1. /\ hand \in [Writer -> Seq(Line)] /\ content \in [Day -> Seq(Line)]
      /\ stdout \in Seq(Line) /\ buffer \in Seq(Line)
      /\ accepted \in 0..MaxLines + 1 /\ today \in Day
  BY DEF IInv, TypeOK
<1> QED
  BY <1>1, LinesAreNumbers DEF Day

(* While a writer has lines in its hand, the other one has none, unless    *)
(* lines were overtaken.                                                   *)
LEMMA OneHand ==
  ASSUME IInv, ~overtaken, NEW w \in Writer, hand[w] # << >>
  PROVE  Waiting = ToSet(buffer) \cup ToSet(hand[w])
<1>1. /\ mutex = App => hand[Flusher] = << >>
      /\ hand[App] # << >> => mutex = App
  BY DEF IInv, HandInv, OrderInv
<1>2. \A v \in Writer : v # w => hand[v] = << >>
  BY <1>1 DEF Writer
<1>3. \A v \in Writer : v # w => ToSet(hand[v]) = {}
  BY <1>2, NoElement
<1> QED
  BY <1>3 DEF Waiting

(* So these are the oldest that wait, and increasing.                      *)
LEMMA HandInTurn ==
  ASSUME IInv, ~overtaken, NEW w \in Writer, hand[w] # << >>
  PROVE  Promise!InTurn(hand[w])
<1> DEFINE b == hand[w]
<1>1. /\ b \in Seq(Nat) /\ Increasing(b) /\ Before(ToSet(b), ToSet(buffer))
      /\ buffer \in Seq(Nat) /\ Waiting = ToSet(buffer) \cup ToSet(b)
  BY HandTypes, OneHand DEF IInv, OrderInv
<1> HIDE DEF b
<1>2. ASSUME NEW i \in DOMAIN b, NEW m \in Waiting \ {b[j] : j \in 1..i - 1}
      PROVE  b[i] <= m
  <2>1. b[i] \in ToSet(b) /\ b[i] \in Nat /\ i \in Nat
    BY <1>1 DEF ToSet
  <2>2. CASE m \in ToSet(buffer)
    <3>1. m \in Nat
      BY <1>1, <2>2 DEF ToSet
    <3> QED
      BY <1>1, <2>1, <2>2, <3>1 DEF Before
  <2>3. CASE m \in ToSet(b)
    <3>1. PICK k \in DOMAIN b : m = b[k]
      BY <2>3 DEF ToSet
    <3>2. k \in Nat /\ k >= 1 /\ m \in Nat
      BY <1>1, <3>1
    <3>3. k \notin 1..i - 1
      BY <1>2, <3>1
    <3>4. k = i \/ i < k
      BY <2>1, <3>2, <3>3
    <3> QED
      BY <1>1, <2>1, <3>1, <3>2, <3>4 DEF Increasing
  <2> QED
    BY <1>1, <1>2, <2>2, <2>3
<1> QED
  BY <1>2 DEF Promise!InTurn, b

LEMMA HandsApart ==
  ASSUME IInv, NEW w \in Writer
  PROVE  /\ IsInjective(hand[w])
         /\ ToSet(hand[w]) \cap ToSet(buffer) = {}
         /\ \A v \in Writer : v # w => ToSet(hand[w]) \cap ToSet(hand[v]) = {}
<1>1. /\ \A p \in Place : IsInjective(Kept[p])
      /\ \A p, q \in Place : p # q => ToSet(Kept[p]) \cap ToSet(Kept[q]) = {}
  BY DEF IInv, EachLineOnce
<1>2. IsInjective(Kept[Hand(w)]) /\ Kept[Hand(w)] = hand[w]
  BY <1>1, Places, KeptThere
<1>3. ToSet(Kept[Hand(w)]) \cap ToSet(Kept[Buffer]) = {}
  BY <1>1, Places, PlacesDiffer
<1>4. ASSUME NEW v \in Writer, v # w PROVE ToSet(hand[w]) \cap ToSet(hand[v]) = {}
  <2>1. ToSet(Kept[Hand(w)]) \cap ToSet(Kept[Hand(v)]) = {}
    BY <1>1, <1>4, Places, PlacesDiffer
  <2> QED
    BY <2>1, KeptThere
<1> QED
  BY <1>2, <1>3, <1>4, KeptThere

(* The lines written out leave those that wait.                            *)
LEMMA HandTaken ==
  ASSUME IInv, NEW w \in Writer, WriteOut(w), hand[w] # << >>
  PROVE  hand[w] \in Promise!Block /\ Promise!Take(hand[w])
<1>1. /\ hand' = [hand EXCEPT ![w] = << >>]
      /\ UNCHANGED <<accepted, buffer, overtaken, today, closeSent>>
  BY DEF WriteOut, forceVars
<1>2. hand'[w] = << >> /\ \A v \in Writer : v # w => hand'[v] = hand[v]
  BY <1>1, HandTypes
<1>3. ToSet(hand'[w]) = {}
  BY <1>2, NoElement
<1>4. Waiting' = Waiting \ ToSet(hand[w])
  <2>1. Waiting' = ToSet(buffer) \cup UNION {ToSet(hand'[v]) : v \in Writer}
    BY <1>1 DEF Waiting
  <2> QED
    BY <1>2, <1>3, <2>1, HandsApart DEF Waiting
<1>5. hand[w] \in Promise!Block
  BY HandTypes, HandsApart, WaitingSets, Blocks
<1>6. Promise!ToSet(hand[w]) = ToSet(hand[w])
  BY DEF Promise!ToSet, ToSet
<1>7. ~overtaken => Promise!InTurn(hand[w])
  BY HandInTurn
<1> QED
  BY <1>1, <1>4, <1>5, <1>6, <1>7 DEF Promise!Take

(* Those the write does not leave out appear on stdout or in a file, or    *)
(* the block is lost to a closed file.                                     *)
LEMMA WriteOutPromised ==
  ASSUME IInv, NEW w \in Writer, WriteOut(w)
  PROVE  [Promise!Next]_(Promise!vars)
<1> DEFINE b == hand[w]
<1>1. b \in Seq(Line) /\ content \in [Day -> Seq(Line)] /\ stdout \in Seq(Line)
  BY HandTypes
<1>2. /\ hand' = [hand EXCEPT ![w] = << >>]
      /\ UNCHANGED <<accepted, buffer, fd, overtaken, today, closeSent>>
  BY DEF WriteOut, fileVars, forceVars
<1>3. CASE b = << >>
  <2>1. hand' = hand
    BY <1>2, <1>3, HandTypes
  <2>2. Waiting' = Waiting
    BY <1>2, <2>1 DEF Waiting
  <2>3. /\ ToSet(b) = {} /\ Len(b) = 0
        /\ stdout \o << >> = stdout /\ \A d \in Day : content[d] \o << >> = content[d]
    BY <1>1, <1>3, NoElement
  <2>4. ASSUME NEW k \in 0..Len(b) PROVE First(b, k) = << >> /\ Others(b, k) = {}
    <3>1. k = 0
      BY <2>3
    <3> QED
      BY <1>3, <2>3, <3>1, SubSeqEmpty DEF First, Others
  <2>5. UNCHANGED <<content, stdout, lost, unwritten>>
    <3>1. ASSUME NEW k \in 0..Len(b), NEW d \in Day, Filed(w, k, d)
          PROVE  UNCHANGED <<content, stdout, lost, unwritten>>
      BY <1>1, <2>3, <2>4, <3>1 DEF Filed
    <3>2. ASSUME NEW k \in 0..Len(b), Printed(w, k)
          PROVE  UNCHANGED <<content, stdout, lost, unwritten>>
      BY <2>3, <2>4, <3>2 DEF Printed
    <3> QED
      BY <2>3, <3>1, <3>2, WriteOutCases DEF Lost
  <2> QED
    BY <1>2, <2>2, <2>5 DEF Promise!vars
<1>4. CASE b # << >>
  <2>1. b \in Promise!Block /\ Promise!Take(b)
    BY <1>4, HandTaken
  <2>2. Promise!ToSet(b) = ToSet(b)
    BY DEF Promise!ToSet, ToSet
  <2>3. ASSUME NEW k \in 0..Len(b), Printed(w, k) PROVE Promise!Next
    <3>1. Promise!Show(b, k)
      BY <2>1, <2>3 DEF Promise!Show, Promise!First, Promise!LeaveOut, Printed, First, Others
    <3> QED
      BY <2>1, <3>1 DEF Promise!Next
  <2>4. CASE Lost(w) /\ \E h \in DOMAIN fd : ~fd[h].open
    <3>1. today > 0 \/ closeSent
      BY <2>4 DEF IInv, CloseInv
    <3>2. Promise!Lose(b)
      BY <2>1, <2>2, <2>4, <3>1 DEF Promise!Lose, Lost
    <3> QED
      BY <2>1, <3>2 DEF Promise!Next
  <2>5. ASSUME NEW k \in 0..Len(b), NEW d \in Day, Filed(w, k, d),
               fd # << >>, d = fd[Len(fd)].day,
               \A e \in Day : content[e] # << >> => e <= d
        PROVE  Promise!Next
    <3>1. d <= today
      <4>1. fd[Len(fd)].day <= rotDay /\ rotDay <= today
        BY <2>5 DEF IInv, FileInv
      <4>2. rotDay \in Day /\ today \in Day
        BY DEF IInv, TypeOK
      <4> QED
        BY <2>5, <4>1, <4>2 DEF Day
    <3>2. \A e \in Day : e > d => content[e] = << >>
      BY <2>5 DEF Day
    <3>3. Promise!Write(b, k, d)
      BY <2>1, <2>5, <3>1, <3>2
         DEF Promise!Write, Promise!First, Promise!LeaveOut, Filed, First, Others
    <3> QED
      BY <2>1, <3>3 DEF Promise!Next
  <2> QED
    BY <2>3, <2>4, <2>5, WriteOutCases
<1> QED
  BY <1>3, <1>4

(* A Write that accepts a line, to the file or to the buffer.              *)
LEMMA AcceptPromised ==
  ASSUME IInv, NEW w \in Writer, Write(w), accepted <= MaxLines,
         UNCHANGED <<content, stdout, lost, unwritten, overtaken, today, closeSent>>
  PROVE  Promise!Accept
<1>1. accepted + 1 \in Line
  BY HandTypes, SizeAssumption DEF Line
<1>2. accepted' = accepted + 1
  BY DEF Write
<1>3. Waiting' = Waiting \cup {accepted + 1}
  <2>1. CASE Direct(w)
    <3>1. hand[w] = << >>
      BY <2>1 DEF Direct, IInv, HandInv
    <3>2. /\ buffer' = buffer /\ hand'[w] = <<accepted + 1>>
          /\ \A v \in Writer : v # w => hand'[v] = hand[v]
      BY <2>1, HandTypes DEF Direct
    <3>3. ToSet(hand[w]) = {} /\ ToSet(hand'[w]) = {accepted + 1}
      BY <3>1, <3>2, NoElement, OneElement
    <3>4. Waiting' = ToSet(buffer) \cup UNION {ToSet(hand'[v]) : v \in Writer}
      BY <3>2 DEF Waiting
    <3> QED
      BY <3>2, <3>3, <3>4 DEF Waiting
  <2>2. CASE Buffered
    <3>1. buffer' = buffer \o <<accepted + 1>> /\ hand' = hand
      BY <2>2, HandTypes DEF Buffered
    <3>2. /\ buffer \in Seq(Nat) /\ <<accepted + 1>> \in Seq(Nat)
          /\ ToSet(<<accepted + 1>>) = {accepted + 1}
      BY HandTypes, OneElement
    <3>3. ToSet(buffer \o <<accepted + 1>>) = ToSet(buffer) \cup ToSet(<<accepted + 1>>)
      <4>1. \A t \in Seq(Nat) : ToSet(buffer \o t) = ToSet(buffer) \cup ToSet(t)
        BY <3>2, ConcatSet
      <4> QED
        BY <3>2, <4>1, Zenon
    <3> QED
      BY <3>1, <3>2, <3>3 DEF Waiting
  <2> QED
    BY <2>1, <2>2, WriteCases DEF IInv
<1> QED
  BY <1>1, <1>2, <1>3 DEF Promise!Accept

(* The writer implements module LineLog: each step of a goroutine puts     *)
(* lines out in turn and at most once, or concerns none; a failed write    *)
(* leaves out the end of its block; no block is lost to a closed file      *)
(* before the first midnight unless CloseOutput was called.                *)
THEOREM KeepsPromise == Spec => PromiseKept
<1>1. Init => Promise!Init
  <2> SUFFICES ASSUME Init PROVE Promise!Init
    OBVIOUS
  <2>1. /\ buffer = << >> /\ \A w \in Writer : hand[w] = << >>
    BY DEF Init
  <2>2. Waiting = {}
    BY <2>1, NoElement DEF Waiting
  <2> QED
    BY <2>2 DEF Init, Promise!Init
<1>2. IInv /\ [Next]_vars => [Promise!Next]_(Promise!vars)
  <2> SUFFICES ASSUME IInv, [Next]_vars PROVE [Promise!Next]_(Promise!vars)
    OBVIOUS
  <2>1. CASE AppWrites
    <3>1. /\ Write(App) /\ App \in Writer /\ accepted <= MaxLines
          /\ UNCHANGED <<content, stdout, lost, unwritten, overtaken, today, closeSent>>
      BY <2>1, HandTypes, SizeAssumption DEF AppWrites, Writer, output, forceVars
    <3> QED
      BY <3>1, AcceptPromised DEF Promise!Next
  <2>2. CASE SayClosed
    <3>1. UNCHANGED <<content, stdout, lost, unwritten, overtaken, today, closeSent>>
      BY <2>2 DEF SayClosed, output, forceVars
    <3>2. CASE Write(Flusher)
      <4>1. accepted <= MaxLines /\ Flusher \in Writer
        BY <2>2 DEF SayClosed, IInv, BoundInv, Writer
      <4> QED
        BY <3>1, <3>2, <4>1, AcceptPromised DEF Promise!Next
    <3>3. CASE UNCHANGED <<bufferVars, writeVars>>
      BY <3>1, <3>3 DEF bufferVars, writeVars, Promise!vars, Waiting
    <3> QED
      BY <2>2, <3>2, <3>3 DEF SayClosed
  <2>3. ASSUME NEW w \in Writer, ReadHandle(w) PROVE UNCHANGED Promise!vars
    BY <2>3 DEF ReadHandle, bufferVars, output, forceVars, Promise!vars, Waiting
  <2>4. ASSUME NEW w \in Writer, WriteOut(w) PROVE [Promise!Next]_(Promise!vars)
    BY <2>4, WriteOutPromised
  <2>5. CASE Tick \/ TakeToken \/ TakeClose
    BY <2>5 DEF Tick, TakeToken, TakeClose, bufferVars, writeVars, output, forceVars,
                Promise!vars, Waiting
  <2>6. CASE GetBuffer
    <3>1. /\ hand' = [hand EXCEPT ![Flusher] = buffer] /\ buffer' = << >>
          /\ stage[Flusher] = "idle"
          /\ UNCHANGED <<accepted, content, stdout, lost, unwritten, overtaken, today, closeSent>>
      BY <2>6 DEF GetBuffer, output, forceVars
    <3>2. Flusher \in Writer /\ hand[Flusher] = << >>
      BY <3>1 DEF IInv, HandInv, Writer
    <3>3. /\ hand'[Flusher] = buffer
          /\ \A v \in Writer : v # Flusher => hand'[v] = hand[v]
      BY <3>1, <3>2, HandTypes
    <3>4. ToSet(hand[Flusher]) = {} /\ ToSet(buffer') = {}
      BY <3>1, <3>2, NoElement
    <3>5. Waiting' = ToSet(buffer') \cup UNION {ToSet(hand'[v]) : v \in Writer}
      BY DEF Waiting
    <3>6. Waiting' = Waiting
      BY <3>2, <3>3, <3>4, <3>5 DEF Waiting
    <3> QED
      BY <3>1, <3>6 DEF Promise!vars
  <2>7. ASSUME NEW g \in {Flusher, Rotator}, CloseNothing(g) \/ CloseHandle(g) \/ SetNil(g)
        PROVE  UNCHANGED Promise!vars
    BY <2>7 DEF CloseNothing, CloseHandle, SetNil, bufferVars, writeVars, output, forceVars,
                Promise!vars, Waiting
  <2>8. CASE Rotate \/ Open \/ ForceOff
    BY <2>8 DEF Rotate, Open, ForceOff, bufferVars, writeVars, output, forceVars,
                Promise!vars, Waiting
  <2>9. CASE ForceOn
    <3>1. /\ overtaken' = (overtaken \/ buffer # << >> \/ hand[Flusher] # << >>)
          /\ UNCHANGED <<accepted, buffer, hand, content, stdout, lost, unwritten, today, closeSent>>
      BY <2>9 DEF ForceOn, bufferVars, writeVars, output
    <3>2. Waiting' = Waiting
      BY <3>1 DEF Waiting
    <3>3. overtaken \in BOOLEAN
      BY DEF IInv, TypeOK
    <3>4. CASE buffer = << >> /\ hand[Flusher] = << >>
      <4>1. overtaken' = overtaken
        BY <3>1, <3>3, <3>4
      <4> QED
        BY <3>1, <3>2, <4>1 DEF Promise!vars
    <3>5. CASE buffer # << >> \/ hand[Flusher] # << >>
      <4>1. overtaken' = TRUE
        BY <3>1, <3>5
      <4>2. Flusher \in Writer /\ buffer \in Seq(Nat) /\ hand[Flusher] \in Seq(Nat)
        BY HandTypes DEF Writer
      <4>3. ToSet(buffer) # {} \/ ToSet(hand[Flusher]) # {}
        <5>1. \A s \in Seq(Nat) : s # << >> => s[1] \in ToSet(s)
          BY DEF ToSet
        <5> QED
          BY <3>5, <4>2, <5>1
      <4>4. Waiting # {}
        BY <4>2, <4>3, WaitingSets
      <4> QED
        BY <3>1, <3>2, <4>1, <4>4 DEF Promise!Overtake, Promise!Next
    <3> QED
      BY <3>4, <3>5
  <2>10. CASE CloseOutput
    BY <2>10 DEF CloseOutput, bufferVars, writeVars, output, forceVars, Waiting,
                 Promise!Close, Promise!Next
  <2>11. CASE Midnight
    <3>1. today' = today + 1 /\ today + 1 \in Day
      <4>1. today < MaxDay /\ today' = today + 1
        BY <2>11 DEF Midnight
      <4> QED
        BY <4>1, HandTypes, SizeAssumption DEF Day
    <3>2. UNCHANGED <<accepted, Waiting, content, stdout, lost, unwritten, overtaken, closeSent>>
      BY <2>11 DEF Midnight, bufferVars, writeVars, output, forceVars, Waiting
    <3> QED
      BY <3>1, <3>2 DEF Promise!Midnight, Promise!Next
  <2>12. CASE UNCHANGED vars
    BY <2>12 DEF vars, bufferVars, writeVars, output, forceVars, Waiting, Promise!vars
  <2> QED
    BY <2>1, <2>2, <2>3, <2>4, <2>5, <2>6, <2>7, <2>8, <2>9, <2>10, <2>11, <2>12, Steps
<1> QED
  BY <1>1, <1>2, Invariance, PTL DEF Spec, PromiseKept, Promise!Spec
=============================================================================
