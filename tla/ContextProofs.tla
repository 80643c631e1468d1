--------------------------- MODULE ContextProofs ---------------------------
(***************************************************************************)
(* The types of Context, that its caches are current, and that a user's    *)
(* turn survives, for any files, texts, costs and limits.                  *)
(***************************************************************************)
EXTENDS Context, OrderProofs

-----------------------------------------------------------------------------
(* The cache of files.                                                     *)

\* Touching f makes it the last of an order that otherwise stays.
LEMMA TouchedLists ==
    ASSUME NEW D, NEW s, Lists(s, D), NEW f
    PROVE  Lists(Touched(s, f), D \cup {f})
<1>1. s \in Seq(D) /\ Len(s) \in Nat
  BY DEF Lists
<1>2. Lists(<<f>>, {f})
  <2>1. <<f>> \in Seq({f}) /\ Len(<<f>>) = 1 /\ <<f>>[1] = f
    OBVIOUS
  <2> QED  BY <2>1 DEF Lists
<1>3. ASSUME NEW r, NEW E, Lists(r, E), f \notin E PROVE Lists(Append(r, f), E \cup {f})
  <2>1. r \in Seq(E \cup {f}) /\ <<f>> \in Seq(E \cup {f})
    BY <1>3 DEF Lists
  <2>2. Append(r, f) = r \o <<f>>
    BY <2>1
  <2>3. Lists(r \o <<f>>, E \cup {f})
    BY <1>2, <1>3, ConcatLists
  <2> QED  BY <2>2, <2>3
<1>4. CASE f \notin D
  <2>1. ~ \E i \in 1 .. Len(s) : s[i] = f
    BY <1>1, <1>4
  <2>2. RemoveFirst(s, f) = s
    BY <2>1 DEF RemoveFirst
  <2> QED  BY <1>3, <1>4, <2>2 DEF Touched
<1>5. CASE f \in D
  <2> DEFINE I == {i \in 1 .. Len(s) : s[i] = f}
             m == Min(I)
             a == SubSeq(s, 1, m - 1)
             b == SubSeq(s, m + 1, Len(s))
             A == {s[i] : i \in 1 .. m - 1}
             B == {s[i] : i \in m + 1 .. Len(s)}
  <2>1. I # {} /\ I \in SUBSET Nat
    BY <1>5 DEF Lists
  <2>2. m \in 1 .. Len(s) /\ s[m] = f
    BY <2>1, MinOf
  <2>3. RemoveFirst(s, f) = a \o b
    <3>1. \E i \in 1 .. Len(s) : s[i] = f
      BY <2>2
    <3>2. SelectInSeq(s, LAMBDA v : v = f) = m
      BY <2>1 DEF SelectInSeq
    <3>3. RemoveFirst(s, f) = RemoveAt(s, SelectInSeq(s, LAMBDA v : v = f))
      BY <3>1 DEF RemoveFirst
    <3>4. RemoveFirst(s, f) = RemoveAt(s, m)
      BY <3>2, <3>3, Zenon
    <3> QED  BY <3>4 DEF RemoveAt
  <2> HIDE DEF I, m
  <2>4. Lists(a, A)
    <3>1. CASE m = 1
      <4>1. a = <<>> /\ A = {}
        BY <1>1, <3>1
      <4>2. Lists(<<>>, {})
        BY DEF Lists
      <4> QED  BY <4>1, <4>2
    <3>2. CASE m # 1
      <4>1. m - 1 \in Nat /\ 1 <= 1 /\ m - 1 <= Len(s) /\ 1 \in Nat
        BY <1>1, <2>2
      <4>2. Lists(a, ToSet(a)) /\ ToSet(a) = {s[i] : i \in 1 .. m - 1}
        BY <4>1, PartLists
      <4> QED  BY <4>2
    <3> QED  BY <3>1, <3>2
  <2>5. Lists(b, B)
    <3>1. m + 1 \in Nat /\ 1 <= m + 1 /\ Len(s) <= Len(s)
      BY <1>1, <2>2
    <3>2. Lists(b, ToSet(b)) /\ ToSet(b) = {s[i] : i \in m + 1 .. Len(s)}
      BY <1>1, <3>1, PartLists
    <3> QED  BY <3>2
  <2>6. \A i, j \in 1 .. Len(s) : s[i] = s[j] => i = j
    BY DEF Lists
  <2>7. A \cap B = {}
    BY <1>1, <2>2, <2>6
  <2>8. Lists(a \o b, A \cup B)
    BY <2>4, <2>5, <2>7, ConcatLists
  <2>9. f \notin A \cup B
    BY <1>1, <2>2, <2>6
  <2>10. A \cup B \cup {f} = D
    <3>1. A \cup B \cup {f} \subseteq D
      BY <1>1, <1>5, <2>2
    <3>2. ASSUME NEW g \in D PROVE g \in A \cup B \cup {f}
      <4>1. PICK i \in 1 .. Len(s) : s[i] = g
        BY DEF Lists
      <4>2. i \in 1 .. m - 1 \/ i \in m + 1 .. Len(s) \/ i = m
        BY <1>1, <2>2
      <4> QED  BY <2>2, <4>1, <4>2
    <3> QED  BY <3>1, <3>2
  <2>11. D \cup {f} = D
    BY <1>5
  <2> HIDE DEF A, B, a, b
  <2>12. Lists(Append(a \o b, f), A \cup B \cup {f})
    BY <1>3, <2>8, <2>9
  <2> QED  BY <2>3, <2>10, <2>11, <2>12 DEF Touched
<1> QED  BY <1>4, <1>5

\* What an eviction leaves holds both limits: the oldest go one by one, and with
\* none left there is nothing to count.
LEMMA EvictedLists ==
    ASSUME NEW F, NEW s, Lists(s, DOMAIN F)
    PROVE  LET t == Evicted(F, s)
           IN  /\ Lists(t, ToSet(t)) /\ ToSet(t) \subseteq DOMAIN F
               /\ Len(t) <= MaxFiles /\ Tokens(Restrict(F, ToSet(t))) <= MaxTokens
<1> DEFINE kept(k) == Restrict(F, ToSet(SubSeq(s, k + 1, Len(s))))
           fits(k) == Cardinality(DOMAIN kept(k)) <= MaxFiles /\ Tokens(kept(k)) <= MaxTokens
           K == {k \in 0 .. Len(s) : fits(k)}
           m == Min(K)
           t == SubSeq(s, m + 1, Len(s))
<1>1. s \in Seq(DOMAIN F) /\ Len(s) \in Nat
  BY DEF Lists
<1>2. MaxFiles \in Nat /\ MaxTokens \in Nat
  BY ContextAssumption
<1>3. fits(Len(s))
  <2>1. SubSeq(s, Len(s) + 1, Len(s)) = <<>>
    BY <1>1
  <2>2. ToSet(<<>>) = {}
    BY DEF ToSet
  <2>3. kept(Len(s)) = [x \in {} |-> F[x]]
    BY <2>1, <2>2 DEF Restrict
  <2>4. DOMAIN kept(Len(s)) = {}
    BY <2>3
  <2>5. Tokens(kept(Len(s))) = 0
    <3> HIDE DEF kept
    <3> QED  BY <2>4 DEF Tokens, MapThenSumSet, MapThenFoldSet
  <2> HIDE DEF kept
  <2> QED  BY <1>2, <2>4, <2>5, FS_EmptySet
<1> HIDE DEF fits
<1>4. K \in SUBSET Nat /\ K # {}
  BY <1>1, <1>3
<1>5. m \in 0 .. Len(s) /\ fits(m)
  BY <1>4, MinOf
<1>6. Evicted(F, s) = t
  <2>1. 1 + m = m + 1
    BY <1>1, <1>5
  <2>2. Evicted(F, s) = SubSeq(s, 1 + m, Len(s))
    BY DEF Evicted, fits, kept
  <2> QED  BY <2>1, <2>2
<1> HIDE DEF m, K
<1>7. Lists(t, ToSet(t)) /\ ToSet(t) = {s[i] : i \in m + 1 .. Len(s)}
  <2>1. m + 1 \in Nat /\ 1 <= m + 1 /\ Len(s) <= Len(s)
    BY <1>1, <1>5
  <2> QED  BY <1>1, <2>1, PartLists
<1>8. ToSet(t) \subseteq DOMAIN F
  BY <1>1, <1>5, <1>7
<1>9. kept(m) = Restrict(F, ToSet(t)) /\ DOMAIN kept(m) = ToSet(t)
  BY DEF Restrict
<1>10. Cardinality(ToSet(t)) <= MaxFiles /\ Tokens(Restrict(F, ToSet(t))) <= MaxTokens
  BY <1>5, <1>9 DEF fits
<1>11. Cardinality(ToSet(t)) = Len(t)
  BY <1>7, ListsLength
<1> QED  BY <1>6, <1>7, <1>8, <1>10, <1>11

\* The two tables of the cache agree and hold both limits.
CacheInv ==
    /\ Lists(order, DOMAIN files)
    /\ DOMAIN files \subseteq Files /\ \A g \in DOMAIN files : files[g] \in Texts
    /\ Len(order) <= MaxFiles /\ Tokens(files) <= MaxTokens
    /\ behind \subseteq DOMAIN files

\* What the cache does not know to be behind is what D says.
Current(D) == \A g \in DOMAIN files \ behind : files[g] = D[g]

\* A cache that takes in f stays a cache, and if all but f was current and f is, or
\* is marked as behind, it stays current.
LEMMA TakeInKeeps ==
    ASSUME CacheInv, NEW s, Lists(s, DOMAIN files), NEW f \in Files, NEW text \in Texts,
           NEW stale \in SUBSET {f}, TakeIn(s, f, text, stale), NEW D,
           \A g \in DOMAIN files \ behind : g # f => files[g] = D[g],
           f \in stale \/ D[f] = text
    PROVE  CacheInv' /\ \A g \in DOMAIN files' \ behind' : files'[g] = D[g]
<1> DEFINE all == [g \in DOMAIN files \cup {f} |-> IF g = f THEN text ELSE files[g]]
           kept == Evicted(all, Touched(s, f))
<1>1. /\ order' = kept
      /\ files' = Restrict(all, ToSet(kept))
      /\ behind' = ((behind \ {f}) \cup stale) \cap ToSet(kept)
  BY DEF TakeIn
<1>2. DOMAIN all = DOMAIN files \cup {f}
  OBVIOUS
<1>3. Lists(Touched(s, f), DOMAIN all)
  BY <1>2, TouchedLists
<1>4. /\ \A g \in DOMAIN all : all[g] = IF g = f THEN text ELSE files[g]
      /\ \A g \in DOMAIN all : all[g] \in Texts
  BY DEF CacheInv
<1> HIDE DEF all
<1>5. /\ Lists(kept, ToSet(kept)) /\ ToSet(kept) \subseteq DOMAIN all
      /\ Len(kept) <= MaxFiles /\ Tokens(Restrict(all, ToSet(kept))) <= MaxTokens
  BY <1>3, EvictedLists
<1> HIDE DEF kept
<1>6. DOMAIN files' = ToSet(kept) /\ \A g \in ToSet(kept) : files'[g] = all[g]
  BY <1>1 DEF Restrict
<1>7. ToSet(kept) \subseteq Files
  BY <1>2, <1>5 DEF CacheInv
<1>8. CacheInv'
  <2>1. Lists(order, DOMAIN files)'
    BY <1>1, <1>5, <1>6
  <2>2. (DOMAIN files \subseteq Files /\ \A g \in DOMAIN files : files[g] \in Texts)'
    BY <1>4, <1>5, <1>6, <1>7
  <2>3. (Len(order) <= MaxFiles /\ Tokens(files) <= MaxTokens)'
    BY <1>1, <1>5
  <2>4. (behind \subseteq DOMAIN files)'
    BY <1>1, <1>6
  <2> QED  BY <2>1, <2>2, <2>3, <2>4 DEF CacheInv
<1>9. ASSUME NEW g \in DOMAIN files' \ behind' PROVE files'[g] = D[g]
  <2>1. g \in ToSet(kept) /\ g \in DOMAIN all /\ files'[g] = all[g]
    BY <1>5, <1>6, <1>9
  <2>2. g \notin stale /\ (g # f => g \in DOMAIN files \ behind)
    BY <1>1, <1>2, <1>9, <2>1
  <2>3. CASE g = f
    BY <1>4, <2>1, <2>2, <2>3
  <2>4. CASE g # f
    BY <1>4, <2>1, <2>2, <2>4
  <2> QED  BY <2>3, <2>4
<1> QED  BY <1>8, <1>9

\* What get leaves in the cache is a cache that is current.
LEMMA GetKeeps ==
    ASSUME CacheInv, Current(disk), NEW s, Lists(s, DOMAIN files), NEW f \in Files,
           disk \in [Files -> Texts \cup {Absent}], Get(s, f)
    PROVE  CacheInv' /\ \A g \in DOMAIN files' \ behind' : files'[g] = disk[g]
<1>1. CASE disk[f] # Absent /\ f \notin DOMAIN files
  <2>1. TakeIn(s, f, disk[f], {}) /\ disk[f] \in Texts
    BY <1>1 DEF Get
  <2>2. \A g \in DOMAIN files \ behind : files[g] = disk[g]
    BY DEF Current
  <2> QED  BY <2>1, <2>2, TakeInKeeps
<1>2. CASE ~ (disk[f] # Absent /\ f \notin DOMAIN files)
  <2>1. UNCHANGED <<files, behind>> /\ order' = IF disk[f] # Absent THEN Touched(s, f) ELSE s
    BY <1>2 DEF Get
  <2>2. f \in DOMAIN files => DOMAIN files \cup {f} = DOMAIN files
    OBVIOUS
  <2>3. disk[f] # Absent => Lists(Touched(s, f), DOMAIN files)
    BY <1>2, <2>2, TouchedLists
  <2>4. Lists(order', DOMAIN files)
    BY <2>1, <2>3
  <2>5. Len(order') = Len(order)
    BY <2>4, ListsLength DEF CacheInv
  <2>6. CacheInv'
    BY <2>1, <2>4, <2>5 DEF CacheInv
  <2> QED  BY <2>1, <2>6 DEF Current
<1> QED  BY <1>1, <1>2

-----------------------------------------------------------------------------
(* The conversation.                                                       *)

\* s is a conversation that begins as r does.
Begins(s, r) == s \in Seq(Message) /\ s # <<>> /\ s[1] = r[1]

\* Whatever goes, the first message stays.
LEMMA WithoutKeeps ==
    ASSUME NEW s \in Seq(Message), s # <<>>, NEW k \in Nat
    PROVE  Begins(Without(s, k), s)
<1>1. Len(s) \in Nat \ {0} /\ Head(s) = s[1] /\ Head(s) \in Message
  OBVIOUS
<1>2. SubSeq(s, k + 2, Len(s)) \in Seq(Message)
  <2>1. \A i \in k + 2 .. Len(s) : s[i] \in Message
    OBVIOUS
  <2> QED  BY <1>1, <2>1
<1>3. <<Head(s)>> \in Seq(Message) /\ Len(<<Head(s)>>) = 1 /\ <<Head(s)>>[1] = Head(s)
  BY <1>1
<1>4. Without(s, k) \in Seq(Message)
  BY <1>2, <1>3 DEF Without
<1>5. Len(Without(s, k)) = 1 + Len(SubSeq(s, k + 2, Len(s))) /\ Without(s, k)[1] = s[1]
  BY <1>1, <1>2, <1>3 DEF Without
<1>6. Without(s, k) # <<>>
  BY <1>2, <1>5
<1> QED  BY <1>4, <1>5, <1>6 DEF Begins

\* The least of some numbers of messages that can go is one of them.
LEMMA FewestOf ==
    ASSUME NEW s \in Seq(Message), s # <<>>, NEW K \in SUBSET (0 .. Len(s) - 1), Len(s) - 1 \in K
    PROVE  Min(K) \in Nat
<1>1. K \in SUBSET Nat /\ K # {}
  OBVIOUS
<1> QED  BY <1>1, MinOf

\* A trim of a conversation keeps its beginning.
LEMMA TrimmedKeeps ==
    ASSUME NEW s \in Seq(Message), s # <<>>
    PROVE  Begins(Trimmed(s), s)
<1>0. Len(s) \in Nat \ {0} /\ DOMAIN s = 1 .. Len(s)
  OBVIOUS
<1>1. CASE Summarised(s)
  <2> DEFINE T == {0} \cup (DOMAIN s \ Users(s))
  <2>1. T \in SUBSET (0 .. Len(s)) /\ T # {}
    BY <1>0
  <2>2. LastOther(s) \in 0 .. Len(s)
    <3> HIDE DEF T
    <3>1. Max(T) \in T
      BY <1>0, <2>1, MaxIn
    <3> QED  BY <2>1, <3>1 DEF LastOther, T
  <2>3. LastOther(s) > 3
    BY <1>1 DEF Summarised
  <2>4. LastOther(s) - 1 \in Nat
    BY <1>0, <2>2, <2>3
  <2>5. Trimmed(s) = Without(s, LastOther(s) - 1)
    BY <1>1 DEF Trimmed
  <2> QED  BY <2>4, <2>5, WithoutKeeps
<1>2. CASE ~ Summarised(s)
  <2> DEFINE stop(r) == ~ Over(r) \/ LastOther(r) < 2
             K == {k \in 0 .. Len(s) - 1 : stop(Without(s, k)) \/ k = Len(s) - 1}
  <2>1. Trimmed(s) = Without(s, Min(K))
    BY <1>2 DEF Trimmed, PoppedUntil
  <2>2. K \in SUBSET (0 .. Len(s) - 1) /\ Len(s) - 1 \in K
    BY <1>0
  <2> HIDE DEF K
  <2>3. Min(K) \in Nat
    BY <2>2, FewestOf
  <2> QED  BY <2>1, <2>3, WithoutKeeps
<1> QED  BY <1>1, <1>2

\* So does a reconciliation.
LEMMA ReconciledKeeps ==
    ASSUME NEW s \in Seq(Message), NEW prefix
    PROVE  IF s = <<>> THEN Reconciled(s, prefix) = <<>> ELSE Begins(Reconciled(s, prefix), s)
<1>1. CASE s = <<>>
  BY <1>1 DEF Reconciled, PoppedUntil
<1>2. CASE s # <<>>
  <2> DEFINE stop(r) == prefix + Spoken(r) <= Budget \/ Users(r) = {}
             K == {k \in 0 .. Len(s) - 1 : stop(Without(s, k)) \/ k = Len(s) - 1}
  <2>1. Reconciled(s, prefix) = Without(s, Min(K))
    BY <1>2 DEF Reconciled, PoppedUntil
  <2>2. K \in SUBSET (0 .. Len(s) - 1) /\ Len(s) - 1 \in K
    BY <1>2
  <2> HIDE DEF K
  <2>3. Min(K) \in Nat
    BY <1>2, <2>2, FewestOf
  <2> QED  BY <1>2, <2>1, <2>3, WithoutKeeps
<1> QED  BY <1>1, <1>2

\* While a run is on, something was said in it, but for the runs that went on with a
\* cleared conversation; and what is said begins with a user's message.
TalkInv ==
    /\ messages \in Seq(Message) /\ turn \in Turns
    /\ summary \in BOOLEAN /\ unheard \in BOOLEAN
    /\ UserTurnSurvives
    /\ turn # "idle" /\ ~ unheard => messages # <<>>

\* A message is added where one was before, or by the user.
LEMMA AddMessageKeeps ==
    ASSUME TalkInv, NEW m \in Message, AddMessage(m), unheard' = unheard,
           messages = <<>> /\ ~ unheard => m.role = "user"
    PROVE  /\ messages' \in Seq(Message) /\ summary' \in BOOLEAN /\ messages' # <<>>
           /\ ~ unheard' => messages'[1].role = "user"
<1> DEFINE s == Append(messages, m)
<1>1. messages \in Seq(Message)
  BY DEF TalkInv
<1>2. s \in Seq(Message) /\ s # <<>> /\ s[1] = IF messages = <<>> THEN m ELSE messages[1]
  BY <1>1
<1>3. messages' = Trimmed(s) /\ summary' = (summary \/ Summarised(s))
  BY DEF AddMessage
<1> HIDE DEF s
<1>4. Begins(messages', s)
  BY <1>2, <1>3, TrimmedKeeps
<1>5. summary' \in BOOLEAN
  BY <1>3 DEF Summarised, TalkInv
<1>6. ~ unheard => s[1].role = "user"
  BY <1>2 DEF TalkInv, UserTurnSurvives
<1> QED  BY <1>4, <1>5, <1>6 DEF Begins

-----------------------------------------------------------------------------
(* The invariant.                                                          *)

DiskInv == disk \in [Files -> Texts \cup {Absent}]

\* The map and the symbols are of files; the map lists what there is until a file is
\* made or deleted and nobody invalidates it.
MapInv ==
    /\ repoMap # Absent => DOMAIN repoMap \subseteq Files /\ \A f \in DOMAIN repoMap : repoMap[f] \in Texts
    /\ DOMAIN symbols \subseteq Files /\ \A f \in DOMAIN symbols : symbols[f] \in Texts
    /\ overtaken \in BOOLEAN
    /\ repoMap # Absent /\ ~ overtaken => DOMAIN repoMap = Present

ContextInv == DiskInv /\ CacheInv /\ Current(disk) /\ MapInv /\ TalkInv

LEMMA ContextInvInit == ContextInit => ContextInv
<1> SUFFICES ASSUME ContextInit PROVE ContextInv
  OBVIOUS
<1> USE DEF ContextInit
<1>1. DOMAIN files = {} /\ DOMAIN symbols = {} /\ Len(order) = 0
  OBVIOUS
<1>2. Lists(<<>>, {})
  BY DEF Lists
<1>3. Tokens(files) = 0
  <2>1. MapThenSumSet(LAMBDA f : Cost[files[f]], {}) = 0
    BY DEF MapThenSumSet, MapThenFoldSet
  <2> QED  BY <1>1, <2>1 DEF Tokens
<1>4. MaxFiles \in Nat /\ MaxTokens \in Nat
  BY ContextAssumption
<1>5. CacheInv
  BY <1>1, <1>2, <1>3, <1>4 DEF CacheInv
<1>6. Current(disk)
  BY <1>1 DEF Current
<1>7. DiskInv /\ MapInv
  BY <1>1 DEF DiskInv, MapInv
<1>8. TalkInv
  <2>1. <<>> \in Seq(Message) /\ "idle" \in Turns
    BY DEF Turns
  <2> QED  BY <2>1 DEF TalkInv, UserTurnSurvives
<1> QED  BY <1>5, <1>6, <1>7, <1>8 DEF ContextInv

\* What invalidates nothing: a tool that fails, undo at the prompt, another program.
Unannounced(f, content) == ToolFails(f, content) \/ UndoAtPrompt(f, content) \/ Outside(f, content)

LEMMA UnannouncedOvertakes ==
    ASSUME NEW f, NEW content, Unannounced(f, content)
    PROVE  Overtake(f, content)
BY DEF Unannounced, ToolFails, UndoAtPrompt, Outside

\* Every action keeps what is true of the conversation.
LEMMA TalkStep ==
    ASSUME TalkInv, ContextNext
    PROVE  TalkInv'
<1>0. Weights \subseteq Nat /\ messages \in Seq(Message)
  BY ContextAssumption DEF TalkInv
<1>1. ASSUME NEW weight \in Weights, NewTask(weight) PROVE TalkInv'
  <2>1. [role |-> "user", cost |-> weight] \in Message /\ "asking" \in Turns
    BY DEF Message, Turns
  <2>2. AddMessage([role |-> "user", cost |-> weight]) /\ turn' = "asking" /\ unheard' = unheard
    BY <1>1 DEF NewTask
  <2> QED  BY <2>1, <2>2, AddMessageKeeps DEF TalkInv, UserTurnSurvives
<1>2. ASSUME NEW weight \in Weights, Answer(weight) PROVE TalkInv'
  <2>1. [role |-> "assistant", cost |-> weight] \in Message /\ "acting" \in Turns
    BY DEF Message, Turns
  <2>2. AddMessage([role |-> "assistant", cost |-> weight]) /\ turn' = "acting" /\ unheard' = unheard
    BY <1>2 DEF Answer
  <2>3. ~ unheard => messages # <<>>
    BY <1>2 DEF Answer, TalkInv
  <2> QED  BY <2>1, <2>2, <2>3, AddMessageKeeps DEF TalkInv, UserTurnSurvives
<1>3. ASSUME NEW weight \in Weights, Report(weight) PROVE TalkInv'
  <2>1. [role |-> "tool", cost |-> weight] \in Message
    BY DEF Message
  <2>2. AddMessage([role |-> "tool", cost |-> weight]) /\ turn' = turn /\ unheard' = unheard
    BY <1>3 DEF Report
  <2>3. ~ unheard => messages # <<>>
    BY <1>3 DEF Report, TalkInv
  <2> QED  BY <2>1, <2>2, <2>3, AddMessageKeeps DEF TalkInv, UserTurnSurvives
<1>4. ASSUME NEW prompt \in Prompts, NEW found \in Files \cup {Absent},
             NEW related \in {0} \cup Weights, Assemble(prompt, found, related)
      PROVE  TalkInv'
  <2>1. PICK prefix : messages' = Reconciled(messages, prefix)
    BY <1>4 DEF Assemble
  <2>2. turn = "asking" /\ turn' = "asked" /\ UNCHANGED <<summary, unheard>>
    BY <1>4 DEF Assemble
  <2>3. IF messages = <<>> THEN messages' = <<>> ELSE Begins(messages', messages)
    BY <1>0, <2>1, ReconciledKeeps
  <2>4. messages' \in Seq(Message) /\ "asked" \in Turns
    BY <1>0, <2>3 DEF Begins, Turns
  <2>5. UserTurnSurvives'
    BY <2>2, <2>3 DEF Begins, TalkInv, UserTurnSurvives
  <2>6. ~ unheard' => messages' # <<>>
    BY <2>2, <2>3 DEF Begins, TalkInv
  <2> QED  BY <2>2, <2>4, <2>5, <2>6 DEF TalkInv
<1>5. CASE GoOn
  <2>1. /\ turn' = "asking" /\ "asking" \in Turns
        /\ unheard' = (unheard \/ messages = <<>>) /\ UNCHANGED <<messages, summary>>
    BY <1>5 DEF GoOn, Turns, talk
  <2>2. unheard' \in BOOLEAN
    BY <2>1 DEF TalkInv
  <2> QED  BY <2>1, <2>2 DEF TalkInv, UserTurnSurvives
<1>6. CASE NoAnswer \/ EndTurn
  <2>1. /\ turn # "idle" /\ turn' \in {"idle", "asking"} /\ {"idle", "asking"} \subseteq Turns
        /\ UNCHANGED <<messages, summary, unheard>>
    BY <1>6 DEF NoAnswer, EndTurn, Turns, talk
  <2> QED  BY <2>1 DEF TalkInv, UserTurnSurvives
<1>7. CASE Clear
  <2>1. messages' = <<>> /\ turn = "idle" /\ UNCHANGED <<summary, turn, unheard>>
    BY <1>7 DEF Clear
  <2> QED  BY <2>1 DEF TalkInv, UserTurnSurvives
<1>8. CASE Restart
  <2>1. summary' = FALSE /\ UNCHANGED <<messages, turn, unheard>>
    BY <1>8 DEF Restart
  <2> QED  BY <2>1 DEF TalkInv, UserTurnSurvives
<1>9. ASSUME UNCHANGED <<talk, turn, unheard>> PROVE TalkInv'
  BY <1>9 DEF TalkInv, UserTurnSurvives, talk
<1>10. ASSUME NEW f \in Files, Read(f) \/ Visit(f) PROVE TalkInv'
  BY <1>9, <1>10 DEF Read, Visit
<1>11. ASSUME NEW f \in Files, NEW text \in Texts, Change(f, text) \/ ChangeTakenBack(f, text)
       PROVE  TalkInv'
  BY <1>9, <1>11 DEF Change, ChangeTakenBack, Mutated
<1>12. ASSUME NEW f \in Files, NEW content \in Texts \cup {Absent},
              ChangeBehind(f, content) \/ Unannounced(f, content)
       PROVE  TalkInv'
  BY <1>9, <1>12, UnannouncedOvertakes DEF ChangeBehind, Overtake, Mutated
<1> QED  BY <1>1, <1>2, <1>3, <1>4, <1>5, <1>6, <1>7, <1>8, <1>10, <1>11, <1>12
         DEF ContextNext, Unannounced

\* Every action leaves a cache that is a cache, and current.
LEMMA CacheStep ==
    ASSUME DiskInv, CacheInv, Current(disk), ContextNext
    PROVE  (DiskInv /\ CacheInv /\ Current(disk))'
<1>0. /\ disk \in [Files -> Texts \cup {Absent}] /\ Absent \notin Texts
      /\ Lists(order, DOMAIN files) /\ DOMAIN order = 1 .. Len(order)
  <2>1. Lists(order, DOMAIN files)
    BY DEF CacheInv
  <2>2. order \in Seq(DOMAIN files)
    BY <2>1 DEF Lists
  <2> QED  BY <2>1, <2>2, ContextAssumption DEF DiskInv
<1> DEFINE Kept == CacheInv' /\ \A g \in DOMAIN files' \ behind' : files'[g] = disk'[g]
<1>1. ASSUME DiskInv', Kept PROVE (DiskInv /\ CacheInv /\ Current(disk))'
  BY <1>1 DEF Current
<1>2. ASSUME UNCHANGED disk PROVE DiskInv'
  BY <1>2 DEF DiskInv
<1>3. ASSUME UNCHANGED <<disk, fileCache>> PROVE (DiskInv /\ CacheInv /\ Current(disk))'
  BY <1>3 DEF DiskInv, CacheInv, Current, fileCache
<1>4. ASSUME NEW prompt \in Prompts, NEW found \in Files \cup {Absent},
             NEW related \in {0} \cup Weights, Assemble(prompt, found, related)
      PROVE  (DiskInv /\ CacheInv /\ Current(disk))'
  <2> DEFINE I == {i \in DOMAIN order : disk[order[i]] # Absent}
             J == {i \in DOMAIN order : disk[order[i]] = Absent}
             read == Picked(order, J) \o Picked(order, I)
  <2>1. /\ UNCHANGED disk
        /\ IF found = Absent THEN order' = read /\ UNCHANGED <<files, behind>> ELSE Get(read, found)
    BY <1>4 DEF Assemble, Showable
  <2>2. I \in SUBSET (1 .. Len(order)) /\ J = (1 .. Len(order)) \ I
    BY <1>0
  <2> HIDE DEF I, J
  <2>3. Lists(read, DOMAIN files)
    BY <1>0, <2>2, PartedLists
  <2> HIDE DEF read
  <2>4. CASE found = Absent
    <3>1. order' = read /\ UNCHANGED <<files, behind>>
      BY <2>1, <2>4
    <3>2. Len(order') = Len(order)
      BY <1>0, <2>3, <3>1, ListsLength
    <3>3. CacheInv'
      BY <2>3, <3>1, <3>2 DEF CacheInv
    <3> QED  BY <1>2, <2>1, <3>1, <3>3 DEF Current
  <2>5. CASE found # Absent
    <3>1. Kept
      BY <1>0, <2>1, <2>3, <2>5, GetKeeps
    <3> QED  BY <1>1, <1>2, <2>1, <3>1
  <2> QED  BY <2>4, <2>5
<1>5. ASSUME NEW f \in Files, Read(f) PROVE (DiskInv /\ CacheInv /\ Current(disk))'
  <2>1. TakeIn(order, f, disk[f], {}) /\ disk[f] \in Texts /\ UNCHANGED disk
    BY <1>0, <1>5 DEF Read, Remember
  <2>2. Kept
    BY <1>0, <2>1, TakeInKeeps DEF Current
  <2> QED  BY <1>1, <1>2, <2>1, <2>2
<1>6. ASSUME NEW f \in Files, Visit(f) PROVE (DiskInv /\ CacheInv /\ Current(disk))'
  <2>1. Get(order, f) /\ UNCHANGED disk
    BY <1>6 DEF Visit
  <2>2. Kept
    BY <1>0, <2>1, GetKeeps
  <2> QED  BY <1>1, <1>2, <2>1, <2>2
<1>7. ASSUME NEW f \in Files, NEW text \in Texts, Change(f, text)
      PROVE  (DiskInv /\ CacheInv /\ Current(disk))'
  <2>1. TakeIn(order, f, text, {}) /\ disk' = [disk EXCEPT ![f] = text]
    BY <1>7 DEF Change, Remember
  <2>2. disk' \in [Files -> Texts \cup {Absent}] /\ disk'[f] = text
    BY <1>0, <2>1
  <2>3. \A g \in DOMAIN files \ behind : g # f => files[g] = disk'[g]
    BY <1>0, <2>1 DEF Current, CacheInv
  <2>4. PICK D : D = disk'
    OBVIOUS
  <2>5. CacheInv' /\ \A g \in DOMAIN files' \ behind' : files'[g] = D[g]
    <3>1. D[f] = text /\ \A g \in DOMAIN files \ behind : g # f => files[g] = D[g]
      BY <2>2, <2>3, <2>4
    <3> QED  BY <1>0, <2>1, <3>1, TakeInKeeps
  <2> QED  BY <1>1, <2>2, <2>4, <2>5 DEF DiskInv
<1>8. ASSUME NEW f \in Files, NEW text \in Texts, ChangeTakenBack(f, text)
      PROVE  (DiskInv /\ CacheInv /\ Current(disk))'
  <2>1. TakeIn(order, f, text, {f}) /\ UNCHANGED disk
    BY <1>8 DEF ChangeTakenBack
  <2>2. Kept
    BY <1>0, <2>1, TakeInKeeps DEF Current
  <2> QED  BY <1>1, <1>2, <2>1, <2>2
<1>9. ASSUME NEW f \in Files, NEW content \in Texts \cup {Absent},
             ChangeBehind(f, content) \/ Unannounced(f, content)
      PROVE  (DiskInv /\ CacheInv /\ Current(disk))'
  <2>1. /\ disk' = [disk EXCEPT ![f] = content] /\ UNCHANGED <<files, order>>
        /\ behind' = behind \cup ({f} \cap DOMAIN files)
    BY <1>9, UnannouncedOvertakes DEF ChangeBehind, ChangeUnseen, Overtake
  <2>2. DiskInv'
    BY <1>0, <2>1 DEF DiskInv
  <2>3. CacheInv'
    BY <2>1 DEF CacheInv
  <2>4. \A g \in DOMAIN files' \ behind' : files'[g] = disk'[g]
    BY <1>0, <2>1 DEF CacheInv, Current
  <2> QED  BY <1>1, <2>2, <2>3, <2>4
<1>10. CASE Restart
  <2>1. files' = <<>> /\ order' = <<>> /\ behind' = {} /\ UNCHANGED disk
    BY <1>10 DEF Restart
  <2>2. DOMAIN files' = {} /\ Len(order') = 0 /\ Lists(<<>>, {})
    BY <2>1 DEF Lists
  <2>3. Tokens(<<>>) = 0
    <3>1. DOMAIN <<>> = {}
      OBVIOUS
    <3>2. MapThenSumSet(LAMBDA f : Cost[<<>>[f]], {}) = 0
      BY DEF MapThenSumSet, MapThenFoldSet
    <3> QED  BY <3>1, <3>2 DEF Tokens
  <2>4. CacheInv'
    BY <2>1, <2>2, <2>3, ContextAssumption DEF CacheInv
  <2> QED  BY <1>2, <2>1, <2>2, <2>4 DEF Current
<1>11. ASSUME NEW weight \in Weights, NewTask(weight) \/ Answer(weight) \/ Report(weight)
       PROVE  (DiskInv /\ CacheInv /\ Current(disk))'
  BY <1>3, <1>11 DEF NewTask, Answer, Report
<1>12. CASE GoOn \/ NoAnswer \/ EndTurn \/ Clear
  BY <1>3, <1>12 DEF GoOn, NoAnswer, EndTurn, Clear
<1> QED  BY <1>4, <1>5, <1>6, <1>7, <1>8, <1>9, <1>10, <1>11, <1>12
         DEF ContextNext, Unannounced

\* The map is made of what there is, or dropped, or marked as overtaken.
LEMMA MapStep ==
    ASSUME DiskInv, MapInv, ContextNext
    PROVE  MapInv'
<1>0. disk \in [Files -> Texts \cup {Absent}] /\ Present \subseteq Files /\ \A f \in Present : disk[f] \in Texts
  BY DEF DiskInv, Present
<1>1. ASSUME UNCHANGED <<disk, mapCache, overtaken>> PROVE MapInv'
  BY <1>1 DEF MapInv, mapCache, Present
<1>2. ASSUME repoMap' = Absent, overtaken' = FALSE, UNCHANGED symbols PROVE MapInv'
  BY <1>2 DEF MapInv
<1>3. ASSUME NEW prompt \in Prompts, NEW found \in Files \cup {Absent},
             NEW related \in {0} \cup Weights, Assemble(prompt, found, related)
      PROVE  MapInv'
  <2>1. CASE repoMap = Absent
    <3>1. Generate /\ overtaken' = FALSE /\ UNCHANGED disk
      BY <1>3, <2>1 DEF Assemble
    <3>2. /\ DOMAIN Extracted = DOMAIN symbols \cup Present
          /\ \A f \in DOMAIN Extracted : f \in Files /\ Extracted[f] \in Texts
      BY <1>0 DEF Extracted, MapInv
    <3>3. DOMAIN repoMap' = Present /\ \A f \in Present : repoMap'[f] = Extracted[f]
      BY <3>1 DEF Generate, Restrict
    <3>4. symbols' = Extracted
      BY <3>1 DEF Generate
    <3>5. Present' = Present
      BY <3>1 DEF Present
    <3> HIDE DEF Extracted
    <3> QED  BY <3>1, <3>2, <3>3, <3>4, <3>5 DEF MapInv
  <2>2. CASE repoMap # Absent
    BY <1>1, <1>3, <2>2 DEF Assemble
  <2> QED  BY <2>1, <2>2
<1>4. ASSUME NEW f \in Files, NEW text \in Texts, Change(f, text) \/ ChangeTakenBack(f, text)
      PROVE  MapInv'
  BY <1>2, <1>4 DEF Change, ChangeTakenBack, Mutated
<1>5. ASSUME NEW f \in Files, NEW content \in Texts \cup {Absent}, ChangeBehind(f, content)
      PROVE  MapInv'
  BY <1>2, <1>5 DEF ChangeBehind, Mutated
<1>6. ASSUME NEW f \in Files, NEW content \in Texts \cup {Absent}, Unannounced(f, content)
      PROVE  MapInv'
  <2>1. /\ disk' = [disk EXCEPT ![f] = content] /\ UNCHANGED mapCache
        /\ overtaken' = (overtaken \/ (repoMap # Absent /\ Absent \in {disk[f], content}))
    BY <1>6, UnannouncedOvertakes DEF Overtake, ChangeUnseen
  <2>2. overtaken' \in BOOLEAN
    BY <2>1 DEF MapInv
  <2>3. ASSUME repoMap' # Absent, ~ overtaken' PROVE DOMAIN repoMap' = Present'
    <3>1. repoMap # Absent /\ ~ overtaken /\ disk[f] # Absent /\ content # Absent /\ repoMap' = repoMap
      BY <2>1, <2>3 DEF mapCache
    <3>2. \A g \in Files : disk'[g] # Absent <=> disk[g] # Absent
      BY <1>0, <2>1, <3>1
    <3>3. Present' = Present
      BY <3>2 DEF Present
    <3> QED  BY <3>1, <3>3 DEF MapInv
  <2> QED  BY <2>1, <2>2, <2>3 DEF MapInv, mapCache
<1>7. CASE Restart
  <2>1. repoMap' = Absent /\ symbols' = <<>> /\ overtaken' = FALSE
    BY <1>7 DEF Restart
  <2>2. DOMAIN <<>> = {}
    OBVIOUS
  <2> QED  BY <2>1, <2>2 DEF MapInv
<1>8. ASSUME NEW f \in Files, Read(f) \/ Visit(f) PROVE MapInv'
  BY <1>1, <1>8 DEF Read, Visit
<1>9. ASSUME NEW weight \in Weights, NewTask(weight) \/ Answer(weight) \/ Report(weight)
      PROVE  MapInv'
  BY <1>1, <1>9 DEF NewTask, Answer, Report
<1>10. CASE GoOn \/ NoAnswer \/ EndTurn \/ Clear
  BY <1>1, <1>10 DEF GoOn, NoAnswer, EndTurn, Clear
<1> QED  BY <1>3, <1>4, <1>5, <1>6, <1>7, <1>8, <1>9, <1>10 DEF ContextNext, Unannounced

LEMMA ContextInvNext == ContextInv /\ [ContextNext]_contextVars => ContextInv'
<1> SUFFICES ASSUME ContextInv, [ContextNext]_contextVars PROVE ContextInv'
  OBVIOUS
<1>1. CASE ContextNext
  BY <1>1, CacheStep, MapStep, TalkStep DEF ContextInv
<1>2. CASE UNCHANGED contextVars
  <2>1. UNCHANGED <<disk, files, order, behind, repoMap, symbols, messages, summary, turn, overtaken, unheard>>
    BY <1>2 DEF contextVars, fileCache, mapCache, talk
  <2>2. Present' = Present
    BY <2>1 DEF Present
  <2>3. CacheInv' /\ Current(disk)'
    BY <2>1 DEF ContextInv, CacheInv, Current
  <2>4. DiskInv' /\ MapInv'
    BY <2>1, <2>2 DEF ContextInv, DiskInv, MapInv
  <2>5. TalkInv'
    BY <2>1 DEF ContextInv, TalkInv, UserTurnSurvives
  <2> QED  BY <2>3, <2>4, <2>5 DEF ContextInv
<1> QED  BY <1>1, <1>2

LEMMA ContextInvariant == ContextSpec => []ContextInv
BY ContextInvInit, ContextInvNext, PTL DEF ContextSpec

-----------------------------------------------------------------------------
(* The theorems.                                                           *)

\* The types of the state, and that the two tables of the file cache hold the same
\* files within both limits: file_context.py's remember, get and _evict_if_needed,
\* and context.py's assemble, which reads the cache through get.
THEOREM ContextTypeCorrect == ContextSpec => []ContextTypeOK
<1>1. ContextInv => ContextTypeOK
  <2> SUFFICES ASSUME ContextInv PROVE ContextTypeOK
    OBVIOUS
  <2>1. Range(order) = DOMAIN files /\ Len(order) = Cardinality(DOMAIN files)
    BY ListsLength DEF ContextInv, CacheInv
  <2>2. /\ DOMAIN files \subseteq Files /\ Range(files) \subseteq Texts
        /\ Len(order) <= MaxFiles /\ Tokens(files) <= MaxTokens /\ behind \subseteq DOMAIN files
    BY DEF ContextInv, CacheInv, Range
  <2>3. /\ repoMap # Absent => DOMAIN repoMap \subseteq Files /\ Range(repoMap) \subseteq Texts
        /\ DOMAIN symbols \subseteq Files /\ Range(symbols) \subseteq Texts /\ overtaken \in BOOLEAN
    BY DEF ContextInv, MapInv, Range
  <2>4. messages \in Seq(Message) /\ turn \in Turns /\ summary \in BOOLEAN /\ unheard \in BOOLEAN
    BY DEF ContextInv, TalkInv
  <2>5. disk \in [Files -> Texts \cup {Absent}]
    BY DEF ContextInv, DiskInv
  <2> QED  BY <2>1, <2>2, <2>3, <2>4, <2>5 DEF ContextTypeOK
<1> QED  BY <1>1, ContextInvariant, PTL

\* Whatever is read, written, evicted and taken in again, a cached file is the file on
\* disk, unless its last change was one that the cache is not told of
\* (file_context.py's get, remember and _evict_if_needed).
THEOREM CachedFilesStayCurrent == ContextSpec => []CachedFilesCurrent
<1>1. ContextInv => CachedFilesCurrent
  BY DEF ContextInv, Current, CachedFilesCurrent
<1> QED  BY <1>1, ContextInvariant, PTL

\* The cached map lists the files there are, unless since it was made a tool that
\* failed, an undo or redo at the prompt, or another program has made or deleted one:
\* every success of a tool that changes files invalidates it (react_loop.py 1864).
THEOREM MapStaysCurrent == ContextSpec => []MapCurrent
<1>1. ContextInv => MapCurrent
  BY DEF ContextInv, MapInv, MapCurrent
<1> QED  BY <1>1, ContextInvariant, PTL

\* However much is trimmed or reconciled, what is left of a conversation begins with
\* a user's message, unless a run went on with a cleared one.
THEOREM UserIsHeard == ContextSpec => []UserTurnSurvives
<1>1. ContextInv => UserTurnSurvives
  BY DEF ContextInv, TalkInv
<1> QED  BY <1>1, ContextInvariant, PTL

=============================================================================
