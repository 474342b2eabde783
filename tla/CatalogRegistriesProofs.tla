---------------------- MODULE CatalogRegistriesProofs ----------------------
(* Proofs about the three registries of catalog governance, for every set  *)
(* of components, versions, mappings and analyses, any number of commands  *)
(* at a time and any number of stops.                                      *)
EXTENDS CatalogRegistries, FiniteSetTheorems, SequenceTheorems, WellFoundedInduction, TLAPS

(* A sequence, whatever it is of.                                          *)
IsSeq(s) == s \in Seq(ToSet(s))

(* What registry.json may become while it is there.                        *)
Grows(d, old, new) ==
  /\ d = "catalog" => IsPrefix(old.log, new.log) /\ old.versions \subseteq new.versions
  /\ d = "refresh" => IsPrefix(old.log, new.log) /\ old.candidates \subseteq new.candidates
  /\ d = "mapping" => (old # Absent => IsPrefix(old.versions, new.versions))

(* An activation is in the catalog's log, at its own number.               *)
Performed(a, log) == a.sequence \in DOMAIN log /\ log[a.sequence] = a

(* It is what the analysis of k meant: its content, in the place of the    *)
(* version that was analyzed.                                              *)
AsAnalyzed(a, k) == a.previous = k.expected /\ a.target = <<k.component, k.part.content>>

(* The i-th entry approves the candidate k, and it could be approved.      *)
Approved(k, i, log) ==
  /\ i \in DOMAIN log /\ log[i].kind = "approve" /\ log[i].candidate = k
  /\ k.status = "ready"

(* Every execution of the log is backed by an activation, and every        *)
(* promotion by an approval before it.                                     *)
Sound(log, activations) ==
  \A i \in DOMAIN log : log[i].kind \in {"promote", "rollback"} =>
    /\ Performed(log[i].activation, activations)
    /\ log[i].kind = "promote" =>
         /\ log[i].decision < i /\ Approved(log[i].candidate, log[i].decision, log)
         /\ AsAnalyzed(log[i].activation, log[i].candidate)

(* A candidate names the version it is to replace, and one with content    *)
(* has an identity.                                                        *)
CandidateOK(k) ==
  /\ k.expected # NoVersion
  /\ k.part.count >= 1 => <<k.component, k.part.content>> # NoVersion

(* What a registry.json holds, given the log of the catalog's activations. *)
DocOK(d, doc, activations) ==
  /\ d = "catalog" =>
       /\ DOMAIN doc = {"components", "versions", "log", "active"}
       /\ IsSeq(doc.log) /\ \A v \in doc.versions : v.id # NoVersion
  /\ d = "mapping" => (doc # Absent => IsSeq(doc.versions))
  /\ d = "refresh" =>
       /\ DOMAIN doc = {"candidates", "log"}
       /\ IsSeq(doc.log) /\ (\A k \in doc.candidates : CandidateOK(k))
       /\ Sound(doc.log, activations)

(* The three directories.                                                  *)
DirsOK(D) ==
  /\ DOMAIN D = Dirs
  /\ \A d \in Dirs : /\ DOMAIN D[d] = {"lock", "doc", "files"}
                     /\ DocOK(d, D[d].doc, D["catalog"].doc.log)

(* What a job of a command was given when the command started.             *)
JobOK(job, decisions) ==
  /\ job.op \in {"init", "component", "version", "activate", "mapping", "candidate", "decide", "execute"}
  /\ job.op = "version" => job.v.id # NoVersion
  /\ job.op = "candidate" => CandidateOK(job.k)
  /\ job.op = "decide" => job.action \in {"approve", "reject"}
  /\ job.op = "execute" =>
       /\ job.action \in {"promote", "rollback"}
       /\ job.action = "promote" =>
            Approved(job.k, job.decision, decisions) /\ job.k.expected # NoVersion

(* The activation that an execution records is the job before it.          *)
Follows(job, next) ==
  next.op = "execute" =>
    /\ job.op = "activate"
    /\ next.action = "promote" =>
         /\ job.expected = next.k.expected
         /\ job.target = <<next.k.component, next.k.part.content>>

(* A write of registry.json, and the shape of a write.                     *)
IsRegistry(w) == w.name = <<"registry.json">>
IsWrite(w) == DOMAIN w = {"name", "body", "once"}

(* A write of registry.json is the last of its operation.                  *)
WritesOK(x, D) ==
  LET d == DirOf(Head(x.jobs)) IN
  /\ D[d].lock /\ IsSeq(x.todo) /\ (\A i \in DOMAIN x.todo : IsWrite(x.todo[i]))
  /\ \A i \in DOMAIN x.todo : IsRegistry(x.todo[i]) =>
       /\ i = Len(x.todo) /\ ~x.todo[i].once
       /\ Grows(d, D[d].doc, x.todo[i].body)
       /\ DocOK(d, x.todo[i].body, D["catalog"].doc.log)

(* The activation that a command has made is in the log, or will be.       *)
MadeOK(x, D) ==
  LET job == Head(x.jobs)
      last == x.todo[Len(x.todo)]
  IN  /\ x.at = "lock" /\ job.op = "execute" =>
           /\ Performed(x.made, D["catalog"].doc.log)
           /\ job.action = "promote" => AsAnalyzed(x.made, job.k)
      /\ x.at = "write" /\ job.op = "activate" =>
           /\ IF x.todo = <<>> THEN Performed(x.made, D["catalog"].doc.log)
              ELSE IsRegistry(last) /\ Performed(x.made, last.body.log)
           /\ x.made.target = job.target
           /\ job.expected # NoVersion => x.made.previous = job.expected

(* A running command.                                                      *)
CommandOK(x, D) ==
  /\ DOMAIN x = {"at", "jobs", "todo", "made"} /\ x.at \in {"lock", "write"}
  /\ IsSeq(x.jobs) /\ x.jobs # <<>>
  /\ \A i \in DOMAIN x.jobs : JobOK(x.jobs[i], D["refresh"].doc.log)
  /\ \A i \in 2..Len(x.jobs) : Follows(x.jobs[i - 1], x.jobs[i])
  /\ IF x.at = "write" THEN WritesOK(x, D) ELSE x.todo = <<>>
  /\ MadeOK(x, D)

(* Two commands never hold the lock of one directory.                      *)
Exclusive ==
  \A b, c \in DOMAIN cmd :
    /\ cmd[b].at = "write" /\ cmd[c].at = "write"
    /\ DirOf(Head(cmd[b].jobs)) = DirOf(Head(cmd[c].jobs))
    => b = c

(* The invariant of the registries and of the commands that work on them.  *)
RegistryInv ==
  /\ IsSeq(cmd) /\ DirsOK(dir)
  /\ \A c \in DOMAIN cmd : CommandOK(cmd[c], dir)
  /\ Exclusive

---------------------------------------------------------------------------
(* Sequences, whatever they are of.                                        *)

(* Every sequence is one of its own elements.                              *)
LEMMA Sequential ==
  ASSUME NEW S, NEW s \in Seq(S)
  PROVE  IsSeq(s)
<1>1. Len(s) \in Nat /\ s \in [1 .. Len(s) -> S] /\ DOMAIN s = 1 .. Len(s)
  BY LenProperties
<1>2. s \in [1 .. Len(s) -> ToSet(s)]
  BY <1>1 DEF ToSet
<1>3. s \in UNION {[1 .. n -> ToSet(s)] : n \in Nat}
  BY <1>1, <1>2
<1> QED BY <1>3, SeqDef DEF IsSeq

(* The domain of a sequence and what it holds.                             *)
LEMMA SeqFacts ==
  ASSUME NEW s, IsSeq(s)
  PROVE  Len(s) \in Nat /\ DOMAIN s = 1 .. Len(s) /\ \A i \in 1 .. Len(s) : s[i] \in ToSet(s)
<1>1. s \in Seq(ToSet(s))
  BY DEF IsSeq
<1>2. Len(s) \in Nat /\ s \in [1 .. Len(s) -> ToSet(s)] /\ DOMAIN s = 1 .. Len(s)
  BY <1>1, LenProperties
<1> QED BY <1>2

(* Appending extends a sequence.                                           *)
LEMMA Appended ==
  ASSUME NEW s, NEW x, IsSeq(s)
  PROVE  /\ IsSeq(Append(s, x)) /\ Len(Append(s, x)) = Len(s) + 1
         /\ DOMAIN Append(s, x) = 1 .. Len(s) + 1
         /\ Append(s, x)[Len(s) + 1] = x
         /\ \A i \in 1 .. Len(s) : Append(s, x)[i] = s[i]
         /\ IsPrefix(s, Append(s, x))
<1> DEFINE S == ToSet(s) \cup {x}
<1>1. s \in Seq(S)
  BY SeqMonotonic DEF IsSeq
<1> HIDE DEF S
<1>2. x \in S
  BY DEF S
<1>3. /\ Append(s, x) \in Seq(S) /\ Len(Append(s, x)) = Len(s) + 1
      /\ Append(s, x)[Len(s) + 1] = x
      /\ \A i \in 1 .. Len(s) : Append(s, x)[i] = s[i]
  BY <1>1, <1>2
<1>4. IsSeq(Append(s, x)) /\ DOMAIN Append(s, x) = 1 .. Len(s) + 1
  <2>1. IsSeq(Append(s, x))
    BY <1>3, Sequential, Zenon
  <2> QED BY <1>3, <2>1, SeqFacts
<1>5. Len(s) \in Nat
  BY SeqFacts
<1>6. SubSeq(s, 1, Len(s)) = SubSeq(Append(s, x), 1, Len(s))
  BY <1>1, <1>2, <1>3, <1>5
<1> QED BY <1>3, <1>4, <1>5, <1>6 DEF IsPrefix

(* What a prefix says stays so.                                            *)
LEMMA Prefixed ==
  ASSUME NEW s, NEW t, IsSeq(s), IsSeq(t), IsPrefix(s, t)
  PROVE  /\ Len(s) <= Len(t)
         /\ \A i \in DOMAIN s : i \in DOMAIN t /\ t[i] = s[i]
<1>1. /\ Len(s) \in Nat /\ Len(t) \in Nat
      /\ DOMAIN s = 1 .. Len(s) /\ DOMAIN t = 1 .. Len(t)
  BY SeqFacts
<1>2. Len(s) <= Len(t) /\ SubSeq(s, 1, Len(s)) = SubSeq(t, 1, Len(s))
  BY DEF IsPrefix
<1>3. \A i \in 1 .. Len(s) : s[i] \in ToSet(s) /\ t[i] \in ToSet(t)
  BY <1>1, <1>2, SeqFacts
<1>4. \A i \in 1 .. Len(s) : SubSeq(s, 1, Len(s))[i] = s[i]
  BY <1>1, <1>3, SubSeqProperties
<1>5. \A i \in 1 .. Len(s) : SubSeq(t, 1, Len(s))[i] = t[i]
  BY <1>1, <1>3, SubSeqProperties
<1> QED BY <1>1, <1>2, <1>4, <1>5

(* A sequence is a prefix of itself.                                       *)
LEMMA PrefixOfItself == ASSUME NEW s, IsSeq(s) PROVE IsPrefix(s, s)
<1>1. Len(s) \in Nat
  BY SeqFacts
<1> QED BY <1>1 DEF IsPrefix

(* The rest of a sequence.                                                 *)
LEMMA Rest ==
  ASSUME NEW s, IsSeq(s), s # <<>>
  PROVE  /\ IsSeq(Tail(s)) /\ Len(Tail(s)) = Len(s) - 1 /\ Len(s) >= 1
         /\ Head(s) = s[1]
         /\ \A i \in 1 .. Len(Tail(s)) : Tail(s)[i] = s[i + 1]
         /\ Tail(s) = <<>> <=> Len(s) = 1
<1>1. s \in Seq(ToSet(s))
  BY DEF IsSeq
<1>2. /\ Tail(s) \in Seq(ToSet(s)) /\ Len(Tail(s)) = Len(s) - 1
      /\ \A i \in 1 .. Len(Tail(s)) : Tail(s)[i] = s[i + 1]
  BY <1>1, HeadTailProperties
<1>3. Len(s) \in Nat \ {0} /\ Head(s) = s[1]
  BY <1>1, EmptySeq
<1>4. Tail(s) = <<>> <=> Len(Tail(s)) = 0
  BY <1>2, EmptySeq
<1>5. IsSeq(Tail(s))
  BY <1>2, Sequential, Zenon
<1> QED BY <1>2, <1>3, <1>4, <1>5

(* A sequence without one of its elements.                                 *)
LEMMA Removed ==
  ASSUME NEW s, NEW c, IsSeq(s), c \in DOMAIN s
  PROVE  /\ IsSeq(RemoveAt(s, c)) /\ Len(RemoveAt(s, c)) = Len(s) - 1
         /\ \A i \in DOMAIN RemoveAt(s, c) :
              RemoveAt(s, c)[i] = s[IF i < c THEN i ELSE i + 1]
<1>1. /\ Len(s) \in Nat /\ c \in 1 .. Len(s)
      /\ \A i \in 1 .. Len(s) : s[i] \in ToSet(s)
  BY SeqFacts
<1>2. PICK a, b : a = SubSeq(s, 1, c - 1) /\ b = SubSeq(s, c + 1, Len(s))
  OBVIOUS
<1>3. /\ a \in Seq(ToSet(s)) /\ Len(a) = c - 1
      /\ \A i \in 1 .. c - 1 : a[i] = s[i]
  <2>1. c - 1 \in Int /\ \A i \in 1 .. c - 1 : s[i] \in ToSet(s)
    BY <1>1
  <2>2. /\ SubSeq(s, 1, c - 1) \in Seq(ToSet(s))
        /\ Len(SubSeq(s, 1, c - 1)) = IF 1 <= c - 1 THEN (c - 1) - 1 + 1 ELSE 0
        /\ \A i \in 1 .. (c - 1) - 1 + 1 : SubSeq(s, 1, c - 1)[i] = s[1 + i - 1]
    BY <2>1, SubSeqProperties
  <2> QED BY <1>1, <1>2, <2>2
<1>4. /\ b \in Seq(ToSet(s)) /\ Len(b) = Len(s) - c
      /\ \A i \in 1 .. Len(s) - c : b[i] = s[c + i]
  <2>1. c + 1 \in Int /\ Len(s) \in Int /\ \A i \in c + 1 .. Len(s) : s[i] \in ToSet(s)
    BY <1>1
  <2>2. /\ SubSeq(s, c + 1, Len(s)) \in Seq(ToSet(s))
        /\ Len(SubSeq(s, c + 1, Len(s))) = IF c + 1 <= Len(s) THEN Len(s) - (c + 1) + 1 ELSE 0
        /\ \A i \in 1 .. Len(s) - (c + 1) + 1 : SubSeq(s, c + 1, Len(s))[i] = s[(c + 1) + i - 1]
    BY <2>1, SubSeqProperties
  <2> QED BY <1>1, <1>2, <2>2
<1>5. /\ a \o b \in Seq(ToSet(s)) /\ Len(a \o b) = Len(a) + Len(b)
      /\ \A i \in 1 .. Len(a) + Len(b) : (a \o b)[i] = IF i <= Len(a) THEN a[i] ELSE b[i - Len(a)]
  BY <1>3, <1>4, ConcatProperties
<1>6. PICK r : r = a \o b /\ r = RemoveAt(s, c)
  BY <1>2 DEF RemoveAt
<1>7. IsSeq(r) /\ Len(r) = Len(s) - 1
  <2>1. r \in Seq(ToSet(s)) /\ Len(r) = Len(s) - 1
    BY <1>1, <1>3, <1>4, <1>5, <1>6
  <2> QED BY <2>1, Sequential, Zenon
<1>8. DOMAIN r = 1 .. Len(s) - 1
  BY <1>7, SeqFacts
<1>9. ASSUME NEW i \in DOMAIN r
      PROVE  r[i] = s[IF i < c THEN i ELSE i + 1]
  <2>1. i \in 1 .. Len(a) + Len(b)
    BY <1>1, <1>3, <1>4, <1>8
  <2>2. CASE i < c
    BY <1>1, <1>3, <1>5, <1>6, <1>8, <2>1, <2>2
  <2>3. CASE ~(i < c)
    <3>1. r[i] = b[i - Len(a)]
      BY <1>1, <1>3, <1>5, <1>6, <1>8, <2>1, <2>3
    <3>2. i - Len(a) \in 1 .. Len(s) - c /\ c + (i - Len(a)) = i + 1
      BY <1>1, <1>3, <1>8, <2>3
    <3> QED BY <1>4, <2>3, <3>1, <3>2
  <2> QED BY <2>2, <2>3
<1> QED BY <1>6, <1>7, <1>9

(* A sequence with one element exchanged.                                  *)
LEMMA Exchanged ==
  ASSUME NEW s, NEW c, NEW y, IsSeq(s), c \in DOMAIN s
  PROVE  /\ IsSeq([s EXCEPT ![c] = y]) /\ DOMAIN [s EXCEPT ![c] = y] = DOMAIN s
         /\ [s EXCEPT ![c] = y][c] = y
         /\ \A i \in DOMAIN s \ {c} : [s EXCEPT ![c] = y][i] = s[i]
<1> DEFINE S == ToSet(s) \cup {y}
<1>1. s \in Seq(S)
  BY SeqMonotonic DEF IsSeq
<1>2. y \in S
  OBVIOUS
<1> HIDE DEF S
<1>3. c \in 1 .. Len(s)
  BY SeqFacts
<1>4. [s EXCEPT ![c] = y] \in Seq(S)
  BY <1>1, <1>2, <1>3, ExceptSeq
<1>5. IsSeq([s EXCEPT ![c] = y])
  BY <1>4, Sequential, Zenon
<1> QED BY <1>5

(* Short sequences.                                                        *)
LEMMA Short ==
  /\ IsSeq(<<>>)
  /\ \A x : IsSeq(<<x>>) /\ Len(<<x>>) = 1 /\ <<x>> # <<>>
  /\ \A x, y : IsSeq(<<x, y>>) /\ Len(<<x, y>>) = 2 /\ <<x, y>> # <<>>
  /\ \A x, y, z : IsSeq(<<x, y, z>>) /\ Len(<<x, y, z>>) = 3 /\ <<x, y, z>> # <<>>
<1>1. IsSeq(<<>>)
  <2>1. <<>> \in Seq({})
    OBVIOUS
  <2>2. IsSeq(<<>>)
    BY <2>1, Sequential, Zenon
  <2> QED BY <2>2
<1>2. ASSUME NEW x PROVE IsSeq(<<x>>) /\ Len(<<x>>) = 1 /\ <<x>> # <<>>
  <2>1. <<x>> \in Seq({x})
    OBVIOUS
  <2>2. IsSeq(<<x>>)
    BY <2>1, Sequential, Zenon
  <2> QED BY <2>2
<1>3. ASSUME NEW x, NEW y PROVE IsSeq(<<x, y>>) /\ Len(<<x, y>>) = 2 /\ <<x, y>> # <<>>
  <2>1. <<x, y>> \in Seq({x, y})
    OBVIOUS
  <2>2. IsSeq(<<x, y>>)
    BY <2>1, Sequential, Zenon
  <2> QED BY <2>2
<1>4. ASSUME NEW x, NEW y, NEW z PROVE IsSeq(<<x, y, z>>) /\ Len(<<x, y, z>>) = 3 /\ <<x, y, z>> # <<>>
  <2>1. <<x, y, z>> \in Seq({x, y, z})
    OBVIOUS
  <2>2. IsSeq(<<x, y, z>>)
    BY <2>1, Sequential, Zenon
  <2> QED BY <2>2
<1> QED BY <1>1, <1>2, <1>3, <1>4

---------------------------------------------------------------------------
(* What was so of a log is so of what it grows to.                         *)

(* An activation stays in a log that grows.                                *)
LEMMA PerformedGrows ==
  ASSUME NEW s, NEW t, IsSeq(s), IsSeq(t), IsPrefix(s, t), NEW a, Performed(a, s)
  PROVE  Performed(a, t)
BY Prefixed DEF Performed

(* And so does an approval.                                                *)
LEMMA ApprovedGrows ==
  ASSUME NEW s, NEW t, IsSeq(s), IsSeq(t), IsPrefix(s, t), NEW k, NEW i, Approved(k, i, s)
  PROVE  Approved(k, i, t)
BY Prefixed DEF Approved

(* A document stays sound while the catalog's log grows.                   *)
LEMMA DocKeeps ==
  ASSUME NEW s, NEW t, IsSeq(s), IsSeq(t), IsPrefix(s, t), NEW d, NEW doc, DocOK(d, doc, s)
  PROVE  DocOK(d, doc, t)
<1>1. ASSUME d = "refresh" PROVE Sound(doc.log, t)
  <2>1. Sound(doc.log, s)
    BY <1>1 DEF DocOK
  <2>2. \A a : Performed(a, s) => Performed(a, t)
    BY PerformedGrows
  <2> QED BY <2>1, <2>2 DEF Sound
<1> QED BY <1>1 DEF DocOK

(* A running command does not notice what others do: the directory it has  *)
(* locked is as it was, and the two logs have only grown.                  *)
LEMMA CommandKeeps ==
  ASSUME NEW D, NEW E, NEW x, CommandOK(x, D),
         IsSeq(D["catalog"].doc.log), IsSeq(E["catalog"].doc.log),
         IsPrefix(D["catalog"].doc.log, E["catalog"].doc.log),
         IsSeq(D["refresh"].doc.log), IsSeq(E["refresh"].doc.log),
         IsPrefix(D["refresh"].doc.log, E["refresh"].doc.log),
         x.at = "write" => /\ E[DirOf(Head(x.jobs))].lock = D[DirOf(Head(x.jobs))].lock
                           /\ E[DirOf(Head(x.jobs))].doc = D[DirOf(Head(x.jobs))].doc
  PROVE  CommandOK(x, E)
<1>1. ASSUME NEW i \in DOMAIN x.jobs
      PROVE  JobOK(x.jobs[i], E["refresh"].doc.log)
  <2>1. JobOK(x.jobs[i], D["refresh"].doc.log)
    BY DEF CommandOK
  <2>2. \A k, n : Approved(k, n, D["refresh"].doc.log) => Approved(k, n, E["refresh"].doc.log)
    BY ApprovedGrows
  <2> QED BY <2>1, <2>2 DEF JobOK
<1>2. ASSUME x.at = "write" PROVE WritesOK(x, E)
  <2>1. WritesOK(x, D)
    BY <1>2 DEF CommandOK
  <2>2. \A d, doc : DocOK(d, doc, D["catalog"].doc.log) => DocOK(d, doc, E["catalog"].doc.log)
    BY DocKeeps
  <2> QED BY <1>2, <2>1, <2>2 DEF WritesOK
<1>3. MadeOK(x, E)
  <2>1. MadeOK(x, D)
    BY DEF CommandOK
  <2>2. Performed(x.made, D["catalog"].doc.log) => Performed(x.made, E["catalog"].doc.log)
    BY PerformedGrows
  <2> QED BY <2>1, <2>2 DEF MadeOK
<1> QED BY <1>1, <1>2, <1>3 DEF CommandOK

---------------------------------------------------------------------------
(* The operations.  The writes of one, if it is accepted, end with a       *)
(* registry.json that says more than the one that is there.                *)

(* Writes that an operation on directory d may make.                       *)
Fits(d, writes) ==
  /\ IsSeq(writes) /\ (\A i \in DOMAIN writes : IsWrite(writes[i]))
  /\ \A i \in DOMAIN writes : IsRegistry(writes[i]) =>
       /\ i = Len(writes) /\ ~writes[i].once
       /\ Grows(d, dir[d].doc, writes[i].body)
       /\ DocOK(d, writes[i].body, dir["catalog"].doc.log)

(* A write of another file.                                                *)
Plain(w) == ~IsRegistry(w) /\ IsWrite(w)

(* No other file has the name of registry.json.                            *)
LEMMA Names == \A x, y : <<x, y>> # <<"registry.json">>
<1> SUFFICES ASSUME NEW x, NEW y PROVE <<x, y>> # <<"registry.json">>
  OBVIOUS
<1>1. Len(<<x, y>>) = 2 /\ Len(<<"registry.json">>) = 1
  OBVIOUS
<1> QED BY <1>1

(* A row of other files, and a registry.json that grows, fit.              *)
LEMMA WritesFit ==
  ASSUME NEW d
  PROVE  /\ Fits(d, <<>>)
         /\ \A doc : Grows(d, dir[d].doc, doc) /\ DocOK(d, doc, dir["catalog"].doc.log) =>
              /\ Fits(d, <<Registry(doc)>>)
              /\ \A v : Plain(v) => Fits(d, <<v, Registry(doc)>>)
              /\ \A v, w : Plain(v) /\ Plain(w) => Fits(d, <<v, w, Registry(doc)>>)
<1>1. Fits(d, <<>>)
  BY Short DEF Fits
<1>2. ASSUME NEW doc, Grows(d, dir[d].doc, doc), DocOK(d, doc, dir["catalog"].doc.log)
      PROVE  /\ Fits(d, <<Registry(doc)>>)
             /\ \A v : Plain(v) => Fits(d, <<v, Registry(doc)>>)
             /\ \A v, w : Plain(v) /\ Plain(w) => Fits(d, <<v, w, Registry(doc)>>)
  <2>1. PICK r : r = Registry(doc)
    OBVIOUS
  <2>2. r.body = doc /\ r.once = FALSE /\ IsWrite(r)
    BY <2>1 DEF Registry, Replace, IsWrite
  <2>3. Fits(d, <<r>>)
    <3>1. \A i \in DOMAIN <<r>> : i = 1 /\ <<r>>[i] = r
      OBVIOUS
    <3> QED BY <1>2, <2>2, <3>1, Short DEF Fits
  <2>4. ASSUME NEW v, Plain(v) PROVE Fits(d, <<v, r>>)
    <3>1. \A i \in DOMAIN <<v, r>> : (i = 1 /\ <<v, r>>[i] = v) \/ (i = 2 /\ <<v, r>>[i] = r)
      OBVIOUS
    <3> QED BY <1>2, <2>2, <2>4, <3>1, Short DEF Fits, Plain
  <2>5. ASSUME NEW v, NEW w, Plain(v), Plain(w) PROVE Fits(d, <<v, w, r>>)
    <3>1. \A i \in DOMAIN <<v, w, r>> : \/ i = 1 /\ <<v, w, r>>[i] = v
                                        \/ i = 2 /\ <<v, w, r>>[i] = w
                                        \/ i = 3 /\ <<v, w, r>>[i] = r
      OBVIOUS
    <3> QED BY <1>2, <2>2, <2>5, <3>1, Short DEF Fits, Plain
  <2> QED BY <2>1, <2>3, <2>4, <2>5
<1> QED BY <1>1, <1>2

(* The files that have a name of two parts.                                *)
LEMMA PlainWrites ==
  \A x, y, b : Plain(Once(<<x, y>>, b)) /\ Plain(Replace(<<x, y>>, b))
BY Names DEF Plain, IsWrite, IsRegistry, Once, Replace

(* The catalog's registry.json.                                            *)
LEMMA CatalogDoc ==
  ASSUME DirsOK(dir)
  PROVE  /\ DOMAIN dir["catalog"].doc = {"components", "versions", "log", "active"}
         /\ IsSeq(dir["catalog"].doc.log)
         /\ \A v \in dir["catalog"].doc.versions : v.id # NoVersion
BY DEF DirsOK, Dirs, DocOK

(* The refresh registry's registry.json.                                   *)
LEMMA RefreshDoc ==
  ASSUME DirsOK(dir)
  PROVE  /\ DOMAIN dir["refresh"].doc = {"candidates", "log"}
         /\ IsSeq(dir["refresh"].doc.log)
         /\ \A k \in dir["refresh"].doc.candidates : CandidateOK(k)
         /\ Sound(dir["refresh"].doc.log, dir["catalog"].doc.log)
BY DEF DirsOK, Dirs, DocOK

(* The mapping registry's registry.json, once it is there.                 *)
LEMMA MappingDoc ==
  ASSUME DirsOK(dir), dir["mapping"].doc # Absent
  PROVE  IsSeq(dir["mapping"].doc.versions)
BY DEF DirsOK, Dirs, DocOK

(* Initialize of the mapping registry.                                     *)
LEMMA InitFits ==
  ASSUME DirsOK(dir)
  PROVE  Fits("mapping", Initialize("mapping").writes)
<1>1. DocOK("mapping", NoMappings, dir["catalog"].doc.log)
  BY Short DEF DocOK, NoMappings
<1>2. ASSUME dir["mapping"].doc = Absent PROVE Grows("mapping", dir["mapping"].doc, NoMappings)
  BY <1>2 DEF Grows
<1> QED BY <1>1, <1>2, WritesFit DEF Initialize, Yes

(* RegisterComponent.                                                      *)
LEMMA ComponentFits ==
  ASSUME DirsOK(dir), NEW c
  PROVE  Fits("catalog", RegisterComponent(c).writes)
<1>1. PICK doc : doc = dir["catalog"].doc
  OBVIOUS
<1>2. PICK next : next = [doc EXCEPT !.components = @ \cup {c}]
  OBVIOUS
<1>3. DOMAIN next = DOMAIN doc /\ next.log = doc.log /\ next.versions = doc.versions
  BY <1>1, <1>2, CatalogDoc
<1>4. DocOK("catalog", next, dir["catalog"].doc.log) /\ Grows("catalog", doc, next)
  BY <1>1, <1>3, CatalogDoc, PrefixOfItself DEF DocOK, Grows
<1>5. Fits("catalog", <<Once(<<"component", c>>, c), Registry(next)>>)
  BY <1>1, <1>4, WritesFit, PlainWrites
<1>6. Fits("catalog", <<>>)
  BY WritesFit
<1> QED BY <1>1, <1>2, <1>5, <1>6 DEF RegisterComponent, Yes

(* RegisterVersion.                                                        *)
LEMMA VersionFits ==
  ASSUME DirsOK(dir), NEW v, v.id # NoVersion
  PROVE  Fits("catalog", RegisterVersion(v).writes)
<1>1. PICK doc : doc = dir["catalog"].doc
  OBVIOUS
<1>2. PICK next : next = [doc EXCEPT !.versions = @ \cup {v}]
  OBVIOUS
<1>3. DOMAIN next = DOMAIN doc /\ next.log = doc.log /\ next.versions = doc.versions \cup {v}
  BY <1>1, <1>2, CatalogDoc
<1>4. DocOK("catalog", next, dir["catalog"].doc.log) /\ Grows("catalog", doc, next)
  BY <1>1, <1>3, CatalogDoc, PrefixOfItself DEF DocOK, Grows
<1>5. Fits("catalog", <<Once(<<"version", v.id>>, v), Registry(next)>>)
  BY <1>1, <1>4, WritesFit, PlainWrites
<1>6. Fits("catalog", <<>>)
  BY WritesFit
<1> QED BY <1>1, <1>2, <1>5, <1>6 DEF RegisterVersion, Yes, No

(* AddCandidate.                                                           *)
LEMMA CandidateFits ==
  ASSUME DirsOK(dir), NEW k, CandidateOK(k)
  PROVE  Fits("refresh", AddCandidate(k).writes)
<1>1. PICK doc : doc = dir["refresh"].doc
  OBVIOUS
<1>2. PICK next : next = [doc EXCEPT !.candidates = @ \cup {k}]
  OBVIOUS
<1>3. DOMAIN next = DOMAIN doc /\ next.log = doc.log /\ next.candidates = doc.candidates \cup {k}
  BY <1>1, <1>2, RefreshDoc
<1>4. DocOK("refresh", next, dir["catalog"].doc.log) /\ Grows("refresh", doc, next)
  BY <1>1, <1>3, RefreshDoc, PrefixOfItself DEF DocOK, Grows
<1>5. Fits("refresh", <<Once(<<"candidate", k>>, k), Registry(next)>>)
  BY <1>1, <1>4, WritesFit, PlainWrites
<1>6. Fits("refresh", <<>>)
  BY WritesFit
<1> QED BY <1>1, <1>2, <1>5, <1>6 DEF AddCandidate, Yes, No

(* One more write before two.                                               *)
LEMMA Rows == \A x, y, z : <<x>> \o <<y, z>> = <<x, y, z>> /\ <<>> \o <<y, z>> = <<y, z>>
<1> SUFFICES ASSUME NEW x, NEW y, NEW z
             PROVE  <<x>> \o <<y, z>> = <<x, y, z>> /\ <<>> \o <<y, z>> = <<y, z>>
  OBVIOUS
<1>1. PICK S : S = {x, y, z}
  OBVIOUS
<1>2. <<x>> \in Seq(S) /\ <<y, z>> \in Seq(S) /\ <<x, y, z>> \in Seq(S)
  BY <1>1
<1>3. <<>> \o <<y, z>> = <<y, z>>
  BY <1>2, ConcatEmptySeq
<1>4. PICK a, b, c : a = <<x>> /\ b = <<y, z>> /\ c = <<x, y, z>>
  OBVIOUS
<1>5. Len(a) = 1 /\ Len(b) = 2 /\ Len(c) = 3
  BY <1>4
<1>6. a[1] = x /\ b[1] = y /\ b[2] = z /\ c[1] = x /\ c[2] = y /\ c[3] = z
  BY <1>4
<1>7. /\ a \o b \in Seq(S) /\ Len(a \o b) = 3
      /\ \A i \in 1 .. 3 : (a \o b)[i] = IF i <= 1 THEN a[i] ELSE b[i - 1]
  BY <1>2, <1>4, <1>5, ConcatProperties
<1>8. \A i \in 1 .. 3 : (a \o b)[i] = c[i]
  BY <1>6, <1>7
<1>9. a \o b = c
  BY <1>2, <1>4, <1>5, <1>7, <1>8, SeqEqual
<1> QED BY <1>3, <1>4, <1>9

(* Register of a mapping, with or without its key's first file.            *)
LEMMA MappingFits ==
  ASSUME DirsOK(dir), NEW input
  PROVE  Fits("mapping", Register(input).writes)
<1>1. PICK doc : doc = dir["mapping"].doc
  OBVIOUS
<1>2. Fits("mapping", <<>>)
  BY WritesFit
<1>3. ASSUME doc # Absent, NEW v, NEW keys, NEW w
      PROVE  /\ Fits("mapping", <<Once(<<"mapping version", v>>, v),
                     Registry([keys |-> keys, versions |-> Append(doc.versions, w)])>>)
             /\ \A key, k : Fits("mapping", <<Once(<<"mapping", k>>, key), Once(<<"mapping version", v>>, v),
                                              Registry([keys |-> keys, versions |-> Append(doc.versions, w)])>>)
  <2>1. PICK next : next = [keys |-> keys, versions |-> Append(doc.versions, w)]
    OBVIOUS
  <2>2. next.versions = Append(doc.versions, w)
    BY <2>1
  <2>3. DocOK("mapping", next, dir["catalog"].doc.log) /\ Grows("mapping", doc, next)
    BY <1>1, <1>3, <2>2, MappingDoc, Appended DEF DocOK, Grows
  <2> QED BY <1>1, <2>1, <2>3, WritesFit, PlainWrites
<1>4. \A x, y, z : <<x>> \o <<y, z>> = <<x, y, z>> /\ <<>> \o <<y, z>> = <<y, z>>
  BY Rows
<1>5. \/ Register(input).writes = <<>>
      \/ doc # Absent /\ \E v, w, keys, key, new :
           Register(input).writes =
             (IF new THEN <<Once(<<"mapping", input.key>>, key)>> ELSE <<>>)
               \o <<Once(<<"mapping version", v>>, v),
                   Registry([keys |-> keys, versions |-> Append(doc.versions, w)])>>
  <2>1. PICK mine, previous : mine = OfKey(doc.versions, input.key) /\ previous = Previous(doc.versions, input.key)
    OBVIOUS
  <2> QED BY <1>1, <2>1 DEF Register, Yes, No
<1>6. CASE Register(input).writes # <<>>
  <2>1. PICK v, w, keys, key, new :
           Register(input).writes =
             (IF new THEN <<Once(<<"mapping", input.key>>, key)>> ELSE <<>>)
               \o <<Once(<<"mapping version", v>>, v),
                   Registry([keys |-> keys, versions |-> Append(doc.versions, w)])>>
    BY <1>5, <1>6
  <2>2. PICK a, b, c : /\ a = Once(<<"mapping", input.key>>, key) /\ b = Once(<<"mapping version", v>>, v)
                       /\ c = Registry([keys |-> keys, versions |-> Append(doc.versions, w)])
    OBVIOUS
  <2>3. Fits("mapping", <<b, c>>) /\ Fits("mapping", <<a, b, c>>)
    BY <1>3, <1>5, <1>6, <2>2
  <2>4. <<a>> \o <<b, c>> = <<a, b, c>> /\ <<>> \o <<b, c>> = <<b, c>>
    BY <1>4
  <2>5. Register(input).writes = <<a, b, c>> \/ Register(input).writes = <<b, c>>
    BY <2>1, <2>2, <2>4
  <2> QED BY <2>3, <2>5
<1> QED BY <1>2, <1>6

(* Activate: the writes fit, and the activation made is the one that was   *)
(* asked for.                                                              *)
LEMMA ActivateFits ==
  ASSUME DirsOK(dir), NEW c, NEW target, NEW action, NEW expected, NEW at,
         NEW o, o = Activate(c, target, action, expected, at)
  PROVE  /\ Fits("catalog", o.writes)
         /\ o.ok => /\ o.writes # <<>> /\ IsRegistry(o.writes[Len(o.writes)])
                    /\ Performed(o.made, o.writes[Len(o.writes)].body.log)
                    /\ o.made.target = target
                    /\ expected # NoVersion => o.made.previous = expected
<1>1. PICK doc : doc = dir["catalog"].doc
  OBVIOUS
<1>2. /\ Fits("catalog", No.writes) /\ No.ok = FALSE
  BY WritesFit DEF No
<1>3. CASE Activatable(doc, c, target, action, expected)
  <2>1. PICK a : a = [sequence |-> Len(doc.log) + 1, component |-> c, action |-> action, target |-> target,
                      previous |-> findActive(doc, c),
                      epoch |-> IF c \in DOMAIN doc.active THEN doc.active[c].epoch + 1 ELSE 1, at |-> at]
    OBVIOUS
  <2>2. PICK pointer : pointer = [version |-> target, activation |-> a.sequence, epoch |-> a.epoch, at |-> at]
    OBVIOUS
  <2>3. PICK next : next = [doc EXCEPT !.log = Append(@, a), !.active = Put(@, c, pointer)]
    OBVIOUS
  <2>4. o = Yes(ActivationWrites(a, c, pointer, next), a)
    BY <1>1, <1>3, <2>1, <2>2, <2>3 DEF Activate
  <2>5. a.sequence = Len(doc.log) + 1 /\ a.target = target /\ a.previous = findActive(doc, c)
    BY <2>1
  <2>6. DOMAIN next = DOMAIN doc /\ next.log = Append(doc.log, a) /\ next.versions = doc.versions
    BY <1>1, <2>3, CatalogDoc
  <2>7. /\ IsSeq(next.log) /\ IsPrefix(doc.log, next.log) /\ next.log[Len(doc.log) + 1] = a
        /\ DOMAIN next.log = 1 .. Len(doc.log) + 1 /\ Len(doc.log) \in Nat
    BY <1>1, <2>6, CatalogDoc, Appended, SeqFacts
  <2>8. DocOK("catalog", next, dir["catalog"].doc.log) /\ Grows("catalog", doc, next)
    BY <1>1, <2>6, <2>7, CatalogDoc DEF DocOK, Grows
  <2>9. Performed(a, next.log)
    BY <2>5, <2>7 DEF Performed
  <2>10. PICK v, w, r : v = Once(<<"activation", a>>, a) /\ w = Replace(<<"active", c>>, pointer)
                        /\ r = Registry(next)
    OBVIOUS
  <2>11. o.writes = <<v, w, r>> /\ o.made = a
    BY <2>4, <2>10 DEF Yes, ActivationWrites
  <2>12. Fits("catalog", <<v, w, r>>)
    BY <1>1, <2>8, <2>10, WritesFit, PlainWrites
  <2>13. Len(<<v, w, r>>) = 3 /\ <<v, w, r>>[3] = r /\ <<v, w, r>> # <<>>
    BY Short
  <2>14. IsRegistry(r) /\ r.body = next
    BY <2>10 DEF IsRegistry, Registry, Replace
  <2>15. expected # NoVersion => a.previous = expected
    BY <1>3, <2>5 DEF Activatable
  <2> QED BY <2>5, <2>9, <2>11, <2>12, <2>13, <2>14, <2>15
<1>4. CASE ~Activatable(doc, c, target, action, expected)
  <2>1. o = No
    BY <1>1, <1>4 DEF Activate
  <2> QED BY <1>2, <2>1
<1> QED BY <1>3, <1>4

(* A decision or an execution is entered with what it rests on before it.  *)
LEMMA ExtendFits ==
  ASSUME DirsOK(dir), NEW event, "kind" \in DOMAIN event,
         event.kind \in {"promote", "rollback"} =>
           /\ {"candidate", "decision", "activation"} \subseteq DOMAIN event
           /\ Performed(event.activation, dir["catalog"].doc.log)
           /\ event.kind = "promote" =>
                /\ Approved(event.candidate, event.decision, dir["refresh"].doc.log)
                /\ AsAnalyzed(event.activation, event.candidate)
  PROVE  Fits("refresh", Extend(event).writes)
<1>1. PICK doc, log : doc = dir["refresh"].doc /\ log = doc.log
  OBVIOUS
<1>2. PICK e : e = Put(event, "sequence", Len(log) + 1)
  OBVIOUS
<1>3. PICK next : next = [doc EXCEPT !.log = Append(@, e)]
  OBVIOUS
<1>4. \A f \in DOMAIN event : f # "sequence" => e[f] = event[f]
  BY <1>2 DEF Put
<1>5. e.kind = event.kind
  BY <1>4
<1>6. event.kind \in {"promote", "rollback"} =>
        e.candidate = event.candidate /\ e.decision = event.decision /\ e.activation = event.activation
  BY <1>4
<1>7. DOMAIN next = DOMAIN doc /\ next.log = Append(log, e) /\ next.candidates = doc.candidates
  BY <1>1, <1>3, RefreshDoc
<1>8. /\ IsSeq(log) /\ IsSeq(next.log) /\ IsPrefix(log, next.log) /\ Len(log) \in Nat
      /\ DOMAIN log = 1 .. Len(log) /\ DOMAIN next.log = 1 .. Len(log) + 1
      /\ next.log[Len(log) + 1] = e /\ \A i \in 1 .. Len(log) : next.log[i] = log[i]
  BY <1>1, <1>7, RefreshDoc, Appended, SeqFacts
<1>9. \A k, i : Approved(k, i, log) => Approved(k, i, next.log)
  BY <1>8, ApprovedGrows
<1>10. Sound(log, dir["catalog"].doc.log)
  BY <1>1, RefreshDoc
<1>11. ASSUME NEW i \in DOMAIN next.log, next.log[i].kind \in {"promote", "rollback"}
       PROVE  /\ Performed(next.log[i].activation, dir["catalog"].doc.log)
              /\ next.log[i].kind = "promote" =>
                   /\ next.log[i].decision < i
                   /\ Approved(next.log[i].candidate, next.log[i].decision, next.log)
                   /\ AsAnalyzed(next.log[i].activation, next.log[i].candidate)
  <2>1. CASE i \in 1 .. Len(log)
    <3>1. next.log[i] = log[i] /\ i \in DOMAIN log
      BY <1>8, <2>1
    <3>2. /\ Performed(log[i].activation, dir["catalog"].doc.log)
          /\ log[i].kind = "promote" =>
               /\ log[i].decision < i
               /\ Approved(log[i].candidate, log[i].decision, log)
               /\ AsAnalyzed(log[i].activation, log[i].candidate)
      BY <1>10, <1>11, <3>1 DEF Sound
    <3> QED BY <1>9, <3>1, <3>2
  <2>2. CASE i = Len(log) + 1
    <3>1. next.log[i] = e
      BY <1>8, <2>2
    <3>2. e.kind = "promote" => Approved(e.candidate, e.decision, log)
      BY <1>1, <1>5, <1>6
    <3>3. e.kind = "promote" => e.decision \in 1 .. Len(log)
      BY <1>8, <3>2 DEF Approved
    <3>4. e.kind = "promote" => e.decision < i
      BY <1>8, <2>2, <3>3
    <3> QED BY <1>5, <1>6, <1>9, <1>11, <3>1, <3>2, <3>4
  <2> QED BY <1>8, <2>1, <2>2
<1>12. Sound(next.log, dir["catalog"].doc.log)
  BY <1>11 DEF Sound
<1>13. DocOK("refresh", next, dir["catalog"].doc.log) /\ Grows("refresh", doc, next)
  BY <1>1, <1>7, <1>8, <1>12, RefreshDoc DEF DocOK, Grows
<1>14. Fits("refresh", <<Once(<<"event", e>>, e), Registry(next)>>)
  BY <1>1, <1>13, WritesFit, PlainWrites
<1>15. Extend(event).writes = <<Once(<<"event", e>>, e), Registry(next)>>
  BY <1>1, <1>2, <1>3 DEF Extend, Yes
<1> QED BY <1>14, <1>15

(* Decide.                                                                 *)
LEMMA DecideFits ==
  ASSUME DirsOK(dir), NEW k, NEW action \in {"approve", "reject"}, NEW at
  PROVE  Fits("refresh", Decide(k, action, at).writes)
<1>1. PICK event : event = [kind |-> action, candidate |-> k, at |-> at]
  OBVIOUS
<1>2. "kind" \in DOMAIN event /\ event.kind \notin {"promote", "rollback"}
  BY <1>1
<1>3. Fits("refresh", Extend(event).writes)
  BY <1>2, ExtendFits
<1>4. Fits("refresh", No.writes)
  BY WritesFit DEF No
<1> QED BY <1>1, <1>3, <1>4 DEF Decide

(* recordExecution, for an activation that was performed.                  *)
LEMMA ExecuteFits ==
  ASSUME DirsOK(dir), NEW kind, NEW k, NEW decision, NEW a, NEW at,
         Performed(a, dir["catalog"].doc.log),
         kind = "promote" => Approved(k, decision, dir["refresh"].doc.log) /\ AsAnalyzed(a, k)
  PROVE  Fits("refresh", recordExecution(kind, k, decision, a, at).writes)
<1>1. PICK event : event = [kind |-> kind, candidate |-> k, decision |-> decision, activation |-> a, at |-> at]
  OBVIOUS
<1>2. /\ "kind" \in DOMAIN event /\ {"candidate", "decision", "activation"} \subseteq DOMAIN event
      /\ event.kind = kind /\ event.candidate = k /\ event.decision = decision /\ event.activation = a
  BY <1>1
<1>3. Fits("refresh", Extend(event).writes)
  BY <1>2, ExtendFits
<1> QED BY <1>1, <1>3 DEF recordExecution

(* The operations of the jobs.                                             *)
Operations == {"init", "component", "version", "activate", "mapping", "candidate", "decide", "execute"}

(* Whatever the operation, what it is about to write fits the directory it *)
(* has locked, if its job is one that a command may have.                  *)
LEMMA OperationFits ==
  ASSUME DirsOK(dir), NEW job, NEW made, JobOK(job, dir["refresh"].doc.log),
         job.op = "execute" => /\ Performed(made, dir["catalog"].doc.log)
                               /\ job.action = "promote" => AsAnalyzed(made, job.k)
  PROVE  /\ DirOf(job) \in Dirs
         /\ Fits(DirOf(job), Operation(job, made).writes)
         /\ Operation(job, made).ok /\ job.op = "activate" =>
              LET o == Operation(job, made) IN
              /\ o.writes # <<>> /\ IsRegistry(o.writes[Len(o.writes)])
              /\ Performed(o.made, o.writes[Len(o.writes)].body.log)
              /\ o.made.target = job.target
              /\ job.expected # NoVersion => o.made.previous = job.expected
<1>1. job.op \in Operations
  BY DEF JobOK, Operations
<1>2. CASE job.op = "init"
  <2>1. DirOf(job) = "mapping" /\ Operation(job, made) = Initialize("mapping")
    BY <1>2 DEF DirOf, Operation
  <2> QED BY <1>2, <2>1, InitFits DEF Dirs
<1>3. CASE job.op = "component"
  <2>1. DirOf(job) = "catalog" /\ Operation(job, made) = RegisterComponent(job.c)
    BY <1>3 DEF DirOf, Operation
  <2> QED BY <1>3, <2>1, ComponentFits DEF Dirs
<1>4. CASE job.op = "version"
  <2>1. DirOf(job) = "catalog" /\ Operation(job, made) = RegisterVersion(job.v)
    BY <1>4 DEF DirOf, Operation
  <2>2. job.v.id # NoVersion
    BY <1>4 DEF JobOK
  <2> QED BY <1>4, <2>1, <2>2, VersionFits DEF Dirs
<1>5. CASE job.op = "activate"
  <2>1. DirOf(job) = "catalog"
        /\ Operation(job, made) = Activate(job.c, job.target, job.action, job.expected, job.time)
    BY <1>5 DEF DirOf, Operation
  <2> QED BY <1>5, <2>1, ActivateFits DEF Dirs
<1>6. CASE job.op = "mapping"
  <2>1. DirOf(job) = "mapping" /\ Operation(job, made) = Register(job.input)
    BY <1>6 DEF DirOf, Operation
  <2> QED BY <1>6, <2>1, MappingFits DEF Dirs
<1>7. CASE job.op = "candidate"
  <2>1. DirOf(job) = "refresh" /\ Operation(job, made) = AddCandidate(job.k)
    BY <1>7 DEF DirOf, Operation
  <2>2. CandidateOK(job.k)
    BY <1>7 DEF JobOK
  <2> QED BY <1>7, <2>1, <2>2, CandidateFits DEF Dirs
<1>8. CASE job.op = "decide"
  <2>1. DirOf(job) = "refresh" /\ Operation(job, made) = Decide(job.k, job.action, job.time)
    BY <1>8 DEF DirOf, Operation
  <2>2. job.action \in {"approve", "reject"}
    BY <1>8 DEF JobOK
  <2> QED BY <1>8, <2>1, <2>2, DecideFits DEF Dirs
<1>9. CASE job.op = "execute"
  <2>1. DirOf(job) = "refresh"
        /\ Operation(job, made) = recordExecution(job.action, job.k, job.decision, made, job.time)
    BY <1>9 DEF DirOf, Operation
  <2>2. job.action = "promote" => Approved(job.k, job.decision, dir["refresh"].doc.log)
    BY <1>9 DEF JobOK
  <2> QED BY <1>9, <2>1, <2>2, ExecuteFits DEF Dirs
<1> QED BY <1>1, <1>2, <1>3, <1>4, <1>5, <1>6, <1>7, <1>8, <1>9 DEF Operations

---------------------------------------------------------------------------
(* The greatest of some of the first n numbers.                            *)
LEMMA GreatestOf ==
  ASSUME NEW n \in Nat, NEW S, S \subseteq 1 .. n, S # {}
  PROVE  \E m \in S : \A j \in S : j <= m
<1> DEFINE Less == {p \in Nat \X Nat : p[1] < p[2]}
           Gaps == {n - i : i \in S}
<1>1. IsWellFoundedOn(Less, Nat)
  BY NatLessThanWellFounded DEF OpToRel
<1>2. Gaps \subseteq Nat /\ Gaps # {}
  <2>1. \A i \in S : n - i \in Nat
    OBVIOUS
  <2> QED BY <2>1
<1> HIDE DEF Less, Gaps
<1>3. PICK g \in Gaps : \A h \in Gaps : <<h, g>> \notin Less
  BY <1>1, <1>2, WFMin
<1> USE DEF Less
<1>4. \A h \in Gaps : ~ (h < g)
  BY <1>2, <1>3
<1> USE DEF Gaps
<1>5. PICK m \in S : g = n - m
  OBVIOUS
<1>6. ASSUME NEW j \in S PROVE j <= m
  <2>1. n - j \in Gaps
    OBVIOUS
  <2>2. ~ (n - j < n - m)
    BY <1>4, <1>5, <2>1
  <2>3. j \in Nat /\ m \in Nat
    OBVIOUS
  <2> QED BY <2>2, <2>3
<1> QED BY <1>6

(* The decision that a promotion takes up is one about its candidate.      *)
LEMMA LatestIs ==
  ASSUME NEW doc, IsSeq(doc.log), NEW k, latestDecision(doc, k) # 0
  PROVE  /\ latestDecision(doc, k) \in DOMAIN doc.log
         /\ doc.log[latestDecision(doc, k)].candidate = k
<1> DEFINE mine == {i \in DOMAIN doc.log : doc.log[i].kind \in {"approve", "reject"}
                                           /\ doc.log[i].candidate = k}
<1>1. Len(doc.log) \in Nat /\ DOMAIN doc.log = 1 .. Len(doc.log)
  BY SeqFacts
<1>2. latestDecision(doc, k) = IF mine = {} THEN 0 ELSE CHOOSE i \in mine : \A j \in mine : j <= i
  BY DEF latestDecision
<1>3. mine # {} /\ mine \subseteq 1 .. Len(doc.log)
  BY <1>1, <1>2
<1>4. \E i \in mine : \A j \in mine : j <= i
  <2> HIDE DEF mine
  <2> QED BY <1>1, <1>3, GreatestOf
<1>5. latestDecision(doc, k) \in mine
  <2> HIDE DEF mine
  <2> QED BY <1>2, <1>3, <1>4
<1> QED BY <1>5

(* What Analyze accepts names the version that is to be replaced.          *)
LEMMA CandidateNamed ==
  ASSUME NEW x \in Analyses, NEW active, NEW mappings, NEW at,
         \A c \in DOMAIN active : active[c].id # NoVersion,
         ~Candidate(x, active, mappings, at).refused
  PROVE  CandidateOK(Candidate(x, active, mappings, at))
<1>1. PICK k : k = Candidate(x, active, mappings, at)
  OBVIOUS
<1>2. PICK target, ref, changes, impacts, violations :
        /\ x.component \in DOMAIN active /\ target = active[x.component]
        /\ k = [refused |-> FALSE, component |-> x.component, expected |-> target.id, ref |-> ref,
                provider |-> x.candidate.provider,
                status |-> IF violations = {} THEN "ready" ELSE "blocked", violations |-> violations,
                policy |-> x.policy, inventories |-> <<x.previous, x.candidate>>, changes |-> changes, impacts |-> impacts, at |-> at,
                part |-> IF ref \in DOMAIN x.candidate.parts THEN x.candidate.parts[ref]
                         ELSE [content |-> "none", count |-> 0]]
  <2>1. Refused.refused
    BY DEF Refused
  <2>2. k # Refused
    <3>1. ~k.refused
      BY <1>1
    <3> QED BY <2>1, <3>1
  <2>3. PICK target, ref : target = active[x.component] /\ ref = TargetRef(target, x.renames)
    OBVIOUS
  <2>4. PICK changes, impacts : changes = Changes(x.previous, x.candidate, x.renames) /\ impacts = Impacts(x.previous, x.candidate, x.renames, active, mappings, at)
    OBVIOUS
  <2>5. PICK violations : violations = Violations(x.policy, x.previous, x.candidate, x.renames, impacts, target)
    OBVIOUS
  <2>6. x.component \in DOMAIN active
    BY <1>1, <2>2 DEF Candidate, Analyze
  <2>7. k = [refused |-> FALSE, component |-> x.component, expected |-> target.id, ref |-> ref,
             provider |-> x.candidate.provider,
             status |-> IF violations = {} THEN "ready" ELSE "blocked", violations |-> violations,
             policy |-> x.policy, inventories |-> <<x.previous, x.candidate>>, changes |-> changes, impacts |-> impacts, at |-> at,
             part |-> IF ref \in DOMAIN x.candidate.parts THEN x.candidate.parts[ref]
                      ELSE [content |-> "none", count |-> 0]]
    BY <1>1, <2>2, <2>3, <2>4, <2>5 DEF Candidate, Analyze
  <2> QED BY <2>3, <2>6, <2>7
<1>3. k.expected # NoVersion
  BY <1>2
<1>4. ASSUME k.part.count >= 1
      PROVE  <<k.component, k.part.content>> # NoVersion
  <2>1. CASE ref \in DOMAIN x.candidate.parts
    <3>1. k.component = x.component /\ k.part = x.candidate.parts[ref]
      BY <1>2, <2>1
    <3> QED BY <2>1, <3>1, CatalogAssumption
  <2>2. CASE ref \notin DOMAIN x.candidate.parts
    <3>1. k.part.count = 0
      BY <1>2, <2>2
    <3> QED BY <1>4, <3>1
  <2> QED BY <2>1, <2>2
<1> QED BY <1>1, <1>3, <1>4 DEF CandidateOK

(* The active versions of a registry that loads are versions of it.        *)
LEMMA ActiveNamed ==
  ASSUME DirsOK(dir), Loaded
  PROVE  LET active == ActiveVersions(dir["catalog"].doc) IN
         \A c \in DOMAIN active : active[c].id # NoVersion
<1>1. PICK doc : doc = dir["catalog"].doc
  OBVIOUS
<1>2. SUFFICES ASSUME NEW c \in DOMAIN ActiveVersions(doc)
               PROVE  ActiveVersions(doc)[c].id # NoVersion
  BY <1>1
<1>3. c \in DOMAIN doc.active /\ ActiveVersions(doc)[c] = versionOf(doc, doc.active[c].version)
  BY DEF ActiveVersions
<1>4. ValidateCatalog(doc)
  BY <1>1 DEF Loaded, VerifyCatalog
<1>5. PICK i \in DOMAIN doc.log : doc.active[c].version = doc.log[i].target
  <2>1. PICK i \in DOMAIN doc.log :
          doc.active[c] = [version |-> doc.log[i].target, activation |-> i,
                           epoch |-> doc.log[i].epoch, at |-> doc.log[i].at]
    BY <1>3, <1>4 DEF ValidateCatalog
  <2> QED BY <2>1
<1>6. \E v \in doc.versions : v.id = doc.log[i].target
  BY <1>4 DEF ValidateCatalog, ValidateActivation
<1>7. versionOf(doc, doc.active[c].version) \in doc.versions
  BY <1>5, <1>6 DEF versionOf
<1> QED BY <1>1, <1>3, <1>7, CatalogDoc

---------------------------------------------------------------------------
(* The commands, as they start.                                            *)

(* The jobs a command may start with.                                      *)
JobsOK(jobs) ==
  /\ IsSeq(jobs) /\ jobs # <<>> /\ Head(jobs).op # "execute"
  /\ \A i \in DOMAIN jobs : JobOK(jobs[i], dir["refresh"].doc.log)
  /\ \A i \in 2 .. Len(jobs) : Follows(jobs[i - 1], jobs[i])

(* A command that starts keeps the invariant.                              *)
LEMMA StartOK ==
  ASSUME RegistryInv, NEW jobs, JobsOK(jobs), Start(jobs)
  PROVE  RegistryInv'
<1>1. PICK x : x = [at |-> "lock", jobs |-> jobs, todo |-> <<>>, made |-> <<>>]
  OBVIOUS
<1>2. cmd' = Append(cmd, x) /\ dir' = dir
  BY <1>1 DEF Start
<1>3. DOMAIN x = {"at", "jobs", "todo", "made"} /\ x.at = "lock" /\ x.jobs = jobs /\ x.todo = <<>>
  BY <1>1
<1>4. CommandOK(x, dir)
  <2>1. MadeOK(x, dir)
    BY <1>3 DEF MadeOK, JobsOK
  <2> QED BY <1>3, <2>1 DEF CommandOK, JobsOK
<1>5. /\ IsSeq(cmd') /\ Len(cmd) \in Nat /\ DOMAIN cmd = 1 .. Len(cmd)
      /\ DOMAIN cmd' = 1 .. Len(cmd) + 1
      /\ cmd'[Len(cmd) + 1] = x /\ \A i \in 1 .. Len(cmd) : cmd'[i] = cmd[i]
  BY <1>2, Appended, SeqFacts DEF RegistryInv
<1>6. \A c \in DOMAIN cmd' : c \in DOMAIN cmd \/ c = Len(cmd) + 1
  BY <1>5
<1>7. \A c \in DOMAIN cmd' : CommandOK(cmd'[c], dir')
  BY <1>2, <1>4, <1>5, <1>6 DEF RegistryInv
<1>8. Exclusive'
  BY <1>3, <1>5, <1>6 DEF RegistryInv, Exclusive
<1> QED BY <1>2, <1>5, <1>7, <1>8 DEF RegistryInv

(* Commands of one, two and three jobs.                                    *)
LEMMA SingleJob ==
  ASSUME NEW job, JobOK(job, dir["refresh"].doc.log), job.op # "execute"
  PROVE  JobsOK(<<job>>)
<1>1. IsSeq(<<job>>) /\ Len(<<job>>) = 1 /\ <<job>> # <<>>
  BY Short
<1>2. Head(<<job>>) = job /\ DOMAIN <<job>> = {1} /\ <<job>>[1] = job
  OBVIOUS
<1> QED BY <1>1, <1>2 DEF JobsOK

LEMMA TwoJobs ==
  ASSUME NEW a, NEW b, JobOK(a, dir["refresh"].doc.log), JobOK(b, dir["refresh"].doc.log),
         a.op # "execute", Follows(a, b)
  PROVE  JobsOK(<<a, b>>)
<1>1. IsSeq(<<a, b>>) /\ Len(<<a, b>>) = 2 /\ <<a, b>> # <<>>
  BY Short
<1>2. PICK s : s = <<a, b>>
  OBVIOUS
<1>3. Head(s) = a /\ DOMAIN s = {1, 2} /\ s[1] = a /\ s[2] = b
  BY <1>2
<1>4. \A i \in 2 .. Len(s) : i = 2
  BY <1>1, <1>2
<1>5. \A i \in 2 .. Len(s) : Follows(s[i - 1], s[i])
  BY <1>3, <1>4
<1>6. \A i \in DOMAIN s : JobOK(s[i], dir["refresh"].doc.log)
  BY <1>3
<1> QED BY <1>1, <1>2, <1>3, <1>5, <1>6 DEF JobsOK

LEMMA ThreeJobs ==
  ASSUME NEW a, NEW b, NEW c, JobOK(a, dir["refresh"].doc.log), JobOK(b, dir["refresh"].doc.log),
         JobOK(c, dir["refresh"].doc.log), a.op # "execute", Follows(a, b), Follows(b, c)
  PROVE  JobsOK(<<a, b, c>>)
<1>1. IsSeq(<<a, b, c>>) /\ Len(<<a, b, c>>) = 3 /\ <<a, b, c>> # <<>>
  BY Short
<1>2. PICK s : s = <<a, b, c>>
  OBVIOUS
<1>3. Head(s) = a /\ DOMAIN s = {1, 2, 3} /\ s[1] = a /\ s[2] = b /\ s[3] = c
  BY <1>2
<1>4. \A i \in 2 .. Len(s) : (i = 2 /\ i - 1 = 1) \/ (i = 3 /\ i - 1 = 2)
  BY <1>1, <1>2
<1>5. \A i \in 2 .. Len(s) : Follows(s[i - 1], s[i])
  BY <1>3, <1>4
<1>6. \A i \in DOMAIN s : JobOK(s[i], dir["refresh"].doc.log)
  BY <1>3
<1> QED BY <1>1, <1>2, <1>3, <1>5, <1>6 DEF JobsOK

(* An activation may be asked for at any time.                             *)
LEMMA ActivateJobOK ==
  ASSUME NEW c, NEW target, NEW action, NEW expected, NEW at, NEW log
  PROVE  LET job == ActivateJob(c, target, action, expected, at) IN
         JobOK(job, log) /\ job.op = "activate" /\ job.expected = expected /\ job.target = target
BY DEF ActivateJob, JobOK

(* The commands of catalog-registry, alert-list-mapping and provider-      *)
(* refresh start with such jobs.                                           *)
LEMMA StartCatalogOK == ASSUME RegistryInv, StartCatalog PROVE RegistryInv'
<1>1. ASSUME NEW job \in ComponentJobs, Start(<<job>>) PROVE RegistryInv'
  <2>1. JobOK(job, dir["refresh"].doc.log) /\ job.op # "execute"
    BY DEF ComponentJobs, JobOK
  <2> QED BY <1>1, <2>1, SingleJob, StartOK
<1>2. ASSUME NEW job \in VersionJobs, Start(<<job>>) PROVE RegistryInv'
  <2>1. JobOK(job, dir["refresh"].doc.log) /\ job.op # "execute"
    BY CatalogAssumption DEF VersionJobs, JobOK
  <2> QED BY <1>2, <2>1, SingleJob, StartOK
<1>3. ASSUME NEW v \in dir["catalog"].doc.versions, NEW action,
             Start(<<ActivateJob(v.component, v.id, action, NoVersion, Now)>>)
      PROVE  RegistryInv'
  <2>1. PICK job : job = ActivateJob(v.component, v.id, action, NoVersion, Now)
    OBVIOUS
  <2>2. JobOK(job, dir["refresh"].doc.log) /\ job.op # "execute"
    BY <2>1, ActivateJobOK
  <2> QED BY <1>3, <2>1, <2>2, SingleJob, StartOK
<1> QED BY <1>1, <1>2, <1>3 DEF StartCatalog

LEMMA StartMappingOK == ASSUME RegistryInv, StartMapping PROVE RegistryInv'
<1>1. ASSUME Start(<<[op |-> "init"]>>) PROVE RegistryInv'
  <2>1. PICK job : job = [op |-> "init"]
    OBVIOUS
  <2>2. JobOK(job, dir["refresh"].doc.log) /\ job.op # "execute"
    BY <2>1 DEF JobOK
  <2> QED BY <1>1, <2>1, <2>2, SingleJob, StartOK
<1>2. ASSUME NEW job \in MappingJobs, Start(<<job>>) PROVE RegistryInv'
  <2>1. JobOK(job, dir["refresh"].doc.log) /\ job.op # "execute"
    BY DEF MappingJobs, JobOK
  <2> QED BY <1>2, <2>1, SingleJob, StartOK
<1> QED BY <1>1, <1>2 DEF StartMapping

LEMMA StartAnalyzeOK == ASSUME RegistryInv, StartAnalyze PROVE RegistryInv'
<1>1. PICK x, at, k :
        /\ x \in Analyses /\ k = Candidate(x, ActiveVersions(dir["catalog"].doc), ToSet(dir["mapping"].doc.versions), at)
        /\ Loaded /\ ~k.refused /\ Start(<<[op |-> "candidate", k |-> k]>>)
  BY DEF StartAnalyze
<1>2. CandidateOK(k)
  <2>1. PICK active : active = ActiveVersions(dir["catalog"].doc)
    OBVIOUS
  <2>2. \A c \in DOMAIN active : active[c].id # NoVersion
    BY <1>1, <2>1, ActiveNamed DEF RegistryInv
  <2> QED BY <1>1, <2>1, <2>2, CandidateNamed
<1>3. PICK job : job = [op |-> "candidate", k |-> k]
  OBVIOUS
<1>4. JobOK(job, dir["refresh"].doc.log) /\ job.op # "execute"
  BY <1>2, <1>3 DEF JobOK
<1> QED BY <1>1, <1>3, <1>4, SingleJob, StartOK

LEMMA StartDecideOK == ASSUME RegistryInv, StartDecide PROVE RegistryInv'
<1>1. PICK k \in dir["refresh"].doc.candidates, action \in {"approve", "reject"} :
        Start(<<[op |-> "decide", k |-> k, action |-> action, time |-> 1]>>)
  BY DEF StartDecide
<1>2. PICK job : job = [op |-> "decide", k |-> k, action |-> action, time |-> 1]
  OBVIOUS
<1>3. JobOK(job, dir["refresh"].doc.log) /\ job.op # "execute"
  BY <1>2 DEF JobOK
<1> QED BY <1>1, <1>2, <1>3, SingleJob, StartOK

LEMMA StartPromoteOK == ASSUME RegistryInv, StartPromote PROVE RegistryInv'
<1>1. PICK doc : doc = dir["refresh"].doc
  OBVIOUS
<1>2. PICK k, at, v :
        /\ k \in doc.candidates /\ at \in Times /\ v = BuildVersion(k.component, k.provider, k.ref, k.part, at)
        /\ Promotable(doc, k) /\ k.part.count >= 1
        /\ Start(<<[op |-> "version", v |-> v],
                   ActivateJob(k.component, v.id, "activate", k.expected, at),
                   [op |-> "execute", action |-> "promote", k |-> k,
                    decision |-> latestDecision(doc, k), time |-> at]>>)
  BY <1>1 DEF StartPromote
<1>3. IsSeq(doc.log) /\ CandidateOK(k)
  BY <1>1, <1>2, RefreshDoc DEF RegistryInv
<1>4. v.id = <<k.component, k.part.content>> /\ v.id # NoVersion
  BY <1>2, <1>3 DEF BuildVersion, CandidateOK
<1>5. Approved(k, latestDecision(doc, k), doc.log)
  BY <1>2, <1>3, LatestIs DEF Promotable, Approved
<1>6. PICK a, b, c :
        /\ a = [op |-> "version", v |-> v]
        /\ b = ActivateJob(k.component, v.id, "activate", k.expected, at)
        /\ c = [op |-> "execute", action |-> "promote", k |-> k,
                decision |-> latestDecision(doc, k), time |-> at]
  OBVIOUS
<1>7. JobOK(a, doc.log) /\ a.op = "version"
  BY <1>4, <1>6 DEF JobOK
<1>8. JobOK(b, doc.log) /\ b.op = "activate" /\ b.expected = k.expected /\ b.target = v.id
  BY <1>6, ActivateJobOK
<1>9. /\ c.op = "execute" /\ c.action = "promote" /\ c.k = k /\ c.decision = latestDecision(doc, k)
  BY <1>6
<1>10. JobOK(c, doc.log)
  BY <1>3, <1>5, <1>9 DEF JobOK, CandidateOK
<1>11. Follows(a, b) /\ Follows(b, c)
  BY <1>4, <1>8, <1>9 DEF Follows
<1>12. JobsOK(<<a, b, c>>)
  BY <1>1, <1>7, <1>8, <1>10, <1>11, ThreeJobs
<1> QED BY <1>2, <1>6, <1>12, StartOK

LEMMA StartRollbackOK == ASSUME RegistryInv, StartRollback PROVE RegistryInv'
<1>1. PICK v, e :
        Start(<<ActivateJob(v.component, v.id, "rollback", e, Now),
                [op |-> "execute", action |-> "rollback", k |-> <<>>, decision |-> 0, time |-> Now]>>)
  BY DEF StartRollback
<1>2. PICK a, b :
        /\ a = ActivateJob(v.component, v.id, "rollback", e, Now)
        /\ b = [op |-> "execute", action |-> "rollback", k |-> <<>>, decision |-> 0, time |-> Now]
  OBVIOUS
<1>3. JobOK(a, dir["refresh"].doc.log) /\ a.op = "activate"
  BY <1>2, ActivateJobOK
<1>4. b.op = "execute" /\ b.action = "rollback"
  BY <1>2
<1>5. JobOK(b, dir["refresh"].doc.log)
  BY <1>4 DEF JobOK
<1>6. JobsOK(<<a, b>>)
  BY <1>3, <1>4, <1>5, TwoJobs DEF Follows
<1> QED BY <1>1, <1>2, <1>6, StartOK

---------------------------------------------------------------------------
(* Commands as they run.                                                   *)

(* The directory that a command works on.                                  *)
HeldBy(x) == DirOf(Head(x.jobs))

(* A document that stays has not lost anything.                            *)
LEMMA GrowsItself ==
  ASSUME NEW d, NEW doc, NEW log, DocOK(d, doc, log)
  PROVE  Grows(d, doc, doc)
BY PrefixOfItself DEF DocOK, Grows

(* The first job of a running command.                                     *)
LEMMA JobIn ==
  ASSUME RegistryInv, NEW c \in DOMAIN cmd
  PROVE  /\ CommandOK(cmd[c], dir) /\ IsSeq(cmd[c].jobs) /\ cmd[c].jobs # <<>>
         /\ Head(cmd[c].jobs) = cmd[c].jobs[1] /\ 1 \in DOMAIN cmd[c].jobs
         /\ JobOK(Head(cmd[c].jobs), dir["refresh"].doc.log)
         /\ HeldBy(cmd[c]) \in Dirs
<1>1. PICK jobs : jobs = cmd[c].jobs
  OBVIOUS
<1>2. CommandOK(cmd[c], dir)
  BY DEF RegistryInv
<1>3. IsSeq(jobs) /\ jobs # <<>>
  BY <1>1, <1>2 DEF CommandOK
<1>4. Head(jobs) = jobs[1] /\ Len(jobs) >= 1 /\ Len(jobs) \in Nat /\ DOMAIN jobs = 1 .. Len(jobs)
  BY <1>3, Rest, SeqFacts
<1>5. 1 \in DOMAIN jobs
  BY <1>4
<1>6. JobOK(Head(jobs), dir["refresh"].doc.log)
  BY <1>1, <1>2, <1>4, <1>5 DEF CommandOK
<1>7. DirOf(Head(jobs)) \in Dirs
  BY <1>6 DEF JobOK, DirOf, Dirs
<1> QED BY <1>1, <1>2, <1>3, <1>4, <1>5, <1>6, <1>7 DEF HeldBy

(* The directories after a step: as sound as they were, every registry     *)
(* having grown or stayed, and those that others hold as they were.        *)
DirsGrow(c) ==
  /\ DirsOK(dir')
  /\ \A d \in Dirs : Grows(d, dir[d].doc, dir'[d].doc)
  /\ \A b \in DOMAIN cmd \ {c} : cmd[b].at = "write" =>
       /\ dir'[HeldBy(cmd[b])].lock = dir[HeldBy(cmd[b])].lock
       /\ dir'[HeldBy(cmd[b])].doc = dir[HeldBy(cmd[b])].doc

(* The other commands stay as they should be.                              *)
LEMMA OthersKeep ==
  ASSUME RegistryInv, NEW c, DirsGrow(c), NEW b \in DOMAIN cmd \ {c}
  PROVE  CommandOK(cmd[b], dir')
<1>1. CommandOK(cmd[b], dir)
  BY DEF RegistryInv
<1>2. IsSeq(dir["catalog"].doc.log) /\ IsSeq(dir["refresh"].doc.log)
  BY CatalogDoc, RefreshDoc DEF RegistryInv
<1>3. IsSeq(dir'["catalog"].doc.log) /\ IsSeq(dir'["refresh"].doc.log)
  BY DEF DirsGrow, DirsOK, Dirs, DocOK
<1>4. /\ IsPrefix(dir["catalog"].doc.log, dir'["catalog"].doc.log)
      /\ IsPrefix(dir["refresh"].doc.log, dir'["refresh"].doc.log)
  BY DEF DirsGrow, Dirs, Grows
<1>5. cmd[b].at = "write" =>
        /\ dir'[DirOf(Head(cmd[b].jobs))].lock = dir[DirOf(Head(cmd[b].jobs))].lock
        /\ dir'[DirOf(Head(cmd[b].jobs))].doc = dir[DirOf(Head(cmd[b].jobs))].doc
  BY DEF DirsGrow, HeldBy
<1> QED BY <1>1, <1>2, <1>3, <1>4, <1>5, CommandKeeps

(* A step that leaves the directories alone.                               *)
LEMMA SameDirs ==
  ASSUME RegistryInv, dir' = dir, NEW c
  PROVE  DirsGrow(c)
<1>1. \A d \in Dirs : Grows(d, dir[d].doc, dir[d].doc)
  BY GrowsItself DEF RegistryInv, DirsOK
<1> QED BY <1>1 DEF DirsGrow, RegistryInv

(* Taking and giving back a lock.                                          *)
LEMMA LockSet ==
  ASSUME RegistryInv, NEW d \in Dirs, NEW v, NEW c, dir' = [dir EXCEPT ![d].lock = v],
         \A b \in DOMAIN cmd \ {c} : cmd[b].at = "write" => HeldBy(cmd[b]) # d
  PROVE  DirsGrow(c) /\ dir'[d].lock = v /\ \A e \in Dirs : dir'[e].doc = dir[e].doc
<1>1. DOMAIN dir = Dirs /\ \A e \in Dirs : DOMAIN dir[e] = {"lock", "doc", "files"}
  BY DEF RegistryInv, DirsOK
<1>2. DOMAIN dir' = Dirs /\ \A e \in Dirs : DOMAIN dir'[e] = {"lock", "doc", "files"}
  BY <1>1
<1>3. /\ \A e \in Dirs : dir'[e].doc = dir[e].doc
      /\ \A e \in Dirs \ {d} : dir'[e].lock = dir[e].lock
      /\ dir'[d].lock = v
  BY <1>1
<1>4. DirsOK(dir')
  BY <1>2, <1>3 DEF RegistryInv, DirsOK, Dirs
<1>5. \A e \in Dirs : Grows(e, dir[e].doc, dir'[e].doc)
  BY <1>3, GrowsItself DEF RegistryInv, DirsOK
<1>6. \A b \in DOMAIN cmd \ {c} : cmd[b].at = "write" =>
        /\ dir'[HeldBy(cmd[b])].lock = dir[HeldBy(cmd[b])].lock
        /\ dir'[HeldBy(cmd[b])].doc = dir[HeldBy(cmd[b])].doc
  BY <1>3, JobIn
<1> QED BY <1>3, <1>4, <1>5, <1>6 DEF DirsGrow

(* A write, by the command that holds the lock.                            *)
LEMMA WriteSet ==
  ASSUME RegistryInv, NEW d \in Dirs, NEW w, NEW c, dir' = [dir EXCEPT ![d] = Written(@, w)],
         \A b \in DOMAIN cmd \ {c} : cmd[b].at = "write" => HeldBy(cmd[b]) # d,
         IsRegistry(w) => Grows(d, dir[d].doc, w.body) /\ DocOK(d, w.body, dir["catalog"].doc.log)
  PROVE  /\ DirsGrow(c) /\ dir'[d].lock = dir[d].lock
         /\ IF IsRegistry(w) THEN dir'[d].doc = w.body ELSE dir'[d].doc = dir[d].doc
<1>1. DOMAIN dir = Dirs /\ \A e \in Dirs : DOMAIN dir[e] = {"lock", "doc", "files"}
  BY DEF RegistryInv, DirsOK
<1>2. dir'[d] = Written(dir[d], w) /\ DOMAIN dir' = Dirs /\ \A e \in Dirs \ {d} : dir'[e] = dir[e]
  BY <1>1
<1>3. /\ DOMAIN dir'[d] = {"lock", "doc", "files"} /\ dir'[d].lock = dir[d].lock
      /\ IF IsRegistry(w) THEN dir'[d].doc = w.body ELSE dir'[d].doc = dir[d].doc
  <2>1. CASE IsRegistry(w)
    <3>1. dir'[d] = [dir[d] EXCEPT !.doc = w.body]
      BY <1>2, <2>1 DEF Written, IsRegistry
    <3> QED BY <1>1, <2>1, <3>1
  <2>2. CASE ~IsRegistry(w)
    <3>1. dir'[d] = [dir[d] EXCEPT !.files = Put(@, w.name, w.body)]
      BY <1>2, <2>2 DEF Written, IsRegistry
    <3> QED BY <1>1, <2>2, <3>1
  <2> QED BY <2>1, <2>2
<1>4. \A e \in Dirs : Grows(e, dir[e].doc, dir[e].doc) /\ DocOK(e, dir[e].doc, dir["catalog"].doc.log)
  BY GrowsItself DEF RegistryInv, DirsOK
<1>5. \A e \in Dirs : /\ Grows(e, dir[e].doc, dir'[e].doc)
                      /\ DocOK(e, dir'[e].doc, dir["catalog"].doc.log)
  BY <1>2, <1>3, <1>4
<1>6. /\ IsSeq(dir["catalog"].doc.log) /\ IsSeq(dir'["catalog"].doc.log)
      /\ IsPrefix(dir["catalog"].doc.log, dir'["catalog"].doc.log)
  BY <1>4, <1>5 DEF Dirs, Grows, DocOK
<1>7. \A e \in Dirs : DocOK(e, dir'[e].doc, dir'["catalog"].doc.log)
  BY <1>5, <1>6, DocKeeps
<1>8. DirsOK(dir')
  <2>1. \A e \in Dirs : DOMAIN dir'[e] = {"lock", "doc", "files"}
    BY <1>1, <1>2, <1>3
  <2> QED BY <1>2, <1>7, <2>1 DEF DirsOK
<1>9. \A b \in DOMAIN cmd \ {c} : cmd[b].at = "write" =>
        /\ dir'[HeldBy(cmd[b])].lock = dir[HeldBy(cmd[b])].lock
        /\ dir'[HeldBy(cmd[b])].doc = dir[HeldBy(cmd[b])].doc
  BY <1>2, JobIn
<1> QED BY <1>3, <1>5, <1>8, <1>9 DEF DirsGrow

(* A command ends; ...                                                     *)
LEMMA EndedOK ==
  ASSUME RegistryInv, NEW c \in DOMAIN cmd, DirsGrow(c), cmd' = Ended(c)
  PROVE  RegistryInv'
<1>1. /\ IsSeq(cmd') /\ Len(cmd') = Len(cmd) - 1 /\ Len(cmd) \in Nat /\ DOMAIN cmd = 1 .. Len(cmd)
      /\ \A i \in DOMAIN cmd' : cmd'[i] = cmd[IF i < c THEN i ELSE i + 1]
  BY Removed, SeqFacts DEF RegistryInv, Ended
<1>2. DOMAIN cmd' = 1 .. Len(cmd) - 1 /\ c \in 1 .. Len(cmd)
  BY <1>1, SeqFacts
<1>3. PICK from : from = [i \in DOMAIN cmd' |-> IF i < c THEN i ELSE i + 1]
  OBVIOUS
<1>4. \A i \in DOMAIN cmd' : from[i] \in DOMAIN cmd \ {c}
  BY <1>1, <1>2, <1>3
<1>5. \A i, j \in DOMAIN cmd' : from[i] = from[j] => i = j
  BY <1>2, <1>3
<1>6. \A i \in DOMAIN cmd' : cmd'[i] = cmd[from[i]]
  BY <1>1, <1>3
<1>7. \A i \in DOMAIN cmd' : CommandOK(cmd'[i], dir')
  BY <1>4, <1>6, OthersKeep
<1>8. Exclusive'
  BY <1>4, <1>5, <1>6 DEF RegistryInv, Exclusive
<1> QED BY <1>1, <1>7, <1>8 DEF RegistryInv, DirsGrow

(* ... or goes on, holding no other lock than it held or was free.         *)
LEMMA GoesOnOK ==
  ASSUME RegistryInv, NEW c \in DOMAIN cmd, DirsGrow(c), NEW x, cmd' = [cmd EXCEPT ![c] = x],
         CommandOK(x, dir'),
         x.at = "write" => \A b \in DOMAIN cmd \ {c} : cmd[b].at = "write" => HeldBy(cmd[b]) # HeldBy(x)
  PROVE  RegistryInv'
<1>1. /\ IsSeq(cmd') /\ DOMAIN cmd' = DOMAIN cmd /\ cmd'[c] = x
      /\ \A i \in DOMAIN cmd \ {c} : cmd'[i] = cmd[i]
  BY Exchanged DEF RegistryInv
<1>2. \A i \in DOMAIN cmd' : CommandOK(cmd'[i], dir')
  BY <1>1, OthersKeep
<1>3. Exclusive'
  BY <1>1 DEF RegistryInv, Exclusive, HeldBy
<1> QED BY <1>1, <1>2, <1>3 DEF RegistryInv, DirsGrow

(* Nobody else works on a directory whose lock was free, or is held.       *)
LEMMA OthersElsewhere ==
  ASSUME RegistryInv, NEW c \in DOMAIN cmd, NEW d,
         (cmd[c].at = "write" /\ HeldBy(cmd[c]) = d) \/ ~dir[d].lock
  PROVE  \A b \in DOMAIN cmd \ {c} : cmd[b].at = "write" => HeldBy(cmd[b]) # d
<1>1. \A b \in DOMAIN cmd : cmd[b].at = "write" => dir[HeldBy(cmd[b])].lock
  BY DEF RegistryInv, CommandOK, WritesOK, HeldBy
<1> QED BY <1>1 DEF RegistryInv, Exclusive, HeldBy

(* A job stays right while the log of decisions grows.                     *)
LEMMA JobsKeep ==
  ASSUME RegistryInv, NEW c \in DOMAIN cmd, DirsGrow(c)
  PROVE  \A job : JobOK(job, dir["refresh"].doc.log) => JobOK(job, dir'["refresh"].doc.log)
<1>1. IsSeq(dir["refresh"].doc.log)
  BY RefreshDoc DEF RegistryInv
<1>2. IsSeq(dir'["refresh"].doc.log)
  BY DEF DirsGrow, DirsOK, Dirs, DocOK
<1>3. IsPrefix(dir["refresh"].doc.log, dir'["refresh"].doc.log)
  BY DEF DirsGrow, Dirs, Grows
<1>4. \A k, i : Approved(k, i, dir["refresh"].doc.log) => Approved(k, i, dir'["refresh"].doc.log)
  BY <1>1, <1>2, <1>3, ApprovedGrows
<1> QED BY <1>4 DEF JobOK

(* The record of a command, and what its first two fields may become.      *)
LEMMA CommandFields ==
  ASSUME RegistryInv, NEW c \in DOMAIN cmd
  PROVE  /\ DOMAIN cmd[c] = {"at", "jobs", "todo", "made"} /\ cmd[c].at \in {"lock", "write"}
         /\ \A i \in DOMAIN cmd[c].jobs : JobOK(cmd[c].jobs[i], dir["refresh"].doc.log)
         /\ \A i \in 2 .. Len(cmd[c].jobs) : Follows(cmd[c].jobs[i - 1], cmd[c].jobs[i])
         /\ MadeOK(cmd[c], dir)
         /\ IF cmd[c].at = "write" THEN WritesOK(cmd[c], dir) ELSE cmd[c].todo = <<>>
BY DEF RegistryInv, CommandOK

(* withLock: the operation is refused, or its writes are queued.           *)
LEMMA LockOK ==
  ASSUME RegistryInv, NEW c \in DOMAIN cmd, LockDir(c)
  PROVE  RegistryInv' /\ DirsGrow(c)
<1>1. PICK job, d, o : /\ job = Head(cmd[c].jobs) /\ d = DirOf(job) /\ o = Operation(job, cmd[c].made)
  OBVIOUS
<1>2. cmd[c].at = "lock" /\ d \in Dirs /\ d = HeldBy(cmd[c])
  BY <1>1, JobIn DEF LockDir, HeldBy
<1>3. CASE ~dir[d].lock /\ o.ok
  <2>1. dir' = [dir EXCEPT ![d].lock = TRUE]
    BY <1>1, <1>3 DEF LockDir
  <2>2. cmd' = [cmd EXCEPT ![c].at = "write", ![c].todo = o.writes, ![c].made = o.made]
    BY <1>1, <1>3 DEF LockDir
  <2>3. \A b \in DOMAIN cmd \ {c} : cmd[b].at = "write" => HeldBy(cmd[b]) # d
    BY <1>3, OthersElsewhere
  <2>4. DirsGrow(c) /\ dir'[d].lock = TRUE /\ \A e \in Dirs : dir'[e].doc = dir[e].doc
    BY <1>2, <2>1, <2>3, LockSet
  <2>5. PICK x : x = [cmd[c] EXCEPT !.at = "write", !.todo = o.writes, !.made = o.made]
    OBVIOUS
  <2>6. /\ DOMAIN x = {"at", "jobs", "todo", "made"} /\ x.at = "write" /\ x.jobs = cmd[c].jobs
        /\ x.todo = o.writes /\ x.made = o.made
    BY <2>5, CommandFields
  <2>7. cmd' = [cmd EXCEPT ![c] = x]
    BY <2>2, <2>5
  <2>8. job.op = "execute" =>
          /\ Performed(cmd[c].made, dir["catalog"].doc.log)
          /\ job.action = "promote" => AsAnalyzed(cmd[c].made, job.k)
    BY <1>1, <1>2, CommandFields DEF MadeOK
  <2>9. JobOK(job, dir["refresh"].doc.log) /\ DirsOK(dir)
    BY <1>1, JobIn DEF RegistryInv
  <2>10. /\ Fits(d, o.writes)
         /\ job.op = "activate" =>
              /\ o.writes # <<>> /\ IsRegistry(o.writes[Len(o.writes)])
              /\ Performed(o.made, o.writes[Len(o.writes)].body.log)
              /\ o.made.target = job.target
              /\ job.expected # NoVersion => o.made.previous = job.expected
    BY <1>1, <1>3, <2>8, <2>9, OperationFits
  <2>11. "catalog" \in Dirs
    BY DEF Dirs
  <2>12. WritesOK(x, dir')
    BY <1>1, <1>2, <2>4, <2>6, <2>10, <2>11 DEF WritesOK, Fits
  <2>13. MadeOK(x, dir')
    BY <1>1, <2>6, <2>10 DEF MadeOK
  <2>14. CommandOK(x, dir')
    <3>1. IsSeq(x.jobs) /\ x.jobs # <<>>
      BY <2>6, JobIn
    <3>2. \A i \in DOMAIN x.jobs : JobOK(x.jobs[i], dir'["refresh"].doc.log)
      BY <2>4, <2>6, CommandFields, JobsKeep
    <3>3. \A i \in 2 .. Len(x.jobs) : Follows(x.jobs[i - 1], x.jobs[i])
      BY <2>6, CommandFields
    <3> QED BY <2>6, <2>12, <2>13, <3>1, <3>2, <3>3 DEF CommandOK
  <2>15. HeldBy(x) = d
    BY <1>1, <2>6 DEF HeldBy
  <2> QED BY <2>3, <2>4, <2>7, <2>14, <2>15, GoesOnOK
<1>4. CASE ~(~dir[d].lock /\ o.ok)
  <2>1. dir' = dir /\ cmd' = Ended(c)
    BY <1>1, <1>4 DEF LockDir
  <2> QED BY <2>1, SameDirs, EndedOK
<1> QED BY <1>3, <1>4

(* One of the writes, or the collision that ends the command.              *)
LEMMA WriteOK ==
  ASSUME RegistryInv, NEW c \in DOMAIN cmd, WriteNext(c)
  PROVE  RegistryInv' /\ DirsGrow(c)
<1>1. PICK d, w, todo : d = DirOf(Head(cmd[c].jobs)) /\ w = Head(cmd[c].todo) /\ todo = cmd[c].todo
  OBVIOUS
<1>2. /\ cmd[c].at = "write" /\ todo # <<>> /\ d = HeldBy(cmd[c]) /\ d \in Dirs
      /\ WritesOK(cmd[c], dir)
  BY <1>1, JobIn, CommandFields DEF WriteNext, HeldBy
<1>3. IsSeq(todo) /\ dir[d].lock
  BY <1>1, <1>2 DEF WritesOK
<1>4. /\ IsSeq(Tail(todo)) /\ Len(Tail(todo)) = Len(todo) - 1 /\ Len(todo) >= 1 /\ Len(todo) \in Nat
      /\ w = todo[1] /\ (\A i \in 1 .. Len(Tail(todo)) : Tail(todo)[i] = todo[i + 1])
      /\ Tail(todo) = <<>> <=> Len(todo) = 1
      /\ DOMAIN todo = 1 .. Len(todo) /\ DOMAIN Tail(todo) = 1 .. Len(todo) - 1
  BY <1>1, <1>2, <1>3, Rest, SeqFacts
<1>5. \A b \in DOMAIN cmd \ {c} : cmd[b].at = "write" => HeldBy(cmd[b]) # d
  BY <1>2, OthersElsewhere
<1>6. CASE Collides(dir[d], w)
  <2>1. dir' = [dir EXCEPT ![d].lock = FALSE] /\ cmd' = Ended(c)
    BY <1>1, <1>6 DEF WriteNext
  <2> QED BY <1>2, <1>5, <2>1, LockSet, EndedOK
<1>7. CASE ~Collides(dir[d], w)
  <2>1. dir' = [dir EXCEPT ![d] = Written(@, w)] /\ cmd' = [cmd EXCEPT ![c].todo = Tail(@)]
    BY <1>1, <1>7 DEF WriteNext
  <2>2. \A i \in DOMAIN todo : IsWrite(todo[i]) /\
          (IsRegistry(todo[i]) =>
            /\ i = Len(todo) /\ ~todo[i].once /\ Grows(d, dir[d].doc, todo[i].body)
            /\ DocOK(d, todo[i].body, dir["catalog"].doc.log))
    BY <1>1, <1>2 DEF WritesOK
  <2>3. IsRegistry(w) => /\ Len(todo) = 1 /\ Grows(d, dir[d].doc, w.body)
                         /\ DocOK(d, w.body, dir["catalog"].doc.log)
    BY <1>4, <2>2
  <2>4. /\ DirsGrow(c) /\ dir'[d].lock = dir[d].lock
        /\ IF IsRegistry(w) THEN dir'[d].doc = w.body ELSE dir'[d].doc = dir[d].doc
    BY <1>2, <1>5, <2>1, <2>3, WriteSet
  <2>5. PICK x : x = [cmd[c] EXCEPT !.todo = Tail(@)]
    OBVIOUS
  <2>6. /\ DOMAIN x = {"at", "jobs", "todo", "made"} /\ x.at = "write" /\ x.jobs = cmd[c].jobs
        /\ x.todo = Tail(todo) /\ x.made = cmd[c].made
    BY <1>1, <1>2, <2>5, CommandFields
  <2>7. cmd' = [cmd EXCEPT ![c] = x]
    BY <2>1, <2>5
  <2>8. IsSeq(dir["catalog"].doc.log) /\ IsSeq(dir'["catalog"].doc.log)
        /\ IsPrefix(dir["catalog"].doc.log, dir'["catalog"].doc.log)
    BY <2>4, CatalogDoc DEF RegistryInv, DirsGrow, DirsOK, Dirs, DocOK, Grows
  <2>9. WritesOK(x, dir')
    <3>1. ASSUME NEW i \in DOMAIN x.todo
          PROVE  /\ i + 1 \in DOMAIN todo /\ x.todo[i] = todo[i + 1] /\ ~IsRegistry(w)
                 /\ i = Len(x.todo) <=> i + 1 = Len(todo)
      BY <1>4, <2>3, <2>6
    <3>2. ASSUME NEW i \in DOMAIN x.todo
          PROVE  /\ IsWrite(x.todo[i])
                 /\ IsRegistry(x.todo[i]) =>
                      /\ i = Len(x.todo) /\ ~x.todo[i].once /\ Grows(d, dir'[d].doc, x.todo[i].body)
                      /\ DocOK(d, x.todo[i].body, dir'["catalog"].doc.log)
      <4>1. dir'[d].doc = dir[d].doc
        BY <2>4, <3>1
      <4>2. IsWrite(todo[i + 1]) /\
              (IsRegistry(todo[i + 1]) =>
                /\ i + 1 = Len(todo) /\ ~todo[i + 1].once /\ Grows(d, dir[d].doc, todo[i + 1].body)
                /\ DocOK(d, todo[i + 1].body, dir["catalog"].doc.log))
        BY <2>2, <3>1
      <4>3. \A doc : DocOK(d, doc, dir["catalog"].doc.log) => DocOK(d, doc, dir'["catalog"].doc.log)
        BY <2>8, DocKeeps
      <4> QED BY <3>1, <4>1, <4>2, <4>3
    <3>3. IsSeq(x.todo) /\ dir'[d].lock
      BY <1>3, <1>4, <2>4, <2>6
    <3> QED BY <1>1, <2>6, <3>2, <3>3 DEF WritesOK
  <2>10. MadeOK(x, dir')
    <3> SUFFICES ASSUME Head(x.jobs).op = "activate"
                 PROVE  /\ IF x.todo = <<>> THEN Performed(x.made, dir'["catalog"].doc.log)
                           ELSE /\ IsRegistry(x.todo[Len(x.todo)])
                                /\ Performed(x.made, x.todo[Len(x.todo)].body.log)
                        /\ x.made.target = Head(x.jobs).target
                        /\ Head(x.jobs).expected # NoVersion => x.made.previous = Head(x.jobs).expected
      BY <2>6 DEF MadeOK
    <3>1. /\ IsRegistry(todo[Len(todo)]) /\ Performed(cmd[c].made, todo[Len(todo)].body.log)
          /\ cmd[c].made.target = Head(cmd[c].jobs).target
          /\ Head(cmd[c].jobs).expected # NoVersion => cmd[c].made.previous = Head(cmd[c].jobs).expected
      BY <1>1, <1>2, <2>6, CommandFields DEF MadeOK
    <3>2. CASE Len(todo) = 1
      <4>1. x.todo = <<>> /\ IsRegistry(w) /\ Performed(cmd[c].made, w.body.log)
        BY <1>4, <2>6, <3>1, <3>2
      <4>2. d = "catalog"
        BY <1>1, <2>6 DEF DirOf
      <4> QED BY <2>4, <2>6, <3>1, <4>1, <4>2
    <3>3. CASE Len(todo) # 1
      <4>1. x.todo # <<>> /\ x.todo[Len(x.todo)] = todo[Len(todo)]
        BY <1>4, <2>6, <3>3
      <4> QED BY <2>6, <3>1, <4>1
    <3> QED BY <3>2, <3>3
  <2>11. CommandOK(x, dir')
    <3>1. IsSeq(x.jobs) /\ x.jobs # <<>>
      BY <2>6, JobIn
    <3>2. \A i \in DOMAIN x.jobs : JobOK(x.jobs[i], dir'["refresh"].doc.log)
      BY <2>4, <2>6, CommandFields, JobsKeep
    <3>3. \A i \in 2 .. Len(x.jobs) : Follows(x.jobs[i - 1], x.jobs[i])
      BY <2>6, CommandFields
    <3> QED BY <2>6, <2>9, <2>10, <3>1, <3>2, <3>3 DEF CommandOK
  <2>12. HeldBy(x) = d
    BY <1>2, <2>6 DEF HeldBy
  <2> QED BY <1>5, <2>4, <2>7, <2>11, <2>12, GoesOnOK
<1> QED BY <1>6, <1>7

(* The lock is given back, and the next job begins.                        *)
LEMMA UnlockOK ==
  ASSUME RegistryInv, NEW c \in DOMAIN cmd, Unlock(c)
  PROVE  RegistryInv' /\ DirsGrow(c)
<1>1. PICK jobs, d : jobs = cmd[c].jobs /\ d = DirOf(Head(jobs))
  OBVIOUS
<1>2. /\ cmd[c].at = "write" /\ cmd[c].todo = <<>> /\ d = HeldBy(cmd[c]) /\ d \in Dirs
      /\ dir' = [dir EXCEPT ![d].lock = FALSE]
  BY <1>1, JobIn DEF Unlock, HeldBy
<1>3. \A b \in DOMAIN cmd \ {c} : cmd[b].at = "write" => HeldBy(cmd[b]) # d
  BY <1>2, OthersElsewhere
<1>4. DirsGrow(c) /\ \A e \in Dirs : dir'[e].doc = dir[e].doc
  BY <1>2, <1>3, LockSet
<1>5. CASE Tail(jobs) = <<>>
  <2>1. cmd' = Ended(c)
    BY <1>1, <1>5 DEF Unlock
  <2> QED BY <1>4, <2>1, EndedOK
<1>6. CASE Tail(jobs) # <<>>
  <2>1. PICK rest : rest = Tail(jobs)
    OBVIOUS
  <2>2. cmd' = [cmd EXCEPT ![c].at = "lock", ![c].jobs = rest]
    BY <1>1, <1>6, <2>1 DEF Unlock
  <2>3. PICK x : x = [cmd[c] EXCEPT !.at = "lock", !.jobs = rest]
    OBVIOUS
  <2>4. /\ DOMAIN x = {"at", "jobs", "todo", "made"} /\ x.at = "lock" /\ x.jobs = rest
        /\ x.todo = <<>> /\ x.made = cmd[c].made
    BY <1>2, <2>3, CommandFields
  <2>5. cmd' = [cmd EXCEPT ![c] = x]
    BY <2>2, <2>3
  <2>6. IsSeq(jobs) /\ jobs # <<>>
    BY <1>1, JobIn
  <2>7. /\ IsSeq(rest) /\ rest # <<>> /\ Len(rest) = Len(jobs) - 1 /\ Len(jobs) \in Nat /\ Len(jobs) # 1
        /\ DOMAIN jobs = 1 .. Len(jobs) /\ Head(jobs) = jobs[1]
        /\ \A i \in 1 .. Len(rest) : rest[i] = jobs[i + 1]
    BY <1>6, <2>1, <2>6, Rest, SeqFacts
  <2>8. DOMAIN rest = 1 .. Len(rest) /\ Head(rest) = rest[1] /\ Len(rest) >= 1
    BY <2>7, Rest, SeqFacts
  <2>9. /\ \A i \in DOMAIN jobs : JobOK(jobs[i], dir'["refresh"].doc.log)
        /\ \A i \in 2 .. Len(jobs) : Follows(jobs[i - 1], jobs[i])
    BY <1>1, <1>4, CommandFields, JobsKeep
  <2>10. ASSUME NEW i \in DOMAIN rest
         PROVE  JobOK(rest[i], dir'["refresh"].doc.log)
    <3>1. rest[i] = jobs[i + 1] /\ i + 1 \in DOMAIN jobs
      BY <2>7, <2>8
    <3> QED BY <2>9, <3>1
  <2>11. \A i \in 2 .. Len(rest) : Follows(rest[i - 1], rest[i])
    <3> SUFFICES ASSUME NEW i \in 2 .. Len(rest) PROVE Follows(rest[i - 1], rest[i])
      OBVIOUS
    <3>1. rest[i] = jobs[i + 1] /\ rest[i - 1] = jobs[i]
      <4>1. i \in 1 .. Len(rest) /\ i - 1 \in 1 .. Len(rest) /\ (i - 1) + 1 = i
        BY <2>7
      <4> QED BY <2>7, <4>1
    <3>2. i + 1 \in 2 .. Len(jobs) /\ (i + 1) - 1 = i
      BY <2>7
    <3> QED BY <2>9, <3>1, <3>2
  <2>12. MadeOK(x, dir')
    <3> SUFFICES ASSUME Head(rest).op = "execute"
                 PROVE  /\ Performed(x.made, dir'["catalog"].doc.log)
                        /\ Head(rest).action = "promote" => AsAnalyzed(x.made, Head(rest).k)
      BY <2>4 DEF MadeOK
    <3>1. PICK job, next : job = Head(jobs) /\ next = Head(rest)
      OBVIOUS
    <3>2. Follows(job, next) /\ JobOK(next, dir'["refresh"].doc.log)
      <4>1. next = rest[1] /\ rest[1] = jobs[2] /\ job = jobs[1] /\ 2 \in 2 .. Len(jobs) /\ 2 - 1 = 1
            /\ 1 \in DOMAIN rest
        BY <2>7, <2>8, <3>1
      <4> QED BY <2>9, <2>10, <4>1
    <3>3. /\ job.op = "activate"
          /\ next.action = "promote" =>
               /\ job.expected = next.k.expected /\ job.expected # NoVersion
               /\ job.target = <<next.k.component, next.k.part.content>>
      BY <3>1, <3>2 DEF Follows, JobOK
    <3>4. /\ Performed(cmd[c].made, dir["catalog"].doc.log)
          /\ cmd[c].made.target = job.target
          /\ job.expected # NoVersion => cmd[c].made.previous = job.expected
      BY <1>1, <1>2, <3>1, <3>3, CommandFields DEF MadeOK
    <3>5. "catalog" \in Dirs
      BY DEF Dirs
    <3> QED BY <1>4, <2>4, <3>1, <3>3, <3>4, <3>5 DEF AsAnalyzed
  <2>13. CommandOK(x, dir')
    BY <2>4, <2>7, <2>10, <2>11, <2>12 DEF CommandOK
  <2> QED BY <1>4, <2>4, <2>5, <2>13, GoesOnOK
<1> QED BY <1>5, <1>6

(* A stop between two writes, or within one that is not of registry.json.  *)
LEMMA StopOK ==
  ASSUME RegistryInv, NEW c \in DOMAIN cmd, Stop(c)
  PROVE  RegistryInv' /\ DirsGrow(c)
<1>1. cmd' = Ended(c)
  BY DEF Stop
<1>2. CASE dir' = dir
  BY <1>1, <1>2, SameDirs, EndedOK
<1>3. CASE dir' # dir
  <2>1. PICK d, w, t : /\ d = DirOf(Head(cmd[c].jobs)) /\ w = Head(cmd[c].todo)
                       /\ t = [w EXCEPT !.body = Torn]
    OBVIOUS
  <2>2. /\ cmd[c].todo # <<>> /\ w.once /\ d = HeldBy(cmd[c]) /\ d \in Dirs
        /\ dir' = [dir EXCEPT ![d] = Written(@, t)]
    BY <1>3, <2>1, JobIn DEF Stop, HeldBy
  <2>3. cmd[c].at = "write" /\ WritesOK(cmd[c], dir)
    BY <2>2, CommandFields
  <2>4. IsSeq(cmd[c].todo)
    BY <2>3 DEF WritesOK
  <2>5. w = cmd[c].todo[1] /\ 1 \in DOMAIN cmd[c].todo
    BY <2>1, <2>2, <2>4, Rest, SeqFacts
  <2>6. IsWrite(w) /\ ~IsRegistry(w)
    BY <2>2, <2>3, <2>5 DEF WritesOK
  <2>7. ~IsRegistry(t)
    BY <2>1, <2>6 DEF IsWrite, IsRegistry
  <2>8. \A b \in DOMAIN cmd \ {c} : cmd[b].at = "write" => HeldBy(cmd[b]) # d
    BY <2>2, <2>3, OthersElsewhere
  <2>9. DirsGrow(c)
    BY <2>2, <2>7, <2>8, WriteSet
  <2> QED BY <1>1, <2>9, EndedOK
<1> QED BY <1>2, <1>3

(* One step keeps the invariant, and no registry loses anything.           *)
LEMMA StepKeeps ==
  ASSUME RegistryInv, [Next]_vars
  PROVE  RegistryInv' /\ \A d \in Dirs : Grows(d, dir[d].doc, dir'[d].doc)
<1>1. CASE UNCHANGED vars
  <2>1. cmd' = cmd /\ dir' = dir
    BY <1>1 DEF vars
  <2>2. RegistryInv'
    BY <2>1 DEF RegistryInv, Exclusive
  <2> QED BY <2>1, <2>2, SameDirs DEF DirsGrow
<1>2. CASE StartCatalog \/ StartMapping \/ StartAnalyze \/ StartDecide \/ StartPromote \/ StartRollback
  <2>1. dir' = dir
    BY <1>2 DEF StartCatalog, StartMapping, StartAnalyze, StartDecide, StartPromote, StartRollback, Start
  <2>2. RegistryInv'
    BY <1>2, StartCatalogOK, StartMappingOK, StartAnalyzeOK, StartDecideOK, StartPromoteOK, StartRollbackOK
  <2> QED BY <2>1, <2>2, SameDirs DEF DirsGrow
<1>3. ASSUME NEW c \in DOMAIN cmd, LockDir(c) \/ WriteNext(c) \/ Unlock(c) \/ Stop(c)
      PROVE  RegistryInv' /\ DirsGrow(c)
  BY <1>3, LockOK, WriteOK, UnlockOK, StopOK
<1>4. ASSUME NEW d \in Dirs, RemoveLock(d)
      PROVE  RegistryInv' /\ \A e \in Dirs : Grows(e, dir[e].doc, dir'[e].doc)
  <2>1. cmd = <<>> /\ cmd' = cmd /\ dir' = [dir EXCEPT ![d].lock = FALSE]
    BY <1>4 DEF RemoveLock
  <2>2. DOMAIN cmd = {}
    BY <2>1
  <2>3. DirsGrow(0)
    BY <2>1, <2>2, LockSet
  <2>4. RegistryInv'
    BY <2>1, <2>2, <2>3 DEF RegistryInv, Exclusive, DirsGrow
  <2> QED BY <2>3, <2>4 DEF DirsGrow
<1>5. [Next]_vars => \/ UNCHANGED vars
                     \/ StartCatalog \/ StartMapping \/ StartAnalyze \/ StartDecide
                     \/ StartPromote \/ StartRollback
                     \/ \E c \in DOMAIN cmd : LockDir(c) \/ WriteNext(c) \/ Unlock(c) \/ Stop(c)
                     \/ \E d \in Dirs : RemoveLock(d)
  BY DEF Next
<1> QED BY <1>1, <1>2, <1>3, <1>4, <1>5 DEF DirsGrow

---------------------------------------------------------------------------
(* What a sequence of the elements of a set holds.                         *)
LEMMA Listed ==
  ASSUME NEW S, IsFiniteSet(S)
  PROVE  IsSeq(SetToSeq(S)) /\ \A i \in DOMAIN SetToSeq(S) : SetToSeq(S)[i] \in S
<1>1. PICK n, f : n = Cardinality(S) /\ f = SetToSeq(S)
  OBVIOUS
<1>2. n \in Nat /\ ExistsBijection(1 .. n, S)
  BY <1>1, FS_CardinalityType
<1>3. PICK g : g \in Bijection(1 .. n, S)
  BY <1>2 DEF ExistsBijection
<1>4. g \in [1 .. n -> S] /\ IsInjective(g)
  BY <1>3 DEF Bijection, Injection, Surjection, IsInjective
<1>5. f \in [1 .. n -> S]
  BY <1>1, <1>4 DEF SetToSeq
<1>6. f \in Seq(S)
  BY <1>2, <1>5
<1>7. IsSeq(f)
  BY <1>6, Sequential
<1> QED BY <1>1, <1>5, <1>7

(* A function of the places of a sequence is a sequence.                   *)
LEMMA Numbered ==
  ASSUME NEW s, IsSeq(s), NEW f, f = [i \in DOMAIN s |-> f[i]]
  PROVE  IsSeq(f)
<1>1. Len(s) \in Nat /\ DOMAIN s = 1 .. Len(s)
  BY SeqFacts
<1>2. PICK S : S = {f[i] : i \in DOMAIN s}
  OBVIOUS
<1>3. f \in [1 .. Len(s) -> S]
  BY <1>1, <1>2
<1>4. f \in Seq(S)
  BY <1>1, <1>3, SeqDef
<1> QED BY <1>4, Sequential

(* The registries that there are at first.                                 *)
LEMMA InitOK ==
  ASSUME Init
  PROVE  RegistryInv
<1> DEFINE c == Seed.component
           v == BuildVersion(c, Seed.provider, Seed.ref, Seed.part, 1)
           a == [sequence |-> 1, component |-> c, action |-> "activate", target |-> v.id,
                 previous |-> NoVersion, epoch |-> 1, at |-> 1]
           active == [d \in {c} |-> v]
           Known(seeded) == {Candidate(x, active, {}, Now) : x \in seeded}
           Decided(ks) == LET approved == SetToSeq({k \in ks : k.status = "ready"}) IN
                          [i \in DOMAIN approved |->
                             [kind |-> "approve", candidate |-> approved[i], at |-> 1, sequence |-> i]]
           Catalog == [components |-> {c}, versions |-> {v}, log |-> <<a>>,
                       active |-> Put(<<>>, c, [version |-> v.id, activation |-> 1, epoch |-> 1, at |-> 1])]
           CatalogFiles == Put(Put(Put(Put(<<>>, <<"component", c>>, c), <<"version", v.id>>, v),
                               <<"activation", a>>, a),
                               <<"active", c>>, [version |-> v.id, activation |-> 1, epoch |-> 1, at |-> 1])
           RefreshFiles(ks, log) == [n \in {<<"candidate", k>> : k \in ks}
                                           \cup {<<"event", e>> : e \in ToSet(log)} |-> n[2]]
<1>1. PICK seeded \in Analyzed, mappings \in {Absent, NoMappings} :
        dir = [catalog |-> [lock |-> FALSE, doc |-> Catalog, files |-> CatalogFiles],
               mapping |-> [lock |-> FALSE, doc |-> mappings, files |-> <<>>],
               refresh |-> [lock |-> FALSE, doc |-> [candidates |-> Known(seeded),
                                                     log |-> Decided(Known(seeded))],
                            files |-> RefreshFiles(Known(seeded), Decided(Known(seeded)))]]
  BY Zenon DEF Init
<1> HIDE DEF Known, Decided, Catalog, CatalogFiles, RefreshFiles
<1>2. PICK ks, log, catalog, files1, files2 :
        /\ ks = Known(seeded) /\ log = Decided(ks) /\ catalog = Catalog
        /\ files1 = CatalogFiles /\ files2 = RefreshFiles(ks, log)
  OBVIOUS
<1>3. dir = [catalog |-> [lock |-> FALSE, doc |-> catalog, files |-> files1],
              mapping |-> [lock |-> FALSE, doc |-> mappings, files |-> <<>>],
              refresh |-> [lock |-> FALSE, doc |-> [candidates |-> ks, log |-> log], files |-> files2]]
  BY <1>1, <1>2
<1>4. cmd = <<>>
  BY DEF Init
<1>5. v.id # NoVersion
  BY CatalogAssumption DEF BuildVersion
<1>6. DocOK("catalog", catalog, <<a>>)
  BY <1>2, <1>5, Short DEF DocOK, Catalog
<1>7. DocOK("mapping", mappings, <<a>>)
  BY <1>1, Short DEF DocOK, NoMappings
<1>8. /\ IsFiniteSet(seeded) /\ seeded \subseteq Analyses
      /\ \A x \in seeded : ~Candidate(x, active, {}, Now).refused
  BY CatalogAssumption
<1>9. \A k \in ks : CandidateOK(k)
  <2>1. DOMAIN active = {c} /\ active[c] = v
    OBVIOUS
  <2>2. \A d \in DOMAIN active : active[d].id # NoVersion
    BY <1>5, <2>1
  <2>3. \A x \in seeded : CandidateOK(Candidate(x, active, {}, Now))
    BY <1>8, <2>2, CandidateNamed
  <2> QED BY <1>2, <2>3 DEF Known
<1>10. PICK ready, approved : ready = {k \in ks : k.status = "ready"} /\ approved = SetToSeq(ready)
  OBVIOUS
<1>11. IsFiniteSet(ready)
  <2>1. PICK f : f = [x \in seeded |-> Candidate(x, active, {}, Now)]
    OBVIOUS
  <2>2. f \in Surjection(seeded, ks)
    BY <1>2, <2>1 DEF Surjection, Known
  <2>3. IsFiniteSet(ks)
    BY <1>8, <2>2, FS_Surjection
  <2> QED BY <1>10, <2>3, FS_Subset
<1>12. /\ IsSeq(log) /\ DOMAIN log = DOMAIN approved /\ \A i \in DOMAIN approved : approved[i] \in ready
       /\ \A i \in DOMAIN log : log[i] = [kind |-> "approve", candidate |-> approved[i], at |-> 1, sequence |-> i]
  <2>1. log = [i \in DOMAIN approved |-> [kind |-> "approve", candidate |-> approved[i], at |-> 1, sequence |-> i]]
    BY <1>2, <1>10 DEF Decided
  <2>2. IsSeq(approved) /\ \A i \in DOMAIN approved : approved[i] \in ready
    BY <1>10, <1>11, Listed
  <2>3. DOMAIN log = DOMAIN approved /\ log = [i \in DOMAIN approved |-> log[i]]
        /\ \A i \in DOMAIN log : log[i] = [kind |-> "approve", candidate |-> approved[i], at |-> 1, sequence |-> i]
    BY <2>1
  <2>4. IsSeq(log)
    BY <2>2, <2>3, Numbered
  <2> QED BY <2>2, <2>3, <2>4
<1>13. \A i \in DOMAIN log : log[i].kind = "approve"
  BY <1>12
<1>14. DocOK("refresh", [candidates |-> ks, log |-> log], <<a>>)
  BY <1>9, <1>12, <1>13 DEF DocOK, Sound
<1>15. DirsOK(dir)
  <2>1. DOMAIN dir = {"catalog", "mapping", "refresh"}
    BY <1>3
  <2>2. /\ dir["catalog"].doc = catalog /\ dir["mapping"].doc = mappings
        /\ dir["refresh"].doc = [candidates |-> ks, log |-> log] /\ catalog.log = <<a>>
    BY <1>2, <1>3 DEF Catalog
  <2>3. \A d \in {"catalog", "mapping", "refresh"} : DOMAIN dir[d] = {"lock", "doc", "files"}
    BY <1>3
  <2> QED BY <1>6, <1>7, <1>14, <2>1, <2>2, <2>3 DEF DirsOK, Dirs
<1>16. DOMAIN cmd = {}
  BY <1>4
<1> QED BY <1>4, <1>15, <1>16, Short DEF RegistryInv, Exclusive

(***************************************************************************)
(* Whatever commands overlap and wherever they are cut off, the registries *)
(* of activations, mappings and refreshes stay sound, no two commands      *)
(* write one directory, and a command on its way to record an execution    *)
(* has the activation it will name (withLock, Activate, recordExecution).  *)
(***************************************************************************)
THEOREM RegistriesSound == Spec => []RegistryInv
<1>1. Init => RegistryInv
  BY InitOK
<1>2. RegistryInv /\ [Next]_vars => RegistryInv'
  BY StepKeeps
<1> QED BY <1>1, <1>2, PTL DEF Spec

(***************************************************************************)
(* An execution in the refresh registry is an activation of the catalog's  *)
(* own log; a promotion's is of the candidate's content, in the place of   *)
(* the version that was analyzed, and rests on an earlier approval,        *)
(* although Promote checks all this before the first of its three locks.   *)
(***************************************************************************)
THEOREM ExecutionsApproved == Spec => []ExecutedAsApproved
<1>1. RegistryInv => ExecutedAsApproved
  <2> SUFFICES ASSUME RegistryInv PROVE ExecutedAsApproved
    OBVIOUS
  <2>1. PICK log, activations : log = dir["refresh"].doc.log /\ activations = dir["catalog"].doc.log
    OBVIOUS
  <2>2. Sound(log, activations)
    BY <2>1, RefreshDoc DEF RegistryInv
  <2> QED BY <2>1, <2>2 DEF ExecutedAsApproved, Sound, Performed, Approved, AsAnalyzed
<1> QED BY <1>1, RegistriesSound, PTL

(***************************************************************************)
(* No step of any command loses an activation, a version, a decision, an   *)
(* execution, a candidate or a mapping: every registry.json that is        *)
(* written says at least what the one it replaces says.                    *)
(***************************************************************************)
THEOREM HistoryHolds == Spec => HistoryKept
<1> DEFINE Kept ==
      /\ IsPrefix(dir["catalog"].doc.log, dir'["catalog"].doc.log)
      /\ dir["catalog"].doc.versions \subseteq dir'["catalog"].doc.versions
      /\ IsPrefix(dir["refresh"].doc.log, dir'["refresh"].doc.log)
      /\ dir["refresh"].doc.candidates \subseteq dir'["refresh"].doc.candidates
      /\ dir["mapping"].doc # Absent => IsPrefix(dir["mapping"].doc.versions, dir'["mapping"].doc.versions)
<1>1. RegistryInv /\ [Next]_vars => Kept
  <2> SUFFICES ASSUME RegistryInv, [Next]_vars PROVE Kept
    OBVIOUS
  <2>1. \A d \in Dirs : Grows(d, dir[d].doc, dir'[d].doc)
    BY StepKeeps
  <2> QED BY <2>1 DEF Dirs, Grows
<1>2. RegistryInv /\ [Next]_vars => [Kept]_vars
  BY <1>1
<1> QED BY <1>2, RegistriesSound, PTL DEF Spec, HistoryKept

---------------------------------------------------------------------------
(* The files of the registries, and what a stop leaves of them.            *)

(* The lists that mappings are about.                                      *)
Keys == {input.key : input \in Mappings}

(* A file is there, or is among those still to be written.                 *)
Has(files, todo, n, b) ==
  \/ n \in DOMAIN files /\ files[n] = b
  \/ \E i \in DOMAIN todo : todo[i].once /\ todo[i].name = n /\ todo[i].body = b

(* Everything that a registry.json speaks of has its file.                 *)
Filed(d, doc, files, todo) ==
  /\ d = "catalog" =>
       /\ \A c \in doc.components : Has(files, todo, <<"component", c>>, c)
       /\ \A v \in doc.versions : Has(files, todo, <<"version", v.id>>, v)
       /\ \A i \in DOMAIN doc.log : Has(files, todo, <<"activation", doc.log[i]>>, doc.log[i])
  /\ d = "mapping" /\ doc # Absent =>
       /\ \A i \in DOMAIN doc.versions : Has(files, todo, <<"mapping version", doc.versions[i]>>, doc.versions[i])
       /\ \A k \in doc.keys : Has(files, todo, <<"mapping", k.key>>, k)
  /\ d = "refresh" =>
       /\ \A k \in doc.candidates : Has(files, todo, <<"candidate", k>>, k)
       /\ \A i \in DOMAIN doc.log : Has(files, todo, <<"event", doc.log[i]>>, doc.log[i])

(* The catalog: what is active is the component's latest activation.       *)
ValidCatalog(doc) ==
  /\ ValidateCatalog(doc)
  /\ \A i \in DOMAIN doc.log :
       /\ doc.log[i].component \in DOMAIN doc.active
       /\ i <= doc.active[doc.log[i].component].activation

(* The mappings: every list's versions advance in time.                    *)
ValidMapping(doc, catalog) ==
  /\ DOMAIN doc = {"keys", "versions"}
  /\ \A i \in DOMAIN doc.versions :
       LET v == doc.versions[i] IN
       /\ ValidateVersion(doc, i, catalog)
       /\ v.key \in Keys /\ v.from \in Int /\ v.to \in Int /\ v.action \in {"bind", "retire"}
  /\ \A i, j \in DOMAIN doc.versions :
       i < j /\ doc.versions[i].key = doc.versions[j].key => doc.versions[i].from < doc.versions[j].from

(* The refreshes: events are numbered and about candidates that are known. *)
ValidRefresh(doc, catalog) ==
  /\ \A k \in doc.candidates : ValidateCandidate(k, catalog)
  /\ \A i \in DOMAIN doc.log :
       doc.log[i].sequence = i /\ (doc.log[i].kind # "rollback" => doc.log[i].candidate \in doc.candidates)

(* A registry.json that its store's ValidateRegistry accepts.              *)
Valid(d, doc, catalog) ==
  /\ d = "catalog" => ValidCatalog(doc)
  /\ d = "mapping" /\ doc # Absent => ValidMapping(doc, catalog)
  /\ d = "refresh" => ValidRefresh(doc, catalog)

(* No file of an activation is torn.                                       *)
Clean(files) == \A n \in DOMAIN files : n[1] = "activation" => files[n] = n[2]

(* An activation on its way: its pointer is written last but one.          *)
Activating(job, doc, files, todo) ==
  LET n == Len(todo)
      next == todo[n].body
  IN  /\ Activatable(doc, job.c, job.target, job.action, job.expected)
      /\ next.active = Put(doc.active, job.c, next.active[job.c])
      /\ IF n = 1 THEN <<"active", job.c>> \in DOMAIN files /\ files[<<"active", job.c>>] = next.active[job.c]
         ELSE /\ todo[n - 1].name = <<"active", job.c>> /\ ~todo[n - 1].once /\ todo[n - 1].body = next.active[job.c]
              /\ \A i \in 1 .. n - 2 : todo[i].once

(* The writes that a command has yet to make, on the files of d.           *)
Writes(job, d, doc, files, todo, catalog) ==
  LET next == todo[Len(todo)].body IN
  /\ IsRegistry(todo[Len(todo)]) /\ Valid(d, next, catalog) /\ Filed(d, next, files, todo)
  /\ \A i \in DOMAIN todo :
       /\ todo[i].once => todo[i].name[1] # "active" /\ (todo[i].name[1] = "activation" => todo[i].body = todo[i].name[2])
       /\ ~todo[i].once /\ ~IsRegistry(todo[i]) => job.op = "activate"
  /\ d = "catalog" => doc.components \subseteq next.components
  /\ IF job.op = "activate" THEN Activating(job, doc, files, todo) ELSE d = "catalog" => next.active = doc.active

WritesSound(x, D) ==
  LET job == Head(x.jobs)
      d == DirOf(job)
  IN  x.at = "write" /\ x.todo # <<>> => Writes(job, d, D[d].doc, D[d].files, x.todo, D["catalog"].doc)

(* What a job was given when its command started.                          *)
JobSound(job, D) ==
  /\ job.op = "mapping" => job.input \in Mappings
  /\ job.op = "execute" /\ job.action = "promote" => job.k \in D["refresh"].doc.candidates

(* The pointer of c has been written, its registry.json has not.           *)
InFlight(x, c) == x.at = "write" /\ Head(x.jobs).op = "activate" /\ Head(x.jobs).c = c /\ Len(x.todo) = 1

(* The pointer of c says what registry.json says.                          *)
Pointed(c, D) == <<"active", c>> \in DOMAIN D.files /\ D.files[<<"active", c>>] = D.doc.active[c]

(* One stop left the pointer of c ahead of registry.json.                  *)
Ahead(c, D) ==
  /\ stops = 1 /\ cut.op = "activate" /\ cut.c = c
  /\ Activatable(D.doc, c, cut.target, cut.action, cut.expected) /\ Clean(D.files)

Pointers ==
  \A c \in DOMAIN dir["catalog"].doc.active :
    \/ Pointed(c, dir["catalog"]) \/ Ahead(c, dir["catalog"]) \/ stops > 1
    \/ \E b \in DOMAIN cmd : InFlight(cmd[b], c)

Resting(D) == \A d \in Dirs : Valid(d, D[d].doc, D["catalog"].doc) /\ Filed(d, D[d].doc, D[d].files, <<>>)

(* The invariant of the files, beside RegistryInv.                         *)
FilesInv ==
  /\ stops \in Nat /\ Resting(dir)
  /\ \A c \in DOMAIN cmd : WritesSound(cmd[c], dir) /\ \A i \in DOMAIN cmd[c].jobs : JobSound(cmd[c].jobs[i], dir)
  /\ stops = 0 => Clean(dir["catalog"].files)
  /\ Pointers

---------------------------------------------------------------------------
(* Files and documents.                                                    *)

(* What is in a directory, or will be, ...                                 *)
LEMMA FiledKeeps ==
  ASSUME NEW d, NEW doc, NEW f, NEW t, NEW g, NEW u, Filed(d, doc, f, t),
         \A n, b : Has(f, t, n, b) => Has(g, u, n, b)
  PROVE  Filed(d, doc, g, u)
BY DEF Filed

(* ... and what may be relied on while the catalog gains components.       *)
LEMMA ValidKeeps ==
  ASSUME NEW d, NEW doc, NEW s, NEW t, Valid(d, doc, s), s.components \subseteq t.components
  PROVE  Valid(d, doc, t)
<1>1. ASSUME d = "mapping", doc # Absent PROVE ValidMapping(doc, t)
  <2>1. ValidMapping(doc, s)
    BY <1>1 DEF Valid
  <2>2. \A i : ValidateVersion(doc, i, s) => ValidateVersion(doc, i, t)
    BY DEF ValidateVersion
  <2> QED BY <2>1, <2>2 DEF ValidMapping
<1>2. ASSUME d = "refresh" PROVE ValidRefresh(doc, t)
  <2>1. ValidRefresh(doc, s)
    BY <1>2 DEF Valid
  <2> QED BY <2>1 DEF ValidRefresh, ValidateCandidate
<1> QED BY <1>1, <1>2 DEF Valid

(* What Put makes of a function.                                           *)
LEMMA PutFacts ==
  ASSUME NEW f, NEW x, NEW y
  PROVE  /\ DOMAIN Put(f, x, y) = DOMAIN f \cup {x} /\ Put(f, x, y)[x] = y
         /\ \A z \in DOMAIN f \ {x} : Put(f, x, y)[z] = f[z]
BY DEF Put

(* The files after a write that does not collide: those that were there,   *)
(* but for a pointer that is replaced, and the one that is written.        *)
LEMMA WrittenFiles ==
  ASSUME NEW D, DOMAIN D = {"lock", "doc", "files"}, NEW w, ~IsRegistry(w), ~Collides(D, w)
  PROVE  LET E == Written(D, w) IN
         /\ DOMAIN E = DOMAIN D /\ E.doc = D.doc /\ E.lock = D.lock
         /\ w.name \in DOMAIN E.files /\ E.files[w.name] = w.body
         /\ DOMAIN E.files = DOMAIN D.files \cup {w.name}
         /\ \A n \in DOMAIN D.files : n # w.name \/ w.once => E.files[n] = D.files[n]
<1>1. PICK E : E = Written(D, w)
  OBVIOUS
<1>2. E = [D EXCEPT !.files = Put(@, w.name, w.body)]
  BY <1>1 DEF Written, IsRegistry
<1>3. DOMAIN E = DOMAIN D /\ E.doc = D.doc /\ E.lock = D.lock /\ E.files = Put(D.files, w.name, w.body)
  BY <1>2
<1>4. /\ DOMAIN E.files = DOMAIN D.files \cup {w.name} /\ E.files[w.name] = w.body
      /\ \A n \in DOMAIN D.files \ {w.name} : E.files[n] = D.files[n]
  <2>1. PICK f, g, n, b : f = D.files /\ g = E.files /\ n = w.name /\ b = w.body
    OBVIOUS
  <2>2. g = Put(f, n, b)
    BY <1>3, <2>1
  <2>3. DOMAIN g = DOMAIN f \cup {n} /\ g[n] = b /\ \A z \in DOMAIN f \ {n} : g[z] = f[z]
    BY <2>2 DEF Put
  <2> QED BY <2>1, <2>3
<1>5. w.once /\ w.name \in DOMAIN D.files => D.files[w.name] = w.body
  BY DEF Collides
<1> QED BY <1>1, <1>3, <1>4, <1>5

---------------------------------------------------------------------------
(* The writes of the operations.                                           *)

(* A file that is there is there for any writes to come.                   *)
LEMMA HadAnyway ==
  ASSUME NEW f, NEW n, NEW b, Has(f, <<>>, n, b), NEW t
  PROVE  Has(f, t, n, b)
<1>1. DOMAIN <<>> = {}
  OBVIOUS
<1> QED BY <1>1 DEF Has

(* What a registry.json that stays needs is there for any writes to come.  *)
LEMMA FiledAnyway ==
  ASSUME NEW d, NEW doc, NEW f, Filed(d, doc, f, <<>>), NEW t
  PROVE  Filed(d, doc, f, t)
BY FiledKeeps, HadAnyway

(* The fields of a write.                                                  *)
LEMMA Fields ==
  /\ \A n, b : Once(n, b).name = n /\ Once(n, b).body = b /\ Once(n, b).once = TRUE
  /\ \A n, b : Replace(n, b).name = n /\ Replace(n, b).body = b /\ Replace(n, b).once = FALSE
  /\ \A b : Registry(b).name = <<"registry.json">> /\ Registry(b).body = b /\ Registry(b).once = FALSE
BY DEF Once, Replace, Registry

(* A new file, then the registry.json that speaks of it.                   *)
LEMMA TwoWrites ==
  ASSUME NEW job, NEW d, NEW doc, NEW f, NEW catalog, NEW n, NEW b, NEW next, job.op # "activate",
         n[1] # "active", n[1] # "activation", Valid(d, next, catalog),
         d = "catalog" => doc.components \subseteq next.components /\ next.active = doc.active,
         NEW t, t = <<Once(n, b), Registry(next)>>,
         Has(f, t, n, b) => Filed(d, next, f, t)
  PROVE  Writes(job, d, doc, f, t, catalog)
<1>1. PICK w, r : w = Once(n, b) /\ r = Registry(next)
  OBVIOUS
<1>2. /\ w.name = n /\ w.body = b /\ w.once = TRUE
      /\ r.name = <<"registry.json">> /\ r.body = next /\ r.once = FALSE
  BY <1>1, Fields
<1>3. Len(t) = 2 /\ DOMAIN t = {1, 2} /\ t[1] = w /\ t[2] = r
  BY <1>1
<1>4. Has(f, t, n, b)
  BY <1>2, <1>3 DEF Has
<1>5. t[Len(t)] = r /\ IsRegistry(r)
  BY <1>2, <1>3 DEF IsRegistry
<1>6. \A i \in DOMAIN t :
        /\ t[i].once => t[i].name[1] # "active" /\ (t[i].name[1] = "activation" => t[i].body = t[i].name[2])
        /\ ~t[i].once /\ ~IsRegistry(t[i]) => job.op = "activate"
  BY <1>2, <1>3, <1>5
<1> QED BY <1>2, <1>4, <1>5, <1>6 DEF Writes

(* A catalog that gains components or versions is as valid as before.      *)
LEMMA CatalogGains ==
  ASSUME NEW doc, NEW next, ValidCatalog(doc), next.log = doc.log, next.active = doc.active,
         doc.components \subseteq next.components, doc.versions \subseteq next.versions,
         \A v \in next.versions \ doc.versions : v.component \in next.components /\ v.count >= 1,
         \A v \in next.versions \ doc.versions, w \in next.versions : v.id = w.id => v = w
  PROVE  ValidCatalog(next)
<1>1. ValidateCatalog(doc)
  BY DEF ValidCatalog
<1>2. \A v \in next.versions : v.component \in next.components /\ v.count >= 1
  BY <1>1 DEF ValidateCatalog
<1>3. \A v, w \in next.versions : v.id = w.id => v = w
  BY <1>1 DEF ValidateCatalog
<1>4. ASSUME NEW i \in DOMAIN next.log PROVE ValidateActivation(next, i)
  <2>1. ValidateActivation(doc, i)
    BY <1>1 DEF ValidateCatalog
  <2> QED BY <2>1 DEF ValidateActivation
<1>5. ValidateCatalog(next)
  BY <1>1, <1>2, <1>3, <1>4 DEF ValidateCatalog
<1> QED BY <1>5 DEF ValidCatalog

(* What rests of the catalog.                                              *)
LEMMA CatalogRests ==
  ASSUME Resting(dir)
  PROVE  ValidCatalog(dir["catalog"].doc) /\ Filed("catalog", dir["catalog"].doc, dir["catalog"].files, <<>>)
BY DEF Resting, Dirs, Valid

(* RegisterComponent.                                                      *)
LEMMA ComponentWrites ==
  ASSUME DirsOK(dir), Resting(dir), NEW job, job.op = "component", NEW c,
         NEW t, t = RegisterComponent(c).writes, t # <<>>
  PROVE  Writes(job, "catalog", dir["catalog"].doc, dir["catalog"].files, t, dir["catalog"].doc)
<1>1. PICK doc, f : doc = dir["catalog"].doc /\ f = dir["catalog"].files
  OBVIOUS
<1>2. PICK next : next = [doc EXCEPT !.components = @ \cup {c}]
  OBVIOUS
<1>3. /\ next.log = doc.log /\ next.versions = doc.versions /\ next.active = doc.active
      /\ next.components = doc.components \cup {c}
  BY <1>1, <1>2, CatalogDoc
<1>4. t = <<Once(<<"component", c>>, c), Registry(next)>>
  BY <1>1, <1>2 DEF RegisterComponent, Yes
<1>5. ValidCatalog(doc) /\ Filed("catalog", doc, f, t)
  BY <1>1, CatalogRests, FiledAnyway
<1>6. Valid("catalog", next, doc)
  BY <1>3, <1>5, CatalogGains DEF Valid
<1>7. Has(f, t, <<"component", c>>, c) => Filed("catalog", next, f, t)
  BY <1>3, <1>5 DEF Filed
<1>8. <<"component", c>>[1] = "component"
  OBVIOUS
<1> QED BY <1>1, <1>3, <1>4, <1>6, <1>7, <1>8, TwoWrites

(* RegisterVersion.                                                        *)
LEMMA VersionWrites ==
  ASSUME DirsOK(dir), Resting(dir), NEW job, job.op = "version", NEW v,
         NEW t, t = RegisterVersion(v).writes, t # <<>>
  PROVE  Writes(job, "catalog", dir["catalog"].doc, dir["catalog"].files, t, dir["catalog"].doc)
<1>1. PICK doc, f : doc = dir["catalog"].doc /\ f = dir["catalog"].files
  OBVIOUS
<1>2. PICK next : next = [doc EXCEPT !.versions = @ \cup {v}]
  OBVIOUS
<1>3. /\ next.log = doc.log /\ next.components = doc.components /\ next.active = doc.active
      /\ next.versions = doc.versions \cup {v}
  BY <1>1, <1>2, CatalogDoc
<1>4. /\ t = <<Once(<<"version", v.id>>, v), Registry(next)>> /\ v.component \in doc.components
      /\ v.count >= 1 /\ \A w \in doc.versions : w.id # v.id
  BY <1>1, <1>2 DEF RegisterVersion, Yes, No
<1>5. ValidCatalog(doc) /\ Filed("catalog", doc, f, t)
  BY <1>1, CatalogRests, FiledAnyway
<1>6. Valid("catalog", next, doc)
  BY <1>3, <1>4, <1>5, CatalogGains DEF Valid
<1>7. Has(f, t, <<"version", v.id>>, v) => Filed("catalog", next, f, t)
  BY <1>3, <1>5 DEF Filed
<1>8. <<"version", v.id>>[1] = "version"
  OBVIOUS
<1> QED BY <1>1, <1>3, <1>4, <1>6, <1>7, <1>8, TwoWrites

(* An entry stays valid when the log grows after it.                       *)
LEMMA Earlier ==
  ASSUME NEW doc, NEW next, NEW i \in Nat, \A j \in 1 .. i : next.log[j] = doc.log[j], i >= 1,
         doc.versions \subseteq next.versions, ValidateActivation(doc, i)
  PROVE  ValidateActivation(next, i)
<1>1. next.log[i] = doc.log[i] /\ \A j \in 1 .. (i - 1) : next.log[j] = doc.log[j]
  OBVIOUS
<1>2. PICK a : a = doc.log[i]
  OBVIOUS
<1>3. {j \in 1 .. (i - 1) : next.log[j].component = a.component}
        = {j \in 1 .. (i - 1) : doc.log[j].component = a.component}
  BY <1>1
<1>4. PICK before : /\ before = {j \in 1 .. (i - 1) : doc.log[j].component = a.component}
                    /\ before = {j \in 1 .. (i - 1) : next.log[j].component = a.component}
  BY <1>3
<1>5. /\ a.sequence = i /\ a.epoch = Cardinality(before) + 1
      /\ \E v \in doc.versions : v.id = a.target /\ v.component = a.component
      /\ a.action = "rollback" => a.previous # NoVersion /\ \E j \in before : doc.log[j].target = a.target
  BY <1>2, <1>4 DEF ValidateActivation
<1>6. a.action = "rollback" => \E j \in before : next.log[j].target = a.target
  BY <1>1, <1>4, <1>5
<1> QED BY <1>1, <1>2, <1>4, <1>5, <1>6 DEF ValidateActivation

(* The active pointer of a component is that of its last activation.       *)
LEMMA ActiveIs ==
  ASSUME NEW doc, IsSeq(doc.log), ValidCatalog(doc), NEW c \in DOMAIN doc.active
  PROVE  \E m \in DOMAIN doc.log :
           /\ doc.log[m].component = c
           /\ doc.active[c] = [version |-> doc.log[m].target, activation |-> m, epoch |-> doc.log[m].epoch, at |-> doc.log[m].at]
           /\ \A j \in DOMAIN doc.log : doc.log[j].component = c => j <= m
<1>1. PICK m \in DOMAIN doc.log :
        doc.log[m].component = c /\
        doc.active[c] = [version |-> doc.log[m].target, activation |-> m, epoch |-> doc.log[m].epoch, at |-> doc.log[m].at]
  BY DEF ValidCatalog, ValidateCatalog
<1>2. doc.active[c].activation = m
  BY <1>1
<1>3. \A j \in DOMAIN doc.log : doc.log[j].component = c => j <= m
  BY <1>2 DEF ValidCatalog
<1> QED BY <1>1, <1>3

(* An activation takes the next epoch of its component.                    *)
LEMMA NextEpoch ==
  ASSUME NEW doc, IsSeq(doc.log), ValidCatalog(doc), NEW c, NEW before,
         before = {j \in 1 .. Len(doc.log) : doc.log[j].component = c}
  PROVE  (IF c \in DOMAIN doc.active THEN doc.active[c].epoch + 1 ELSE 1) = Cardinality(before) + 1
<1>1. Len(doc.log) \in Nat /\ DOMAIN doc.log = 1 .. Len(doc.log)
  BY SeqFacts
<1>2. CASE c \in DOMAIN doc.active
  <2>1. PICK m \in DOMAIN doc.log :
           /\ doc.log[m].component = c
           /\ doc.active[c] = [version |-> doc.log[m].target, activation |-> m, epoch |-> doc.log[m].epoch, at |-> doc.log[m].at]
           /\ \A j \in DOMAIN doc.log : doc.log[j].component = c => j <= m
    BY <1>2, ActiveIs
  <2>2. PICK earlier : earlier = {j \in 1 .. (m - 1) : doc.log[j].component = c}
    OBVIOUS
  <2>3. before = earlier \cup {m} /\ m \notin earlier
    <3>1. m \in 1 .. Len(doc.log) /\ \A j \in 1 .. Len(doc.log) : doc.log[j].component = c => j <= m
      BY <1>1, <2>1
    <3>2. \A j \in 1 .. Len(doc.log) : doc.log[j].component = c <=> (j \in 1 .. (m - 1) /\ doc.log[j].component = c) \/ j = m
      BY <1>1, <2>1, <3>1
    <3>3. \A j \in 1 .. (m - 1) : j \in 1 .. Len(doc.log) /\ j # m
      BY <1>1, <3>1
    <3> QED BY <2>2, <3>1, <3>2, <3>3
  <2>4. IsFiniteSet(earlier)
    <3>1. m - 1 \in Int
      BY <1>1, <2>1
    <3>2. IsFiniteSet(1 .. (m - 1))
      BY <3>1, FS_Interval
    <3> QED BY <2>2, <3>2, FS_Subset
  <2>5. Cardinality(before) = Cardinality(earlier) + 1
    BY <2>3, <2>4, FS_AddElement
  <2>6. doc.log[m].epoch = Cardinality(earlier) + 1
    <3>1. ValidateActivation(doc, m)
      BY DEF ValidCatalog, ValidateCatalog
    <3> QED BY <2>1, <2>2, <3>1 DEF ValidateActivation
  <2>7. doc.active[c].epoch = doc.log[m].epoch
    BY <2>1
  <2> QED BY <1>2, <2>5, <2>6, <2>7
<1>3. CASE c \notin DOMAIN doc.active
  <2>1. before = {}
    BY <1>1, <1>3 DEF ValidCatalog
  <2>2. Cardinality(before) = 0
    BY <2>1, FS_EmptySet
  <2> QED BY <1>3, <2>2
<1> QED BY <1>2, <1>3

(* What the catalog becomes with an activation.                            *)
Entry(doc, c, target, action, at) ==
  [sequence |-> Len(doc.log) + 1, component |-> c, action |-> action, target |-> target, previous |-> findActive(doc, c),
   epoch |-> IF c \in DOMAIN doc.active THEN doc.active[c].epoch + 1 ELSE 1, at |-> at]
PointerTo(a) == [version |-> a.target, activation |-> a.sequence, epoch |-> a.epoch, at |-> a.at]
Activated(doc, a) == [doc EXCEPT !.log = Append(@, a), !.active = Put(@, a.component, PointerTo(a))]

(* The fields of what it becomes.                                          *)
LEMMA ActivatedFields ==
  ASSUME NEW doc, DOMAIN doc = {"components", "versions", "log", "active"}, IsSeq(doc.log), NEW a,
         NEW next, next = Activated(doc, a)
  PROVE  /\ next.components = doc.components /\ next.versions = doc.versions
         /\ next.log = Append(doc.log, a) /\ next.active = Put(doc.active, a.component, PointerTo(a))
         /\ Len(doc.log) \in Nat /\ DOMAIN doc.log = 1 .. Len(doc.log) /\ DOMAIN next.log = 1 .. Len(doc.log) + 1
         /\ next.log[Len(doc.log) + 1] = a /\ \A j \in 1 .. Len(doc.log) : next.log[j] = doc.log[j]
<1>1. /\ next.components = doc.components /\ next.versions = doc.versions
      /\ next.log = Append(doc.log, a) /\ next.active = Put(doc.active, a.component, PointerTo(a))
  BY DEF Activated
<1> QED BY <1>1, Appended, SeqFacts

(* It is valid, as long as the activation is allowed.                      *)
LEMMA ActivatedValid ==
  ASSUME NEW doc, DOMAIN doc = {"components", "versions", "log", "active"}, IsSeq(doc.log),
         \A v \in doc.versions : v.id # NoVersion, ValidCatalog(doc),
         NEW c, NEW target, NEW action, NEW expected, NEW at, Activatable(doc, c, target, action, expected),
         NEW a, a = Entry(doc, c, target, action, at), NEW next, next = Activated(doc, a)
  PROVE  ValidCatalog(next)
<1>1. /\ a.sequence = Len(doc.log) + 1 /\ a.component = c /\ a.action = action /\ a.target = target
      /\ a.previous = findActive(doc, c) /\ a.at = at
      /\ a.epoch = IF c \in DOMAIN doc.active THEN doc.active[c].epoch + 1 ELSE 1
  BY DEF Entry
<1>2. PICK n : n = Len(doc.log)
  OBVIOUS
<1>3. /\ next.components = doc.components /\ next.versions = doc.versions
      /\ n \in Nat /\ DOMAIN doc.log = 1 .. n /\ DOMAIN next.log = 1 .. n + 1
      /\ next.log[n + 1] = a /\ (\A j \in 1 .. n : next.log[j] = doc.log[j])
  BY <1>2, ActivatedFields
<1>4. PICK p : p = PointerTo(a)
  OBVIOUS
<1>5. /\ DOMAIN next.active = DOMAIN doc.active \cup {c} /\ next.active[c] = p
      /\ \A d \in DOMAIN doc.active \ {c} : next.active[d] = doc.active[d]
  <2>1. PICK f, g : f = doc.active /\ g = next.active
    OBVIOUS
  <2>2. g = Put(f, c, p)
    BY <1>1, <1>4, <2>1, ActivatedFields
  <2>3. DOMAIN g = DOMAIN f \cup {c} /\ g[c] = p /\ \A d \in DOMAIN f \ {c} : g[d] = f[d]
    BY <2>2 DEF Put
  <2> QED BY <2>1, <2>3
<1>6. ASSUME NEW i \in 1 .. n PROVE ValidateActivation(next, i)
  <2>1. ValidateActivation(doc, i)
    BY <1>3 DEF ValidCatalog, ValidateCatalog
  <2>2. i \in Nat /\ i >= 1 /\ \A j \in 1 .. i : next.log[j] = doc.log[j]
    BY <1>3
  <2> QED BY <1>3, <2>1, <2>2, Earlier
<1>7. ValidateActivation(next, n + 1)
  <2>1. PICK before : before = {j \in 1 .. n : doc.log[j].component = c}
    OBVIOUS
  <2>2. a.epoch = Cardinality(before) + 1
    BY <1>1, <1>2, <2>1, NextEpoch
  <2>3. \E v \in next.versions : v.id = a.target /\ v.component = a.component
    BY <1>1, <1>3 DEF Activatable
  <2>4. ASSUME action = "rollback"
        PROVE  a.previous # NoVersion /\ \E j \in before : doc.log[j].target = a.target
    <3>1. PICK j \in DOMAIN doc.log : doc.log[j].component = c /\ doc.log[j].target = target
      BY <2>4 DEF Activatable, wasActivated
    <3>2. c \in DOMAIN doc.active
      BY <3>1 DEF ValidCatalog
    <3>3. PICK m \in DOMAIN doc.log :
             /\ doc.log[m].component = c
             /\ doc.active[c] = [version |-> doc.log[m].target, activation |-> m, epoch |-> doc.log[m].epoch, at |-> doc.log[m].at]
             /\ \A i \in DOMAIN doc.log : doc.log[i].component = c => i <= m
      BY <3>2, ActiveIs
    <3>4. a.previous = doc.log[m].target
      BY <1>1, <3>2, <3>3 DEF findActive
    <3>5. ValidateActivation(doc, m)
      BY DEF ValidCatalog, ValidateCatalog
    <3>6. \E v \in doc.versions : v.id = doc.log[m].target
      BY <3>5 DEF ValidateActivation
    <3> QED BY <1>1, <1>3, <2>1, <3>1, <3>4, <3>6
  <2>5. (n + 1) - 1 = n
    BY <1>3
  <2>6. before = {j \in 1 .. ((n + 1) - 1) : next.log[j].component = next.log[n + 1].component}
    BY <1>1, <1>3, <2>1, <2>5
  <2>7. a.action = "rollback" => a.previous # NoVersion /\ \E j \in before : next.log[j].target = a.target
    BY <1>1, <1>3, <2>1, <2>4
  <2>8. a.sequence = n + 1
    BY <1>1, <1>2
  <2> QED BY <1>3, <2>2, <2>3, <2>6, <2>7, <2>8 DEF ValidateActivation
<1>8. \A i \in DOMAIN next.log : ValidateActivation(next, i)
  <2>1. \A i \in 1 .. n + 1 : i \in 1 .. n \/ i = n + 1
    BY <1>3
  <2> QED BY <1>3, <1>6, <1>7, <2>1
<1>9. ASSUME NEW d \in DOMAIN next.active
      PROVE  \E i \in DOMAIN next.log :
               /\ next.log[i].component = d
               /\ next.active[d] = [version |-> next.log[i].target, activation |-> i,
                                    epoch |-> next.log[i].epoch, at |-> next.log[i].at]
  <2>1. CASE d = c
    <3>1. n + 1 \in DOMAIN next.log
      BY <1>3
    <3>2. next.active[d] = [version |-> a.target, activation |-> n + 1, epoch |-> a.epoch, at |-> a.at]
      BY <1>1, <1>2, <1>4, <1>5, <2>1 DEF PointerTo
    <3> QED BY <1>1, <1>3, <2>1, <3>1, <3>2
  <2>2. CASE d # c
    <3>1. PICK m \in DOMAIN doc.log :
             /\ doc.log[m].component = d
             /\ doc.active[d] = [version |-> doc.log[m].target, activation |-> m, epoch |-> doc.log[m].epoch, at |-> doc.log[m].at]
      BY <1>5, <2>2, ActiveIs
    <3>2. m \in DOMAIN next.log /\ next.log[m] = doc.log[m]
      BY <1>3
    <3>3. next.active[d] = doc.active[d]
      BY <1>5, <2>2
    <3> QED BY <3>1, <3>2, <3>3
  <2> QED BY <2>1, <2>2
<1>10. ValidateCatalog(next)
  BY <1>3, <1>8, <1>9 DEF ValidateCatalog, ValidCatalog
<1>11. ASSUME NEW i \in DOMAIN next.log
       PROVE  next.log[i].component \in DOMAIN next.active /\ i <= next.active[next.log[i].component].activation
  <2>1. p.activation = n + 1
    BY <1>1, <1>2, <1>4 DEF PointerTo
  <2>2. CASE i = n + 1
    BY <1>1, <1>3, <1>5, <2>1, <2>2
  <2>3. CASE i \in 1 .. n
    <3>1. PICK d : d = doc.log[i].component
      OBVIOUS
    <3>2. next.log[i].component = d /\ d \in DOMAIN doc.active /\ i <= doc.active[d].activation
      BY <1>3, <2>3, <3>1 DEF ValidCatalog
    <3>3. CASE d = c
      BY <1>3, <1>5, <2>1, <2>3, <3>2, <3>3
    <3>4. CASE d # c
      BY <1>5, <3>2, <3>4
    <3> QED BY <3>3, <3>4
  <2>4. i \in 1 .. n \/ i = n + 1
    BY <1>3
  <2> QED BY <2>2, <2>3, <2>4
<1> QED BY <1>10, <1>11 DEF ValidCatalog

(* Activate, in these terms.                                               *)
LEMMA ActivateIs ==
  ASSUME NEW c, NEW target, NEW action, NEW expected, NEW at,
         NEW o, o = Activate(c, target, action, expected, at),
         NEW doc, doc = dir["catalog"].doc, NEW a, a = Entry(doc, c, target, action, at)
  PROVE  /\ o.ok <=> Activatable(doc, c, target, action, expected)
         /\ ~o.ok => o.writes = <<>>
         /\ o.ok => o.writes = <<Once(<<"activation", a>>, a), Replace(<<"active", c>>, PointerTo(a)), Registry(Activated(doc, a))>>
<1>1. No.ok = FALSE /\ No.writes = <<>>
  BY DEF No
<1>2. CASE Activatable(doc, c, target, action, expected)
  <2>1. PICK p, next : p = PointerTo(a) /\ next = Activated(doc, a)
    OBVIOUS
  <2>2. a = [sequence |-> Len(doc.log) + 1, component |-> c, action |-> action, target |-> target,
             previous |-> findActive(doc, c),
             epoch |-> IF c \in DOMAIN doc.active THEN doc.active[c].epoch + 1 ELSE 1, at |-> at]
    BY DEF Entry
  <2>3. p = [version |-> target, activation |-> a.sequence, epoch |-> a.epoch, at |-> at]
    BY <2>1, <2>2 DEF PointerTo
  <2>4. next = [doc EXCEPT !.log = Append(@, a), !.active = Put(@, c, p)]
    <3>1. a.component = c
      BY <2>2
    <3> QED BY <2>1, <3>1 DEF Activated
  <2>5. o = Yes(ActivationWrites(a, c, p, next), a)
    BY <1>2, <2>2, <2>3, <2>4 DEF Activate
  <2>6. o.ok = TRUE /\ o.writes = ActivationWrites(a, c, p, next)
    BY <2>5 DEF Yes
  <2> QED BY <1>2, <2>1, <2>6 DEF ActivationWrites
<1>3. CASE ~Activatable(doc, c, target, action, expected)
  <2>1. o = No
    BY <1>3 DEF Activate
  <2> QED BY <1>1, <1>3, <2>1
<1> QED BY <1>2, <1>3

(* The names of an activation's files.                                     *)
LEMMA ActivationNames ==
  \A a, c : /\ <<"activation", a>>[1] = "activation" /\ <<"activation", a>>[2] = a
            /\ <<"activation", a>> # <<"active", c>>
OBVIOUS

(* Activate.                                                               *)
LEMMA ActivateWrites ==
  ASSUME DirsOK(dir), Resting(dir), NEW job, job.op = "activate",
         NEW o, o = Activate(job.c, job.target, job.action, job.expected, job.time),
         NEW t, t = o.writes, t # <<>>
  PROVE  Writes(job, "catalog", dir["catalog"].doc, dir["catalog"].files, t, dir["catalog"].doc)
<1>1. PICK doc, f, c : doc = dir["catalog"].doc /\ f = dir["catalog"].files /\ c = job.c
  OBVIOUS
<1>2. PICK a, p, next : /\ a = Entry(doc, c, job.target, job.action, job.time)
                        /\ p = PointerTo(a) /\ next = Activated(doc, a)
  OBVIOUS
<1>3. /\ Activatable(doc, c, job.target, job.action, job.expected)
      /\ t = <<Once(<<"activation", a>>, a), Replace(<<"active", c>>, p), Registry(next)>>
  BY <1>1, <1>2, ActivateIs
<1>4. /\ DOMAIN doc = {"components", "versions", "log", "active"} /\ IsSeq(doc.log)
      /\ \A v \in doc.versions : v.id # NoVersion
  BY <1>1, CatalogDoc
<1>5. ValidCatalog(doc) /\ Filed("catalog", doc, f, t)
  BY <1>1, CatalogRests, FiledAnyway
<1>6. ValidCatalog(next)
  BY <1>2, <1>3, <1>4, <1>5, ActivatedValid
<1>7. a.component = c
  BY <1>2 DEF Entry
<1>8. /\ next.components = doc.components /\ next.versions = doc.versions
      /\ next.active = Put(doc.active, c, p)
      /\ Len(doc.log) \in Nat /\ DOMAIN doc.log = 1 .. Len(doc.log) /\ DOMAIN next.log = 1 .. Len(doc.log) + 1
      /\ next.log[Len(doc.log) + 1] = a /\ \A j \in 1 .. Len(doc.log) : next.log[j] = doc.log[j]
  BY <1>2, <1>4, <1>7, ActivatedFields
<1>9. PICK w, v, r : w = Once(<<"activation", a>>, a) /\ v = Replace(<<"active", c>>, p) /\ r = Registry(next)
  OBVIOUS
<1>10. /\ w.name = <<"activation", a>> /\ w.body = a /\ w.once = TRUE
       /\ v.name = <<"active", c>> /\ v.body = p /\ v.once = FALSE
       /\ r.name = <<"registry.json">> /\ r.body = next /\ r.once = FALSE
  BY <1>9, Fields
<1>11. Len(t) = 3 /\ DOMAIN t = {1, 2, 3} /\ t[1] = w /\ t[2] = v /\ t[3] = r
  BY <1>3, <1>9
<1>12. Has(f, t, <<"activation", a>>, a)
  BY <1>10, <1>11 DEF Has
<1>13. Filed("catalog", next, f, t)
  <2>1. ASSUME NEW i \in DOMAIN next.log PROVE Has(f, t, <<"activation", next.log[i]>>, next.log[i])
    <3>1. i \in 1 .. Len(doc.log) \/ i = Len(doc.log) + 1
      BY <1>8
    <3>2. CASE i \in 1 .. Len(doc.log)
      <4>1. next.log[i] = doc.log[i] /\ i \in DOMAIN doc.log
        BY <1>8, <3>2
      <4> QED BY <1>5, <4>1 DEF Filed
    <3>3. CASE i = Len(doc.log) + 1
      BY <1>8, <1>12, <3>3
    <3> QED BY <3>1, <3>2, <3>3
  <2> QED BY <1>5, <1>8, <2>1 DEF Filed
<1>14. t[Len(t)] = r /\ IsRegistry(r)
  BY <1>10, <1>11 DEF IsRegistry
<1>15. ASSUME NEW i \in DOMAIN t
       PROVE  t[i].once => t[i].name[1] # "active" /\ (t[i].name[1] = "activation" => t[i].body = t[i].name[2])
  <2>1. t[i].once => t[i] = w
    BY <1>10, <1>11
  <2>2. w.name[1] = "activation" /\ w.name[2] = w.body
    BY <1>10, ActivationNames
  <2> QED BY <2>1, <2>2
<1>16. next.active[c] = p
  BY <1>8 DEF Put
<1>17. Activating(job, doc, f, t)
  <2>1. t[Len(t)].body = next /\ Len(t) # 1 /\ Len(t) - 1 = 2 /\ Len(t) - 2 = 1
    BY <1>10, <1>11
  <2>2. \A i \in 1 .. 1 : t[i].once
    BY <1>10, <1>11
  <2>3. next.active = Put(doc.active, c, next.active[c])
    BY <1>8, <1>16
  <2> QED BY <1>1, <1>3, <1>10, <1>11, <1>16, <2>1, <2>2, <2>3 DEF Activating
<1>18. Valid("catalog", next, doc)
  BY <1>6 DEF Valid
<1>19. t[Len(t)].body = next
  BY <1>10, <1>11
<1> QED BY <1>1, <1>8, <1>13, <1>14, <1>15, <1>17, <1>18, <1>19 DEF Writes

(* What rests of the refreshes.                                            *)
LEMMA RefreshRests ==
  ASSUME Resting(dir)
  PROVE  /\ ValidRefresh(dir["refresh"].doc, dir["catalog"].doc)
         /\ Filed("refresh", dir["refresh"].doc, dir["refresh"].files, <<>>)
BY DEF Resting, Dirs, Valid

(* AddCandidate.                                                           *)
LEMMA CandidateWrites ==
  ASSUME DirsOK(dir), Resting(dir), NEW job, job.op = "candidate", NEW k,
         NEW t, t = AddCandidate(k).writes, t # <<>>
  PROVE  Writes(job, "refresh", dir["refresh"].doc, dir["refresh"].files, t, dir["catalog"].doc)
<1>1. PICK doc, f, catalog : doc = dir["refresh"].doc /\ f = dir["refresh"].files /\ catalog = dir["catalog"].doc
  OBVIOUS
<1>2. PICK next : next = [doc EXCEPT !.candidates = @ \cup {k}]
  OBVIOUS
<1>3. next.log = doc.log /\ next.candidates = doc.candidates \cup {k}
  BY <1>1, <1>2, RefreshDoc
<1>4. t = <<Once(<<"candidate", k>>, k), Registry(next)>> /\ ValidateCandidate(k, catalog)
  BY <1>1, <1>2 DEF AddCandidate, Yes, No
<1>5. ValidRefresh(doc, catalog) /\ Filed("refresh", doc, f, t)
  BY <1>1, RefreshRests, FiledAnyway
<1>6. Valid("refresh", next, catalog)
  BY <1>3, <1>4, <1>5 DEF Valid, ValidRefresh
<1>7. Has(f, t, <<"candidate", k>>, k) => Filed("refresh", next, f, t)
  BY <1>3, <1>5 DEF Filed
<1>8. <<"candidate", k>>[1] = "candidate"
  OBVIOUS
<1> QED BY <1>1, <1>3, <1>4, <1>6, <1>7, <1>8, TwoWrites

(* A decision or an execution.                                             *)
LEMMA ExtendWrites ==
  ASSUME DirsOK(dir), Resting(dir), NEW job, job.op # "activate", NEW event,
         {"kind", "candidate"} \subseteq DOMAIN event,
         event.kind # "rollback" => event.candidate \in dir["refresh"].doc.candidates,
         NEW t, t = Extend(event).writes
  PROVE  Writes(job, "refresh", dir["refresh"].doc, dir["refresh"].files, t, dir["catalog"].doc)
<1>1. PICK doc, f, catalog : doc = dir["refresh"].doc /\ f = dir["refresh"].files /\ catalog = dir["catalog"].doc
  OBVIOUS
<1>2. PICK log, e : log = doc.log /\ e = Put(event, "sequence", Len(log) + 1)
  OBVIOUS
<1>3. PICK next : next = [doc EXCEPT !.log = Append(@, e)]
  OBVIOUS
<1>4. e.kind = event.kind /\ e.candidate = event.candidate /\ e.sequence = Len(log) + 1
  BY <1>2 DEF Put
<1>5. next.log = Append(log, e) /\ next.candidates = doc.candidates
  BY <1>1, <1>2, <1>3, RefreshDoc
<1>6. /\ Len(log) \in Nat /\ DOMAIN log = 1 .. Len(log) /\ DOMAIN next.log = 1 .. Len(log) + 1
      /\ next.log[Len(log) + 1] = e /\ \A i \in 1 .. Len(log) : next.log[i] = log[i]
  BY <1>1, <1>2, <1>5, RefreshDoc, Appended, SeqFacts
<1>7. t = <<Once(<<"event", e>>, e), Registry(next)>>
  BY <1>1, <1>2, <1>3 DEF Extend, Yes
<1>8. ValidRefresh(doc, catalog) /\ Filed("refresh", doc, f, t)
  BY <1>1, RefreshRests, FiledAnyway
<1>9. \A i \in DOMAIN next.log : (i \in DOMAIN log /\ next.log[i] = log[i]) \/ (i = Len(log) + 1 /\ next.log[i] = e)
  BY <1>6
<1>10. Valid("refresh", next, catalog)
  <2>1. \A i \in DOMAIN next.log :
          next.log[i].sequence = i /\ (next.log[i].kind # "rollback" => next.log[i].candidate \in next.candidates)
    BY <1>1, <1>2, <1>4, <1>5, <1>8, <1>9 DEF ValidRefresh
  <2> QED BY <1>5, <1>8, <2>1 DEF Valid, ValidRefresh
<1>11. Has(f, t, <<"event", e>>, e) => Filed("refresh", next, f, t)
  BY <1>2, <1>5, <1>8, <1>9 DEF Filed
<1>12. <<"event", e>>[1] = "event"
  OBVIOUS
<1> QED BY <1>1, <1>7, <1>10, <1>11, <1>12, TwoWrites

(* Decide.                                                                 *)
LEMMA DecideWrites ==
  ASSUME DirsOK(dir), Resting(dir), NEW job, job.op # "activate", NEW k, NEW action, NEW at,
         NEW t, t = Decide(k, action, at).writes, t # <<>>
  PROVE  Writes(job, "refresh", dir["refresh"].doc, dir["refresh"].files, t, dir["catalog"].doc)
<1>1. PICK event : event = [kind |-> action, candidate |-> k, at |-> at]
  OBVIOUS
<1>2. {"kind", "candidate"} \subseteq DOMAIN event /\ event.candidate = k
  BY <1>1
<1>3. t = Extend(event).writes /\ k \in dir["refresh"].doc.candidates
  BY <1>1 DEF Decide, No
<1> QED BY <1>2, <1>3, ExtendWrites

(* recordExecution.                                                        *)
LEMMA ExecuteWrites ==
  ASSUME DirsOK(dir), Resting(dir), NEW job, job.op # "activate",
         NEW kind \in {"promote", "rollback"}, NEW k, NEW decision, NEW a, NEW at,
         kind = "promote" => k \in dir["refresh"].doc.candidates,
         NEW t, t = recordExecution(kind, k, decision, a, at).writes
  PROVE  Writes(job, "refresh", dir["refresh"].doc, dir["refresh"].files, t, dir["catalog"].doc)
<1>1. PICK event : event = [kind |-> kind, candidate |-> k, decision |-> decision, activation |-> a, at |-> at]
  OBVIOUS
<1>2. {"kind", "candidate"} \subseteq DOMAIN event /\ event.candidate = k /\ event.kind = kind
  BY <1>1
<1>3. t = Extend(event).writes
  BY <1>1 DEF recordExecution
<1> QED BY <1>2, <1>3, ExtendWrites

(* Initialize of the mapping registry.                                     *)
LEMMA InitializeWrites ==
  ASSUME NEW job, job.op = "init", NEW f, NEW doc, NEW catalog,
         NEW t, t = Initialize("mapping").writes, t # <<>>
  PROVE  Writes(job, "mapping", doc, f, t, catalog)
<1>1. PICK r : r = Registry(NoMappings)
  OBVIOUS
<1>2. t = <<r>>
  BY <1>1 DEF Initialize, Yes
<1>3. r.name = <<"registry.json">> /\ r.body = NoMappings /\ r.once = FALSE
  BY <1>1, Fields
<1>4. Len(t) = 1 /\ DOMAIN t = {1} /\ t[1] = r
  BY <1>2
<1>5. DOMAIN NoMappings = {"keys", "versions"} /\ NoMappings.keys = {} /\ DOMAIN NoMappings.versions = {}
  BY DEF NoMappings
<1>6. Valid("mapping", NoMappings, catalog) /\ Filed("mapping", NoMappings, f, t)
  BY <1>5 DEF Valid, ValidMapping, Filed
<1> QED BY <1>3, <1>4, <1>6 DEF Writes, IsRegistry

(* The greatest of some places.                                            *)
LEMMA MaxIs ==
  ASSUME NEW n \in Nat, NEW S, S \subseteq 1 .. n, S # {}
  PROVE  Max(S) \in S /\ \A j \in S : j <= Max(S)
<1>1. PICK m \in S : \A j \in S : j <= m
  BY GreatestOf
<1>2. \A j \in S : m >= j
  BY <1>1
<1>3. Max(S) \in S /\ \A j \in S : Max(S) >= j
  BY <1>2 DEF Max
<1> QED BY <1>3

(* The latest version of a list is the last that was registered.           *)
LEMMA PreviousIs ==
  ASSUME NEW doc, IsSeq(doc.versions), NEW catalog, ValidMapping(doc, catalog), NEW key,
         NEW mine, \A i : i \in mine <=> i \in 1 .. Len(doc.versions) /\ doc.versions[i].key = key
  PROVE  /\ OfKey(doc.versions, key) = {} <=> mine = {}
         /\ mine # {} => /\ Max(mine) \in mine /\ Previous(doc.versions, key) = doc.versions[Max(mine)]
                         /\ \A j \in mine : doc.versions[j].from <= doc.versions[Max(mine)].from
<1>1. Len(doc.versions) \in Nat /\ DOMAIN doc.versions = 1 .. Len(doc.versions)
  BY SeqFacts
<1>2. PICK all : all = OfKey(doc.versions, key)
  OBVIOUS
<1>3. \A v : v \in all <=> \E i \in mine : v = doc.versions[i]
  BY <1>1, <1>2 DEF OfKey, ToSet
<1>4. all = {} <=> mine = {}
  BY <1>3
<1>5. ASSUME mine # {}
      PROVE  /\ Max(mine) \in mine /\ Previous(doc.versions, key) = doc.versions[Max(mine)]
             /\ \A j \in mine : doc.versions[j].from <= doc.versions[Max(mine)].from
  <2>1. PICK m : m = Max(mine)
    OBVIOUS
  <2>2. m \in mine /\ \A j \in mine : j <= m
    BY <1>1, <1>5, <2>1, MaxIs
  <2>3. \A j \in mine : doc.versions[j].from \in Int
    BY <1>1 DEF ValidMapping
  <2>4. \A j \in mine : j # m => doc.versions[j].from < doc.versions[m].from
    <3> SUFFICES ASSUME NEW j \in mine, j # m PROVE doc.versions[j].from < doc.versions[m].from
      OBVIOUS
    <3>1. j < m /\ j \in DOMAIN doc.versions /\ m \in DOMAIN doc.versions
      BY <1>1, <2>2
    <3>2. doc.versions[j].key = key /\ doc.versions[m].key = key
      BY <2>2
    <3> QED BY <3>1, <3>2 DEF ValidMapping
  <2>5. \A j \in mine : doc.versions[j].from <= doc.versions[m].from
    BY <2>2, <2>3, <2>4
  <2>6. PICK last : last = doc.versions[m]
    OBVIOUS
  <2>7. last \in all /\ \A w \in all : w.from <= last.from
    BY <1>3, <2>2, <2>5, <2>6
  <2>8. ASSUME NEW v \in all, \A w \in all : w.from <= v.from PROVE v = last
    <3>1. PICK j \in mine : v = doc.versions[j]
      BY <1>3
    <3>2. last.from <= v.from
      BY <2>7, <2>8
    <3>3. j = m
      BY <2>2, <2>3, <2>4, <2>6, <3>1, <3>2
    <3> QED BY <2>6, <3>1, <3>3
  <2>9. (CHOOSE v \in all : \A w \in all : w.from <= v.from) = last
    BY <2>7, <2>8
  <2>10. Previous(doc.versions, key) = last
    BY <1>2, <2>9 DEF Previous
  <2> QED BY <2>1, <2>2, <2>5, <2>6, <2>10
<1> QED BY <1>2, <1>4, <1>5

(* A mapping registry with one version more.                               *)
LEMMA MappedValid ==
  ASSUME NEW doc, IsSeq(doc.versions), NEW catalog, ValidMapping(doc, catalog),
         NEW v, v.sequence = Len(doc.versions) + 1, v.key \in Keys, v.from \in Int, v.to \in Int,
         v.action \in {"bind", "retire"}, v.action = "bind" => v.component \in catalog.components,
         LET new == OfKey(doc.versions, v.key) = {}
             previous == Previous(doc.versions, v.key)
         IN  IF new THEN v.supersedes = 0 ELSE v.from > previous.from /\ v.supersedes = previous.sequence,
         NEW keys, doc.keys \subseteq keys, \E k \in keys : k.key = v.key,
         NEW next, next = [keys |-> keys, versions |-> Append(doc.versions, v)]
  PROVE  ValidMapping(next, catalog)
<1>1. PICK n, mine : /\ n = Len(doc.versions) /\ mine = {i \in 1 .. n : doc.versions[i].key = v.key}
                     /\ mine = {i \in 1 .. Len(doc.versions) : doc.versions[i].key = v.key}
  OBVIOUS
<1>2. /\ n \in Nat /\ DOMAIN doc.versions = 1 .. n /\ DOMAIN next.versions = 1 .. n + 1 /\ next.keys = keys
      /\ next.versions[n + 1] = v /\ \A i \in 1 .. n : next.versions[i] = doc.versions[i]
  <2>1. next.versions = Append(doc.versions, v) /\ next.keys = keys
    OBVIOUS
  <2> QED BY <1>1, <2>1, Appended, SeqFacts
<1>3. DOMAIN next = {"keys", "versions"}
  OBVIOUS
<1>4. /\ OfKey(doc.versions, v.key) = {} <=> mine = {}
      /\ mine # {} => /\ Max(mine) \in mine /\ Previous(doc.versions, v.key) = doc.versions[Max(mine)]
                      /\ \A j \in mine : doc.versions[j].from <= doc.versions[Max(mine)].from
  <2>1. PICK key : key = v.key /\ mine = {i \in 1 .. Len(doc.versions) : doc.versions[i].key = key}
    BY <1>1
  <2>2. /\ OfKey(doc.versions, key) = {} <=> mine = {}
        /\ mine # {} => /\ Max(mine) \in mine /\ Previous(doc.versions, key) = doc.versions[Max(mine)]
                        /\ \A j \in mine : doc.versions[j].from <= doc.versions[Max(mine)].from
    <3>1. \A i : i \in mine <=> i \in 1 .. Len(doc.versions) /\ doc.versions[i].key = key
      BY <2>1
    <3>2. IsSeq(doc.versions) /\ ValidMapping(doc, catalog)
      OBVIOUS
    <3> QED BY ONLY <3>1, <3>2, PreviousIs
  <2> QED BY <2>1, <2>2
<1>5. ASSUME NEW i \in 1 .. n PROVE ValidateVersion(next, i, catalog)
  <2>1. ValidateVersion(doc, i, catalog)
    BY <1>2 DEF ValidMapping
  <2>2. PICK u : u = doc.versions[i]
    OBVIOUS
  <2>3. \A j \in 1 .. (i - 1) : next.versions[j] = doc.versions[j]
    BY <1>2
  <2>4. next.versions[i] = u
    BY <1>2, <2>2
  <2>5. PICK before : /\ before = {j \in 1 .. (i - 1) : doc.versions[j].key = u.key}
                      /\ before = {j \in 1 .. (i - 1) : next.versions[j].key = u.key}
    BY <2>3
  <2>6. before # {} => Max(before) \in before
    <3>1. i - 1 \in Nat /\ before \subseteq 1 .. (i - 1)
      BY <1>2, <2>5
    <3> QED BY <3>1, MaxIs
  <2>7. before # {} => next.versions[Max(before)] = doc.versions[Max(before)]
    BY <2>3, <2>5, <2>6
  <2>8. /\ u.sequence = i /\ (\E k \in doc.keys : k.key = u.key) /\ (u.action = "bind" => u.component \in catalog.components)
        /\ IF before = {} THEN u.supersedes = 0
           ELSE u.from > doc.versions[Max(before)].from /\ u.supersedes = doc.versions[Max(before)].sequence
    BY <2>1, <2>2, <2>5 DEF ValidateVersion
  <2>9. \E k \in keys : k.key = u.key
    BY <2>8
  <2> QED BY <1>2, <2>4, <2>5, <2>7, <2>8, <2>9 DEF ValidateVersion
<1>6. ValidateVersion(next, n + 1, catalog)
  <2>1. (n + 1) - 1 = n
    BY <1>2
  <2>2. mine = {j \in 1 .. ((n + 1) - 1) : next.versions[j].key = next.versions[n + 1].key}
    BY <1>1, <1>2, <2>1
  <2>3. mine # {} => next.versions[Max(mine)] = doc.versions[Max(mine)]
    BY <1>1, <1>2, <1>4
  <2>4. IF mine = {} THEN v.supersedes = 0
        ELSE v.from > next.versions[Max(mine)].from /\ v.supersedes = next.versions[Max(mine)].sequence
    BY <1>4, <2>3
  <2> QED BY <1>1, <1>2, <2>2, <2>4 DEF ValidateVersion
<1>7. \A i \in DOMAIN next.versions : (i \in 1 .. n /\ next.versions[i] = doc.versions[i]) \/ (i = n + 1 /\ next.versions[i] = v)
  BY <1>2
<1>8. \A i \in 1 .. n : /\ doc.versions[i].key \in Keys /\ doc.versions[i].from \in Int /\ doc.versions[i].to \in Int
                        /\ doc.versions[i].action \in {"bind", "retire"}
  BY <1>2 DEF ValidMapping
<1>9. ASSUME NEW i \in DOMAIN next.versions
      PROVE  /\ ValidateVersion(next, i, catalog)
             /\ next.versions[i].key \in Keys /\ next.versions[i].from \in Int /\ next.versions[i].to \in Int
             /\ next.versions[i].action \in {"bind", "retire"}
  BY <1>5, <1>6, <1>7, <1>8
<1>10. ASSUME NEW i \in DOMAIN next.versions, NEW j \in DOMAIN next.versions, i < j,
              next.versions[i].key = next.versions[j].key
       PROVE  next.versions[i].from < next.versions[j].from
  <2>1. i \in 1 .. n /\ next.versions[i] = doc.versions[i]
    BY <1>2, <1>7, <1>10
  <2>2. CASE j \in 1 .. n
    BY <1>2, <1>10, <2>1, <2>2 DEF ValidMapping
  <2>3. CASE j = n + 1
    <3>1. i \in mine
      BY <1>1, <1>2, <1>10, <2>1, <2>3
    <3>2. v.from > doc.versions[Max(mine)].from /\ doc.versions[i].from <= doc.versions[Max(mine)].from
      BY <1>4, <3>1
    <3>3. Max(mine) \in 1 .. n
      BY <1>1, <1>4, <3>1
    <3>4. doc.versions[Max(mine)].from \in Int /\ doc.versions[i].from \in Int
      BY <1>8, <2>1, <3>3
    <3> QED BY <1>2, <2>1, <2>3, <3>2, <3>4
  <2> QED BY <1>7, <2>2, <2>3
<1> QED BY <1>3, <1>9, <1>10 DEF ValidMapping

(* Files that are written once, then the registry.json that speaks of them.*)
LEMMA OnceWrites ==
  ASSUME NEW job, NEW d, NEW doc, NEW f, NEW catalog, NEW next, job.op # "activate", d # "catalog",
         NEW t, t[Len(t)] = Registry(next), Valid(d, next, catalog), Filed(d, next, f, t),
         \A i \in DOMAIN t : i = Len(t) \/ (t[i].once /\ t[i].name[1] # "active" /\ t[i].name[1] # "activation")
  PROVE  Writes(job, d, doc, f, t, catalog)
<1>1. PICK r : r = Registry(next)
  OBVIOUS
<1>2. r.name = <<"registry.json">> /\ r.body = next /\ r.once = FALSE
  BY <1>1, Fields
<1>3. t[Len(t)] = r /\ t[Len(t)].body = next /\ IsRegistry(t[Len(t)])
  BY <1>1, <1>2 DEF IsRegistry
<1>4. \A i \in DOMAIN t :
        /\ t[i].once => t[i].name[1] # "active" /\ (t[i].name[1] = "activation" => t[i].body = t[i].name[2])
        /\ ~t[i].once /\ ~IsRegistry(t[i]) => job.op = "activate"
  BY <1>2, <1>3
<1> QED BY <1>3, <1>4 DEF Writes

(* Register.                                                               *)
LEMMA RegisterWrites ==
  ASSUME DirsOK(dir), Resting(dir), NEW job, job.op = "mapping", NEW input \in Mappings,
         NEW t, t = Register(input).writes, t # <<>>
  PROVE  Writes(job, "mapping", dir["mapping"].doc, dir["mapping"].files, t, dir["catalog"].doc)
<1>1. PICK doc, f, catalog : doc = dir["mapping"].doc /\ f = dir["mapping"].files /\ catalog = dir["catalog"].doc
  OBVIOUS
<1>2. PICK new, previous, k : new = (OfKey(doc.versions, k) = {}) /\ previous = Previous(doc.versions, k) /\ k = input.key
  OBVIOUS
<1>3. PICK v : v = [key |-> k, action |-> input.action, component |-> input.component, from |-> input.from,
                    to |-> input.to, at |-> input.at, sequence |-> Len(doc.versions) + 1,
                    supersedes |-> IF new THEN 0 ELSE previous.sequence]
  OBVIOUS
<1>4. PICK key, keys : key = [key |-> k, at |-> input.at] /\ keys = (IF new THEN doc.keys \cup {key} ELSE doc.keys)
  OBVIOUS
<1>5. PICK next : next = [keys |-> keys, versions |-> Append(doc.versions, v)]
  OBVIOUS
<1>6. PICK a, b, r : a = Once(<<"mapping", k>>, key) /\ b = Once(<<"mapping version", v>>, v) /\ r = Registry(next)
  OBVIOUS
<1>7. /\ doc # Absent /\ (new \/ ~(input.from <= previous.from))
      /\ input.action = "bind" => input.component \in catalog.components
      /\ t = (IF new THEN <<a>> ELSE <<>>) \o <<b, r>>
  <2>1. /\ (Register(input) = No \/ Register(input) = Yes(<<>>, <<>>))
           \/ /\ doc # Absent /\ (new \/ ~(input.from <= previous.from))
              /\ input.action = "bind" => input.component \in catalog.components
              /\ Register(input) = Yes((IF new THEN <<a>> ELSE <<>>) \o <<b, r>>, <<>>)
    BY <1>1, <1>2, <1>3, <1>4, <1>5, <1>6 DEF Register
  <2> QED BY <2>1 DEF No, Yes
<1>8. t = <<a, b, r>> \/ (~new /\ t = <<b, r>>)
  BY <1>7, Rows
<1>9. ValidMapping(doc, catalog) /\ Filed("mapping", doc, f, t) /\ IsSeq(doc.versions)
  BY <1>1, <1>7, FiledAnyway, MappingDoc DEF Resting, Dirs, Valid
<1>10. input.action \in {"bind", "retire"} /\ input.from \in Int /\ input.to \in Int /\ k \in Keys
  BY <1>2, CatalogAssumption DEF Keys
<1>11. PICK mine : \A i : i \in mine <=> i \in 1 .. Len(doc.versions) /\ doc.versions[i].key = k
  <2> DEFINE M == {i \in 1 .. Len(doc.versions) : doc.versions[i].key = k}
  <2>1. \A i : i \in M <=> i \in 1 .. Len(doc.versions) /\ doc.versions[i].key = k
    OBVIOUS
  <2> HIDE DEF M
  <2> QED BY <2>1
<1>12. /\ OfKey(doc.versions, k) = {} <=> mine = {}
       /\ mine # {} => /\ Max(mine) \in mine /\ Previous(doc.versions, k) = doc.versions[Max(mine)]
                       /\ \A j \in mine : doc.versions[j].from <= doc.versions[Max(mine)].from
  BY ONLY <1>9, <1>11, PreviousIs
<1>13. ~new => /\ previous.from \in Int /\ \E x \in doc.keys : x.key = k
  <2>1. SUFFICES ASSUME ~new PROVE previous.from \in Int /\ \E x \in doc.keys : x.key = k
    OBVIOUS
  <2>2. PICK m : m = Max(mine) /\ m \in 1 .. Len(doc.versions) /\ doc.versions[m].key = k /\ previous = doc.versions[m]
    BY <1>2, <1>11, <1>12, <2>1
  <2>3. m \in DOMAIN doc.versions
    BY <1>9, <2>2, SeqFacts
  <2>4. previous.from \in Int /\ ValidateVersion(doc, m, catalog)
    BY <1>9, <2>2, <2>3 DEF ValidMapping
  <2> QED BY <2>2, <2>4 DEF ValidateVersion
<1>14. IF OfKey(doc.versions, k) = {} THEN v.supersedes = 0
       ELSE v.from > Previous(doc.versions, k).from /\ v.supersedes = Previous(doc.versions, k).sequence
  <2>1. CASE new
    BY <1>2, <1>3, <2>1
  <2>2. CASE ~new
    <3>1. input.from > previous.from
      BY <1>7, <1>10, <1>13, <2>2
    <3>2. v.from = input.from /\ v.supersedes = previous.sequence
      BY <1>3, <2>2
    <3> QED BY <1>2, <2>2, <3>1, <3>2
  <2> QED BY <2>1, <2>2
<1>15. doc.keys \subseteq keys /\ \E x \in keys : x.key = k
  BY <1>4, <1>13
<1>16. ValidMapping(next, catalog)
  <2>1. /\ v.sequence = Len(doc.versions) + 1 /\ v.key \in Keys /\ v.from \in Int /\ v.to \in Int
        /\ v.action \in {"bind", "retire"} /\ (v.action = "bind" => v.component \in catalog.components)
    BY <1>3, <1>7, <1>10
  <2>2. IF OfKey(doc.versions, v.key) = {} THEN v.supersedes = 0
        ELSE v.from > Previous(doc.versions, v.key).from /\ v.supersedes = Previous(doc.versions, v.key).sequence
    BY <1>3, <1>14
  <2>3. \E x \in keys : x.key = v.key
    BY <1>3, <1>15
  <2> QED BY ONLY <1>5, <1>9, <1>15, <2>1, <2>2, <2>3, MappedValid
<1>17. /\ a.name = <<"mapping", k>> /\ a.body = key /\ a.once = TRUE
       /\ b.name = <<"mapping version", v>> /\ b.body = v /\ b.once = TRUE
  BY <1>6, Fields
<1>18. <<"mapping", k>>[1] = "mapping" /\ <<"mapping version", v>>[1] = "mapping version"
  OBVIOUS
<1>19. \/ Len(t) = 3 /\ DOMAIN t = {1, 2, 3} /\ t[1] = a /\ t[2] = b /\ t[3] = r
       \/ ~new /\ Len(t) = 2 /\ DOMAIN t = {1, 2} /\ t[1] = b /\ t[2] = r
  <2>1. CASE t = <<a, b, r>>
    BY <2>1
  <2>2. CASE ~new /\ t = <<b, r>>
    BY <2>2
  <2> QED BY <1>8, <2>1, <2>2
<1>20. Has(f, t, <<"mapping version", v>>, v) /\ (new => Has(f, t, <<"mapping", k>>, key))
  BY <1>17, <1>19 DEF Has
<1>21. Filed("mapping", next, f, t)
  <2>1. next.keys = keys /\ next.versions = Append(doc.versions, v)
    BY <1>5
  <2>2. /\ Len(doc.versions) \in Nat /\ DOMAIN doc.versions = 1 .. Len(doc.versions)
        /\ DOMAIN next.versions = 1 .. Len(doc.versions) + 1
        /\ next.versions[Len(doc.versions) + 1] = v /\ \A i \in 1 .. Len(doc.versions) : next.versions[i] = doc.versions[i]
    BY <1>9, <2>1, Appended, SeqFacts
  <2>3. \A i \in DOMAIN next.versions : (i \in DOMAIN doc.versions /\ next.versions[i] = doc.versions[i]) \/ next.versions[i] = v
    BY <2>2
  <2>4. \A i \in DOMAIN next.versions : Has(f, t, <<"mapping version", next.versions[i]>>, next.versions[i])
    BY <1>7, <1>9, <1>20, <2>3 DEF Filed
  <2>5. \A x \in keys : x \in doc.keys \/ (new /\ x = key /\ x.key = k)
    BY <1>4
  <2>6. \A x \in keys : Has(f, t, <<"mapping", x.key>>, x)
    BY <1>7, <1>9, <1>20, <2>5 DEF Filed
  <2> QED BY <2>1, <2>4, <2>6 DEF Filed
<1>22. t[Len(t)] = Registry(next)
       /\ \A i \in DOMAIN t : i = Len(t) \/ (t[i].once /\ t[i].name[1] # "active" /\ t[i].name[1] # "activation")
  <2>1. /\ a.once /\ a.name[1] # "active" /\ a.name[1] # "activation"
        /\ b.once /\ b.name[1] # "active" /\ b.name[1] # "activation"
    BY <1>17, <1>18
  <2>2. r = Registry(next)
    BY <1>6
  <2>3. CASE Len(t) = 3 /\ DOMAIN t = {1, 2, 3} /\ t[1] = a /\ t[2] = b /\ t[3] = r
    BY <2>1, <2>2, <2>3
  <2>4. CASE Len(t) = 2 /\ DOMAIN t = {1, 2} /\ t[1] = b /\ t[2] = r
    BY <2>1, <2>2, <2>4
  <2> QED BY <1>19, <2>3, <2>4
<1>23. Valid("mapping", next, catalog)
  BY <1>16 DEF Valid
<1> QED BY <1>1, <1>21, <1>22, <1>23, OnceWrites

(* What an operation is about to write speaks only of files that are there *)
(* or that it writes first, and its store's ValidateRegistry accepts it.   *)
LEMMA OperationWrites ==
  ASSUME DirsOK(dir), Resting(dir), NEW job, NEW made, JobOK(job, dir["refresh"].doc.log), JobSound(job, dir),
         NEW t, t = Operation(job, made).writes, t # <<>>
  PROVE  Writes(job, DirOf(job), dir[DirOf(job)].doc, dir[DirOf(job)].files, t, dir["catalog"].doc)
<1>1. job.op \in Operations
  BY DEF JobOK, Operations
<1>2. CASE job.op = "init"
  <2>1. DirOf(job) = "mapping" /\ Operation(job, made) = Initialize("mapping")
    BY <1>2 DEF DirOf, Operation
  <2> QED BY <1>2, <2>1, InitializeWrites
<1>3. CASE job.op = "component"
  <2>1. DirOf(job) = "catalog" /\ Operation(job, made) = RegisterComponent(job.c)
    BY <1>3 DEF DirOf, Operation
  <2> QED BY <1>3, <2>1, ComponentWrites
<1>4. CASE job.op = "version"
  <2>1. DirOf(job) = "catalog" /\ Operation(job, made) = RegisterVersion(job.v)
    BY <1>4 DEF DirOf, Operation
  <2> QED BY <1>4, <2>1, VersionWrites
<1>5. CASE job.op = "activate"
  <2>1. DirOf(job) = "catalog"
        /\ Operation(job, made) = Activate(job.c, job.target, job.action, job.expected, job.time)
    BY <1>5 DEF DirOf, Operation
  <2> QED BY <1>5, <2>1, ActivateWrites
<1>6. CASE job.op = "mapping"
  <2>1. DirOf(job) = "mapping" /\ Operation(job, made) = Register(job.input)
    BY <1>6 DEF DirOf, Operation
  <2>2. job.input \in Mappings
    BY <1>6 DEF JobSound
  <2> QED BY <1>6, <2>1, <2>2, RegisterWrites
<1>7. CASE job.op = "candidate"
  <2>1. DirOf(job) = "refresh" /\ Operation(job, made) = AddCandidate(job.k)
    BY <1>7 DEF DirOf, Operation
  <2> QED BY <1>7, <2>1, CandidateWrites
<1>8. CASE job.op = "decide"
  <2>1. DirOf(job) = "refresh" /\ Operation(job, made) = Decide(job.k, job.action, job.time)
    BY <1>8 DEF DirOf, Operation
  <2> QED BY <1>8, <2>1, DecideWrites
<1>9. CASE job.op = "execute"
  <2>1. DirOf(job) = "refresh"
        /\ Operation(job, made) = recordExecution(job.action, job.k, job.decision, made, job.time)
    BY <1>9 DEF DirOf, Operation
  <2>2. job.action \in {"promote", "rollback"}
    BY <1>9 DEF JobOK
  <2>3. job.action = "promote" => job.k \in dir["refresh"].doc.candidates
    BY <1>9 DEF JobSound
  <2> QED BY <1>9, <2>1, <2>2, <2>3, ExecuteWrites
<1> QED BY <1>1, <1>2, <1>3, <1>4, <1>5, <1>6, <1>7, <1>8, <1>9 DEF Operations

---------------------------------------------------------------------------
(* What a step of another command leaves as it is.                         *)

(* Writes on their way stay sound while the catalog gains components.      *)
LEMMA WritesKeep ==
  ASSUME NEW D, NEW E, NEW x, WritesSound(x, D),
         D["catalog"].doc.components \subseteq E["catalog"].doc.components,
         x.at = "write" => /\ E[HeldBy(x)].doc = D[HeldBy(x)].doc
                           /\ E[HeldBy(x)].files = D[HeldBy(x)].files
  PROVE  WritesSound(x, E)
<1> SUFFICES ASSUME x.at = "write", x.todo # <<>> PROVE WritesSound(x, E)
  BY DEF WritesSound
<1>1. PICK job, d, doc, f : job = Head(x.jobs) /\ d = DirOf(job) /\ doc = D[d].doc /\ f = D[d].files
  OBVIOUS
<1>2. PICK s, t : s = D["catalog"].doc /\ t = E["catalog"].doc
  OBVIOUS
<1>3. Writes(job, d, doc, f, x.todo, s)
  BY <1>1, <1>2 DEF WritesSound
<1>4. \A next : Valid(d, next, s) => Valid(d, next, t)
  BY <1>2, ValidKeeps
<1>5. Writes(job, d, doc, f, x.todo, t)
  BY <1>3, <1>4 DEF Writes
<1>6. doc = E[d].doc /\ f = E[d].files
  BY <1>1 DEF HeldBy
<1> QED BY <1>1, <1>2, <1>5, <1>6 DEF WritesSound

(* What rests, rests while the documents and files stay.                   *)
LEMMA RestsKeep ==
  ASSUME NEW D, NEW E, Resting(D), \A d \in Dirs : E[d].doc = D[d].doc /\ E[d].files = D[d].files
  PROVE  Resting(E)
BY DEF Resting, Dirs

(* What an activation needs does not go away, but for an activation of its *)
(* own component.                                                          *)
LEMMA ActivatableKeeps ==
  ASSUME NEW doc, NEW next, IsSeq(doc.log), IsSeq(next.log), IsPrefix(doc.log, next.log),
         doc.components \subseteq next.components, doc.versions \subseteq next.versions,
         NEW c, c \in DOMAIN doc.active <=> c \in DOMAIN next.active, c \in DOMAIN doc.active => next.active[c] = doc.active[c],
         NEW target, NEW action, NEW expected, Activatable(doc, c, target, action, expected)
  PROVE  Activatable(next, c, target, action, expected)
<1>1. findActive(next, c) = findActive(doc, c)
  BY DEF findActive
<1>2. wasActivated(doc, c, target) => wasActivated(next, c, target)
  BY Prefixed DEF wasActivated
<1> QED BY <1>1, <1>2 DEF Activatable

---------------------------------------------------------------------------
(* The commands that a step leaves alone.                                  *)

(* The commands after a step of the command c: those of new, and the       *)
(* others as they were.                                                    *)
OthersStay(c, new) ==
  /\ \A a \in DOMAIN cmd : a # c => \E b \in DOMAIN cmd' : cmd'[b] = cmd[a]
  /\ \A b \in DOMAIN cmd' : cmd'[b] \in new \/ \E a \in DOMAIN cmd : a # c /\ cmd'[b] = cmd[a]

(* One that ends leaves the others.                                        *)
LEMMA EndedStays ==
  ASSUME RegistryInv, NEW c \in DOMAIN cmd, cmd' = Ended(c)
  PROVE  OthersStay(c, {})
<1>1. /\ IsSeq(cmd') /\ Len(cmd') = Len(cmd) - 1 /\ Len(cmd) \in Nat /\ DOMAIN cmd = 1 .. Len(cmd)
      /\ \A i \in DOMAIN cmd' : cmd'[i] = cmd[IF i < c THEN i ELSE i + 1]
  BY Removed, SeqFacts DEF RegistryInv, Ended
<1>2. DOMAIN cmd' = 1 .. Len(cmd) - 1 /\ c \in 1 .. Len(cmd)
  BY <1>1, SeqFacts
<1>3. ASSUME NEW a \in DOMAIN cmd, a # c
      PROVE  \E b \in DOMAIN cmd' : cmd'[b] = cmd[a]
  <2>1. CASE a < c
    BY <1>1, <1>2, <1>3, <2>1
  <2>2. CASE ~(a < c)
    <3>1. a - 1 \in DOMAIN cmd' /\ ~(a - 1 < c) /\ (a - 1) + 1 = a
      BY <1>1, <1>2, <1>3, <2>2
    <3>2. cmd'[a - 1] = cmd[a]
      BY <1>1, <3>1
    <3> QED BY <3>1, <3>2
  <2> QED BY <2>1, <2>2
<1>4. ASSUME NEW b \in DOMAIN cmd'
      PROVE  \E a \in DOMAIN cmd : a # c /\ cmd'[b] = cmd[a]
  <2>1. PICK a : a = IF b < c THEN b ELSE b + 1
    OBVIOUS
  <2>2. a \in DOMAIN cmd /\ a # c
    BY <1>1, <1>2, <2>1
  <2>3. cmd'[b] = cmd[a]
    BY <1>1, <2>1
  <2> QED BY <2>2, <2>3
<1> QED BY <1>3, <1>4 DEF OthersStay

(* One that goes on does, ...                                              *)
LEMMA GoesOnStays ==
  ASSUME RegistryInv, NEW c \in DOMAIN cmd, NEW x, cmd' = [cmd EXCEPT ![c] = x]
  PROVE  OthersStay(c, {x}) /\ c \in DOMAIN cmd' /\ cmd'[c] = x
<1>1. /\ DOMAIN cmd' = DOMAIN cmd /\ cmd'[c] = x
      /\ \A i \in DOMAIN cmd \ {c} : cmd'[i] = cmd[i]
  BY Exchanged DEF RegistryInv
<1> QED BY <1>1 DEF OthersStay

(* ... and one that starts.                                                *)
LEMMA StartStays ==
  ASSUME RegistryInv, NEW x, cmd' = Append(cmd, x)
  PROVE  OthersStay(0, {x})
<1>1. /\ Len(cmd) \in Nat /\ DOMAIN cmd = 1 .. Len(cmd) /\ DOMAIN cmd' = 1 .. Len(cmd) + 1
      /\ cmd'[Len(cmd) + 1] = x /\ \A i \in 1 .. Len(cmd) : cmd'[i] = cmd[i]
  BY Appended, SeqFacts DEF RegistryInv
<1>2. \A c \in DOMAIN cmd' : c \in DOMAIN cmd \/ c = Len(cmd) + 1
  BY <1>1
<1>3. \A c \in DOMAIN cmd : c # 0 /\ c \in DOMAIN cmd'
  BY <1>1
<1> QED BY <1>1, <1>2, <1>3 DEF OthersStay

(* The invariant after a step of the command c.                            *)
LEMMA Assemble ==
  ASSUME FilesInv, NEW c, NEW new, OthersStay(c, new),
         \A x \in new : WritesSound(x, dir') /\ \A i \in DOMAIN x.jobs : JobSound(x.jobs[i], dir'),
         \A a \in DOMAIN cmd : a # c /\ cmd[a].at = "write" =>
           /\ dir'[HeldBy(cmd[a])].doc = dir[HeldBy(cmd[a])].doc
           /\ dir'[HeldBy(cmd[a])].files = dir[HeldBy(cmd[a])].files,
         dir["catalog"].doc.components \subseteq dir'["catalog"].doc.components,
         dir["refresh"].doc.candidates \subseteq dir'["refresh"].doc.candidates,
         stops' \in Nat, Resting(dir'), stops' = 0 => Clean(dir'["catalog"].files),
         \A k \in DOMAIN dir'["catalog"].doc.active :
           \/ Pointed(k, dir'["catalog"]) \/ Ahead(k, dir["catalog"])' \/ stops' > 1
           \/ \E a \in DOMAIN cmd : a # c /\ InFlight(cmd[a], k)
           \/ \E b \in DOMAIN cmd' : InFlight(cmd'[b], k)
  PROVE  FilesInv'
<1>1. ASSUME NEW a \in DOMAIN cmd, a # c
      PROVE  WritesSound(cmd[a], dir') /\ \A i \in DOMAIN cmd[a].jobs : JobSound(cmd[a].jobs[i], dir')
  <2>1. WritesSound(cmd[a], dir) /\ \A i \in DOMAIN cmd[a].jobs : JobSound(cmd[a].jobs[i], dir)
    BY DEF FilesInv
  <2>2. WritesSound(cmd[a], dir')
    BY <1>1, <2>1, WritesKeep
  <2> QED BY <2>1, <2>2 DEF JobSound
<1>2. \A b \in DOMAIN cmd' : WritesSound(cmd'[b], dir') /\ \A i \in DOMAIN cmd'[b].jobs : JobSound(cmd'[b].jobs[i], dir')
  <2> SUFFICES ASSUME NEW b \in DOMAIN cmd'
               PROVE  WritesSound(cmd'[b], dir') /\ \A i \in DOMAIN cmd'[b].jobs : JobSound(cmd'[b].jobs[i], dir')
    OBVIOUS
  <2>1. PICK x : x = cmd'[b]
    OBVIOUS
  <2>2. x \in new \/ \E a \in DOMAIN cmd : a # c /\ x = cmd[a]
    BY <2>1 DEF OthersStay
  <2> QED BY <1>1, <2>1, <2>2
<1>3. Pointers'
  <2>1. ASSUME NEW k, \E a \in DOMAIN cmd : a # c /\ InFlight(cmd[a], k)
        PROVE  \E b \in DOMAIN cmd' : InFlight(cmd'[b], k)
    BY <2>1 DEF OthersStay
  <2> QED BY <2>1 DEF Pointers
<1> QED BY <1>2, <1>3 DEF FilesInv

(* The invariant after a step that leaves all documents and files alone.   *)
LEMMA QuietStep ==
  ASSUME RegistryInv, FilesInv, NEW c, NEW new, OthersStay(c, new),
         \A x \in new : WritesSound(x, dir') /\ \A i \in DOMAIN x.jobs : JobSound(x.jobs[i], dir'),
         \A d \in Dirs : dir'[d].doc = dir[d].doc /\ dir'[d].files = dir[d].files,
         \A a \in DOMAIN cmd : \A k : a = c => ~InFlight(cmd[a], k),
         stops' = stops, cut' = cut
  PROVE  FilesInv'
<1>1. "catalog" \in Dirs /\ "refresh" \in Dirs /\ Resting(dir) /\ stops \in Nat
  BY DEF Dirs, FilesInv
<1>2. Resting(dir')
  BY <1>1, RestsKeep
<1>3. \A a \in DOMAIN cmd : HeldBy(cmd[a]) \in Dirs
  BY JobIn
<1>4. PICK D, E : D = dir["catalog"] /\ E = dir'["catalog"]
  OBVIOUS
<1>5. D.doc = E.doc /\ D.files = E.files
  BY <1>1, <1>4
<1>6. ASSUME NEW k \in DOMAIN E.doc.active
      PROVE  \/ Pointed(k, E) \/ Ahead(k, dir["catalog"])' \/ stops' > 1
             \/ \E a \in DOMAIN cmd : a # c /\ InFlight(cmd[a], k)
  <2>1. \/ Pointed(k, D) \/ Ahead(k, D) \/ stops > 1
        \/ \E a \in DOMAIN cmd : InFlight(cmd[a], k)
    BY <1>4, <1>5 DEF FilesInv, Pointers
  <2>2. Pointed(k, D) => Pointed(k, E)
    BY <1>5 DEF Pointed
  <2>3. Ahead(k, D) => Ahead(k, dir["catalog"])'
    BY <1>4, <1>5 DEF Ahead
  <2> QED BY <2>1, <2>2, <2>3
<1>7. stops' = 0 => Clean(E.files)
  BY <1>4, <1>5 DEF FilesInv
<1> QED BY <1>1, <1>2, <1>3, <1>4, <1>5, <1>6, <1>7, Assemble

---------------------------------------------------------------------------
(* The steps that leave all documents and files alone.                     *)

(* A command that starts.                                                  *)
LEMMA StartFiles ==
  ASSUME RegistryInv, FilesInv, NEW jobs, \A i \in DOMAIN jobs : JobSound(jobs[i], dir), Start(jobs)
  PROVE  FilesInv'
<1>1. PICK x : x = [at |-> "lock", jobs |-> jobs, todo |-> <<>>, made |-> <<>>]
  OBVIOUS
<1>2. cmd' = Append(cmd, x) /\ dir' = dir /\ cut' = cut /\ stops' = stops
  BY <1>1 DEF Start
<1>3. x.at = "lock" /\ x.jobs = jobs
  BY <1>1
<1>4. WritesSound(x, dir')
  BY <1>3 DEF WritesSound
<1>5. OthersStay(0, {x})
  BY <1>2, StartStays
<1>6. \A a \in DOMAIN cmd : a # 0
  BY SeqFacts DEF RegistryInv
<1> QED BY <1>2, <1>3, <1>4, <1>5, <1>6, QuietStep

(* The commands of the three programs start with such jobs.                *)
LEMMA StartsSound ==
  ASSUME RegistryInv, FilesInv,
         StartCatalog \/ StartMapping \/ StartAnalyze \/ StartDecide \/ StartPromote \/ StartRollback
  PROVE  FilesInv'
<1>1. ASSUME NEW job, job.op # "mapping", job.op # "execute", Start(<<job>>) PROVE FilesInv'
  <2>1. \A i \in DOMAIN <<job>> : <<job>>[i] = job
    OBVIOUS
  <2>2. JobSound(job, dir)
    BY <1>1 DEF JobSound
  <2> QED BY <1>1, <2>1, <2>2, StartFiles
<1>2. CASE StartCatalog
  <2>1. ASSUME NEW job \in ComponentJobs \cup VersionJobs, Start(<<job>>) PROVE FilesInv'
    <3>1. job.op # "mapping" /\ job.op # "execute"
      BY DEF ComponentJobs, VersionJobs
    <3> QED BY <1>1, <2>1, <3>1
  <2>2. ASSUME NEW c, NEW target, NEW action, Start(<<ActivateJob(c, target, action, NoVersion, Now)>>) PROVE FilesInv'
    <3>1. PICK job : job = ActivateJob(c, target, action, NoVersion, Now)
      OBVIOUS
    <3>2. job.op # "mapping" /\ job.op # "execute"
      BY <3>1 DEF ActivateJob
    <3> QED BY <1>1, <2>2, <3>1, <3>2
  <2> QED BY <1>2, <2>1, <2>2 DEF StartCatalog
<1>3. CASE StartMapping
  <2>1. ASSUME Start(<<[op |-> "init"]>>) PROVE FilesInv'
    <3>1. PICK job : job = [op |-> "init"]
      OBVIOUS
    <3>2. job.op # "mapping" /\ job.op # "execute"
      BY <3>1
    <3> QED BY <1>1, <2>1, <3>1, <3>2
  <2>2. ASSUME NEW job \in MappingJobs, Start(<<job>>) PROVE FilesInv'
    <3>1. job.op = "mapping" /\ job.input \in Mappings
      BY DEF MappingJobs
    <3>2. \A i \in DOMAIN <<job>> : <<job>>[i] = job
      OBVIOUS
    <3>3. JobSound(job, dir)
      BY <3>1 DEF JobSound
    <3> QED BY <2>2, <3>2, <3>3, StartFiles
  <2> QED BY <1>3, <2>1, <2>2 DEF StartMapping
<1>4. CASE StartAnalyze
  <2>1. PICK k : Start(<<[op |-> "candidate", k |-> k]>>)
    BY <1>4 DEF StartAnalyze
  <2>2. PICK job : job = [op |-> "candidate", k |-> k]
    OBVIOUS
  <2>3. job.op # "mapping" /\ job.op # "execute"
    BY <2>2
  <2> QED BY <1>1, <2>1, <2>2, <2>3
<1>5. CASE StartDecide
  <2>1. PICK k, action : Start(<<[op |-> "decide", k |-> k, action |-> action, time |-> 1]>>)
    BY <1>5 DEF StartDecide
  <2>2. PICK job : job = [op |-> "decide", k |-> k, action |-> action, time |-> 1]
    OBVIOUS
  <2>3. job.op # "mapping" /\ job.op # "execute"
    BY <2>2
  <2> QED BY <1>1, <2>1, <2>2, <2>3
<1>6. CASE StartPromote
  <2>1. PICK doc : doc = dir["refresh"].doc
    OBVIOUS
  <2>2. PICK k, at, v :
          /\ k \in doc.candidates /\ at \in Times /\ v = BuildVersion(k.component, k.provider, k.ref, k.part, at)
          /\ Start(<<[op |-> "version", v |-> v],
                     ActivateJob(k.component, v.id, "activate", k.expected, at),
                     [op |-> "execute", action |-> "promote", k |-> k,
                      decision |-> latestDecision(doc, k), time |-> at]>>)
    BY <1>6, <2>1 DEF StartPromote
  <2>3. PICK a, b, c :
          /\ a = [op |-> "version", v |-> v]
          /\ b = ActivateJob(k.component, v.id, "activate", k.expected, at)
          /\ c = [op |-> "execute", action |-> "promote", k |-> k,
                  decision |-> latestDecision(doc, k), time |-> at]
    OBVIOUS
  <2>4. JobSound(a, dir) /\ JobSound(b, dir) /\ JobSound(c, dir)
    BY <2>1, <2>2, <2>3 DEF JobSound, ActivateJob
  <2>5. PICK jobs : jobs = <<a, b, c>>
    OBVIOUS
  <2>6. \A i \in DOMAIN jobs : JobSound(jobs[i], dir)
    <3>1. DOMAIN jobs = {1, 2, 3} /\ jobs[1] = a /\ jobs[2] = b /\ jobs[3] = c
      BY <2>5
    <3> QED BY <2>4, <3>1
  <2> QED BY <2>2, <2>3, <2>5, <2>6, StartFiles
<1>7. CASE StartRollback
  <2>1. PICK v, e :
          Start(<<ActivateJob(v.component, v.id, "rollback", e, Now),
                  [op |-> "execute", action |-> "rollback", k |-> <<>>, decision |-> 0, time |-> Now]>>)
    BY <1>7 DEF StartRollback
  <2>2. PICK a, b :
          /\ a = ActivateJob(v.component, v.id, "rollback", e, Now)
          /\ b = [op |-> "execute", action |-> "rollback", k |-> <<>>, decision |-> 0, time |-> Now]
    OBVIOUS
  <2>3. JobSound(a, dir) /\ JobSound(b, dir)
    BY <2>2 DEF JobSound, ActivateJob
  <2>4. PICK jobs : jobs = <<a, b>>
    OBVIOUS
  <2>5. \A i \in DOMAIN jobs : JobSound(jobs[i], dir)
    <3>1. DOMAIN jobs = {1, 2} /\ jobs[1] = a /\ jobs[2] = b
      BY <2>4
    <3> QED BY <2>3, <3>1
  <2> QED BY <2>1, <2>2, <2>4, <2>5, StartFiles
<1> QED BY <1>2, <1>3, <1>4, <1>5, <1>6, <1>7

(* A lock is no document and no file.                                      *)
LEMMA LockKeeps ==
  ASSUME RegistryInv, NEW d \in Dirs, NEW v, dir' = [dir EXCEPT ![d].lock = v]
  PROVE  \A e \in Dirs : dir'[e].doc = dir[e].doc /\ dir'[e].files = dir[e].files
<1>1. DOMAIN dir = Dirs /\ \A e \in Dirs : DOMAIN dir[e] = {"lock", "doc", "files"}
  BY DEF RegistryInv, DirsOK
<1> QED BY <1>1

(* withLock.                                                               *)
LEMMA LockFiles ==
  ASSUME RegistryInv, FilesInv, NEW c \in DOMAIN cmd, LockDir(c)
  PROVE  FilesInv'
<1>1. PICK job, d, o, made : job = Head(cmd[c].jobs) /\ d = DirOf(job) /\ made = cmd[c].made /\ o = Operation(job, made)
  OBVIOUS
<1>2. cmd[c].at = "lock" /\ d \in Dirs /\ cut' = cut /\ stops' = stops
  BY <1>1, JobIn DEF LockDir, HeldBy
<1>3. \A k : ~InFlight(cmd[c], k)
  BY <1>2 DEF InFlight
<1>4. CASE ~dir[d].lock /\ o.ok
  <2>1. /\ dir' = [dir EXCEPT ![d].lock = TRUE]
        /\ cmd' = [cmd EXCEPT ![c].at = "write", ![c].todo = o.writes, ![c].made = o.made]
    BY <1>1, <1>4 DEF LockDir
  <2>2. \A e \in Dirs : dir'[e].doc = dir[e].doc /\ dir'[e].files = dir[e].files
    BY <1>2, <2>1, LockKeeps
  <2>3. PICK x : x = [cmd[c] EXCEPT !.at = "write", !.todo = o.writes, !.made = o.made]
    OBVIOUS
  <2>4. x.at = "write" /\ x.jobs = cmd[c].jobs /\ x.todo = o.writes
    BY <2>3, CommandFields
  <2>5. cmd' = [cmd EXCEPT ![c] = x]
    BY <2>1, <2>3
  <2>6. /\ \A i \in DOMAIN cmd[c].jobs : JobSound(cmd[c].jobs[i], dir)
        /\ JobOK(job, dir["refresh"].doc.log) /\ DirsOK(dir) /\ JobSound(job, dir) /\ Resting(dir)
    BY <1>1, JobIn DEF RegistryInv, FilesInv
  <2>7. PICK t : t = o.writes
    OBVIOUS
  <2>8. t # <<>> => Writes(job, d, dir[d].doc, dir[d].files, t, dir["catalog"].doc)
    BY <1>1, <2>6, <2>7, OperationWrites
  <2>9. "catalog" \in Dirs /\ "refresh" \in Dirs
    BY DEF Dirs
  <2>10. WritesSound(x, dir')
    BY <1>1, <1>2, <2>2, <2>4, <2>7, <2>8, <2>9 DEF WritesSound
  <2>11. \A i \in DOMAIN x.jobs : JobSound(x.jobs[i], dir')
    BY <2>2, <2>4, <2>6, <2>9 DEF JobSound
  <2>12. OthersStay(c, {x})
    BY <2>5, GoesOnStays
  <2> QED BY <1>2, <1>3, <2>2, <2>10, <2>11, <2>12, QuietStep
<1>5. CASE ~(~dir[d].lock /\ o.ok)
  <2>1. dir' = dir /\ cmd' = Ended(c)
    BY <1>1, <1>5 DEF LockDir
  <2> QED BY <1>2, <1>3, <2>1, EndedStays, QuietStep
<1> QED BY <1>4, <1>5

(* Giving back the lock.                                                   *)
LEMMA UnlockFiles ==
  ASSUME RegistryInv, FilesInv, NEW c \in DOMAIN cmd, Unlock(c)
  PROVE  FilesInv'
<1>1. PICK jobs, d : jobs = cmd[c].jobs /\ d = DirOf(Head(jobs))
  OBVIOUS
<1>2. /\ cmd[c].at = "write" /\ cmd[c].todo = <<>> /\ d \in Dirs /\ cut' = cut /\ stops' = stops
      /\ dir' = [dir EXCEPT ![d].lock = FALSE]
  BY <1>1, JobIn DEF Unlock, HeldBy
<1>3. \A k : ~InFlight(cmd[c], k)
  <2>1. Len(<<>>) = 0
    OBVIOUS
  <2> QED BY <1>2, <2>1 DEF InFlight
<1>4. \A e \in Dirs : dir'[e].doc = dir[e].doc /\ dir'[e].files = dir[e].files
  BY <1>2, LockKeeps
<1>5. CASE Tail(jobs) = <<>>
  <2>1. cmd' = Ended(c)
    BY <1>1, <1>5 DEF Unlock
  <2> QED BY <1>2, <1>3, <1>4, <2>1, EndedStays, QuietStep
<1>6. CASE Tail(jobs) # <<>>
  <2>1. PICK rest : rest = Tail(jobs)
    OBVIOUS
  <2>2. cmd' = [cmd EXCEPT ![c].at = "lock", ![c].jobs = rest]
    BY <1>1, <1>6, <2>1 DEF Unlock
  <2>3. PICK x : x = [cmd[c] EXCEPT !.at = "lock", !.jobs = rest]
    OBVIOUS
  <2>4. x.at = "lock" /\ x.jobs = rest
    BY <1>2, <2>3, CommandFields
  <2>5. cmd' = [cmd EXCEPT ![c] = x]
    BY <2>2, <2>3
  <2>6. IsSeq(jobs) /\ jobs # <<>>
    BY <1>1, JobIn
  <2>7. /\ IsSeq(rest) /\ Len(rest) = Len(jobs) - 1 /\ Len(jobs) \in Nat
        /\ DOMAIN jobs = 1 .. Len(jobs) /\ \A i \in 1 .. Len(rest) : rest[i] = jobs[i + 1]
    BY <1>6, <2>1, <2>6, Rest, SeqFacts
  <2>8. DOMAIN rest = 1 .. Len(rest)
    BY <2>7, SeqFacts
  <2>9. ASSUME NEW i \in DOMAIN rest PROVE JobSound(rest[i], dir')
    <3>1. rest[i] = jobs[i + 1] /\ i + 1 \in DOMAIN jobs
      BY <2>7, <2>8
    <3>2. JobSound(rest[i], dir)
      BY <1>1, <3>1 DEF FilesInv
    <3>3. "refresh" \in Dirs
      BY DEF Dirs
    <3> QED BY <1>4, <3>2, <3>3 DEF JobSound
  <2>10. WritesSound(x, dir')
    BY <2>4 DEF WritesSound
  <2>11. OthersStay(c, {x})
    BY <2>5, GoesOnStays
  <2>12. \A i \in DOMAIN x.jobs : JobSound(x.jobs[i], dir')
    BY <2>4, <2>9
  <2>13. cut' = cut /\ stops' = stops
    BY <1>2
  <2>14. \A y \in {x} : WritesSound(y, dir') /\ \A i \in DOMAIN y.jobs : JobSound(y.jobs[i], dir')
    BY <2>10, <2>12
  <2> QED BY <1>3, <1>4, <2>11, <2>13, <2>14, QuietStep
<1> QED BY <1>5, <1>6

(* The operator removes a lock.                                            *)
LEMMA RemoveFiles ==
  ASSUME RegistryInv, FilesInv, NEW d \in Dirs, RemoveLock(d)
  PROVE  FilesInv'
<1>1. cmd = <<>> /\ cmd' = cmd /\ dir' = [dir EXCEPT ![d].lock = FALSE] /\ cut' = cut /\ stops' = stops
  BY DEF RemoveLock
<1>2. DOMAIN cmd = {} /\ DOMAIN cmd' = {}
  BY <1>1
<1>3. \A e \in Dirs : dir'[e].doc = dir[e].doc /\ dir'[e].files = dir[e].files
  BY <1>1, LockKeeps
<1>4. OthersStay(0, {})
  BY <1>2 DEF OthersStay
<1> QED BY <1>1, <1>2, <1>3, <1>4, QuietStep

---------------------------------------------------------------------------
(* A stop.                                                                 *)

(* Files that are added take none away.                                    *)
LEMMA HasMore ==
  ASSUME NEW f, NEW g, \A n \in DOMAIN f : n \in DOMAIN g /\ g[n] = f[n], NEW d, NEW doc, Filed(d, doc, f, <<>>)
  PROVE  Filed(d, doc, g, <<>>)
<1>1. \A n, b : Has(f, <<>>, n, b) => Has(g, <<>>, n, b)
  BY DEF Has
<1> QED BY <1>1, FiledKeeps

(* The pointer of an activation that is on its way may be written.         *)
LEMMA InFlightFacts ==
  ASSUME RegistryInv, FilesInv, NEW c \in DOMAIN cmd, NEW k, InFlight(cmd[c], k)
  PROVE  LET job == Head(cmd[c].jobs) IN
         /\ job.op = "activate" /\ job.c = k /\ Len(cmd[c].todo) = 1 /\ cmd[c].todo # <<>>
         /\ ~Head(cmd[c].todo).once /\ IsRegistry(Head(cmd[c].todo))
         /\ Activatable(dir["catalog"].doc, k, job.target, job.action, job.expected)
<1>1. PICK job, t : job = Head(cmd[c].jobs) /\ t = cmd[c].todo
  OBVIOUS
<1>2. cmd[c].at = "write" /\ job.op = "activate" /\ job.c = k /\ Len(t) = 1
  BY <1>1 DEF InFlight
<1>3. WritesOK(cmd[c], dir) /\ WritesSound(cmd[c], dir)
  BY <1>2, CommandFields DEF FilesInv
<1>4. IsSeq(t) /\ t # <<>>
  <2>1. Len(<<>>) = 0
    OBVIOUS
  <2> QED BY <1>1, <1>2, <1>3, <2>1 DEF WritesOK
<1>5. Head(t) = t[1] /\ 1 \in DOMAIN t
  BY <1>2, <1>4, Rest, SeqFacts
<1>6. DirOf(job) = "catalog"
  BY <1>2 DEF DirOf
<1>7. Writes(job, "catalog", dir["catalog"].doc, dir["catalog"].files, t, dir["catalog"].doc)
  BY <1>1, <1>2, <1>3, <1>4, <1>6 DEF WritesSound
<1>8. IsRegistry(t[1]) /\ ~t[1].once
  <2>1. IsRegistry(t[1])
    BY <1>2, <1>7 DEF Writes
  <2> QED BY <1>1, <1>3, <1>5, <2>1 DEF WritesOK
<1>9. Activatable(dir["catalog"].doc, job.c, job.target, job.action, job.expected)
  BY <1>2, <1>7 DEF Writes, Activating
<1> QED BY <1>1, <1>2, <1>4, <1>5, <1>8, <1>9

(* What a stop leaves of the directories: one torn file more, at most.     *)
LEMMA StopLeaves ==
  ASSUME RegistryInv, NEW c \in DOMAIN cmd, Stop(c)
  PROVE  /\ \A e \in Dirs : dir'[e].doc = dir[e].doc
         /\ \A e \in Dirs : \A n \in DOMAIN dir[e].files : n \in DOMAIN dir'[e].files /\ dir'[e].files[n] = dir[e].files[n]
         /\ \A a \in DOMAIN cmd : a # c /\ cmd[a].at = "write" => dir'[HeldBy(cmd[a])] = dir[HeldBy(cmd[a])]
         /\ cmd[c].todo = <<>> \/ ~Head(cmd[c].todo).once => dir' = dir
<1>1. CASE dir' = dir
  BY <1>1
<1>2. CASE dir' # dir
  <2>1. PICK d, w, t : /\ d = DirOf(Head(cmd[c].jobs)) /\ w = Head(cmd[c].todo)
                       /\ t = [w EXCEPT !.body = Torn]
    OBVIOUS
  <2>2. /\ cmd[c].todo # <<>> /\ w.once /\ d = HeldBy(cmd[c]) /\ d \in Dirs /\ w.name \notin DOMAIN dir[d].files
        /\ dir' = [dir EXCEPT ![d] = Written(@, t)]
    BY <1>2, <2>1, JobIn DEF Stop, HeldBy
  <2>3. cmd[c].at = "write" /\ WritesOK(cmd[c], dir)
    BY <2>2, CommandFields
  <2>4. IsSeq(cmd[c].todo)
    BY <2>3 DEF WritesOK
  <2>5. w = cmd[c].todo[1] /\ 1 \in DOMAIN cmd[c].todo
    BY <2>1, <2>2, <2>4, Rest, SeqFacts
  <2>6. IsWrite(w) /\ ~IsRegistry(w)
    BY <2>2, <2>3, <2>5 DEF WritesOK
  <2>7. ~IsRegistry(t) /\ t.name = w.name
    BY <2>1, <2>6 DEF IsWrite, IsRegistry
  <2>8. \A b \in DOMAIN cmd \ {c} : cmd[b].at = "write" => HeldBy(cmd[b]) # d
    BY <2>2, <2>3, OthersElsewhere
  <2>9. DOMAIN dir = Dirs /\ DOMAIN dir[d] = {"lock", "doc", "files"}
    BY <2>2 DEF RegistryInv, DirsOK
  <2>10. dir'[d] = Written(dir[d], t) /\ \A e \in Dirs \ {d} : dir'[e] = dir[e]
    BY <2>2, <2>9
  <2>11. ~Collides(dir[d], t)
    BY <2>2, <2>7 DEF Collides
  <2>12. PICK D, E : D = dir[d] /\ E = dir'[d]
    OBVIOUS
  <2>13. E.doc = D.doc /\ \A n \in DOMAIN D.files : n \in DOMAIN E.files /\ E.files[n] = D.files[n]
    <3>1. DOMAIN D = {"lock", "doc", "files"} /\ ~IsRegistry(t) /\ ~Collides(D, t)
      BY <2>7, <2>9, <2>11, <2>12
    <3>2. E = Written(D, t) /\ t.name \notin DOMAIN D.files
      BY <2>2, <2>7, <2>10, <2>12
    <3>3. /\ E.doc = D.doc /\ DOMAIN E.files = DOMAIN D.files \cup {t.name}
          /\ \A n \in DOMAIN D.files : n # t.name \/ t.once => E.files[n] = D.files[n]
      BY ONLY <3>1, <3>2, WrittenFiles
    <3> QED BY <3>2, <3>3
  <2>14. \A e \in Dirs : dir'[e].doc = dir[e].doc
    BY <2>10, <2>12, <2>13
  <2>15. \A e \in Dirs : \A n \in DOMAIN dir[e].files : n \in DOMAIN dir'[e].files /\ dir'[e].files[n] = dir[e].files[n]
    BY <2>10, <2>12, <2>13
  <2>16. \A a \in DOMAIN cmd : a # c /\ cmd[a].at = "write" => dir'[HeldBy(cmd[a])] = dir[HeldBy(cmd[a])]
    BY <2>8, <2>10, JobIn
  <2> QED BY <2>1, <2>2, <2>14, <2>15, <2>16
<1> QED BY <1>1, <1>2

(* A stop keeps the invariant: the first leaves one pointer ahead at most. *)
LEMMA StopFiles ==
  ASSUME RegistryInv, FilesInv, NEW c \in DOMAIN cmd, Stop(c)
  PROVE  FilesInv'
<1>1. cmd' = Ended(c) /\ stops' = stops + 1 /\ cut' = Head(cmd[c].jobs) /\ stops \in Nat
  BY DEF Stop, FilesInv
<1>2. OthersStay(c, {})
  BY <1>1, EndedStays
<1>3. "catalog" \in Dirs /\ "refresh" \in Dirs
  BY DEF Dirs
<1>4. /\ \A e \in Dirs : dir'[e].doc = dir[e].doc
      /\ \A e \in Dirs : \A n \in DOMAIN dir[e].files : n \in DOMAIN dir'[e].files /\ dir'[e].files[n] = dir[e].files[n]
      /\ \A a \in DOMAIN cmd : a # c /\ cmd[a].at = "write" => dir'[HeldBy(cmd[a])] = dir[HeldBy(cmd[a])]
      /\ cmd[c].todo = <<>> \/ ~Head(cmd[c].todo).once => dir' = dir
  BY StopLeaves
<1>5. Resting(dir')
  <2> SUFFICES ASSUME NEW d \in Dirs
               PROVE  Valid(d, dir'[d].doc, dir'["catalog"].doc) /\ Filed(d, dir'[d].doc, dir'[d].files, <<>>)
    BY DEF Resting
  <2>1. Valid(d, dir[d].doc, dir["catalog"].doc) /\ Filed(d, dir[d].doc, dir[d].files, <<>>)
    BY DEF FilesInv, Resting
  <2>2. PICK doc, f, g : doc = dir[d].doc /\ f = dir[d].files /\ g = dir'[d].files
    OBVIOUS
  <2>3. \A n \in DOMAIN f : n \in DOMAIN g /\ g[n] = f[n]
    BY <1>4, <2>2
  <2>4. Filed(d, doc, g, <<>>)
    BY <2>1, <2>2, <2>3, HasMore
  <2> QED BY <1>3, <1>4, <2>1, <2>2, <2>4
<1>6. stops' # 0
  BY <1>1
<1>7. ASSUME NEW k \in DOMAIN dir'["catalog"].doc.active
      PROVE  \/ Pointed(k, dir'["catalog"]) \/ Ahead(k, dir["catalog"])' \/ stops' > 1
             \/ \E a \in DOMAIN cmd : a # c /\ InFlight(cmd[a], k)
  <2>1. \/ Pointed(k, dir["catalog"]) \/ Ahead(k, dir["catalog"]) \/ stops > 1
        \/ \E a \in DOMAIN cmd : InFlight(cmd[a], k)
    BY <1>3, <1>4 DEF FilesInv, Pointers
  <2>2. CASE Pointed(k, dir["catalog"])
    BY <1>3, <1>4, <2>2 DEF Pointed
  <2>3. CASE stops >= 1
    BY <1>1, <2>3
  <2>4. Ahead(k, dir["catalog"]) \/ stops > 1 => stops >= 1
    BY <1>1 DEF Ahead
  <2>5. CASE stops = 0 /\ InFlight(cmd[c], k)
    <3>1. PICK job : job = Head(cmd[c].jobs)
      OBVIOUS
    <3>2. /\ job.op = "activate" /\ job.c = k /\ ~Head(cmd[c].todo).once
          /\ Activatable(dir["catalog"].doc, k, job.target, job.action, job.expected)
      BY <2>5, <3>1, InFlightFacts
    <3>3. dir' = dir /\ Clean(dir["catalog"].files)
      BY <1>4, <2>5, <3>2 DEF FilesInv
    <3>4. stops' = 1 /\ cut' = job
      BY <1>1, <2>5, <3>1
    <3>5. Ahead(k, dir["catalog"])'
      BY <3>2, <3>3, <3>4 DEF Ahead
    <3> QED BY <3>5
  <2>6. stops = 0 \/ stops >= 1
    BY <1>1
  <2> QED BY <2>1, <2>2, <2>3, <2>4, <2>5, <2>6
<1>8. stops' \in Nat
  BY <1>1
<1>9. \A x \in {} : WritesSound(x, dir') /\ \A i \in DOMAIN x.jobs : JobSound(x.jobs[i], dir')
  OBVIOUS
<1>10. \A a \in DOMAIN cmd : a # c /\ cmd[a].at = "write" =>
         /\ dir'[HeldBy(cmd[a])].doc = dir[HeldBy(cmd[a])].doc
         /\ dir'[HeldBy(cmd[a])].files = dir[HeldBy(cmd[a])].files
  BY <1>4
<1> QED BY <1>2, <1>3, <1>4, <1>5, <1>6, <1>7, <1>8, <1>9, <1>10, Assemble

---------------------------------------------------------------------------
(* A write.                                                                *)

(* The write that comes next, of the command c.                            *)
Writing(c, job, d, w, todo) ==
  /\ job = Head(cmd[c].jobs) /\ d = DirOf(job) /\ todo = cmd[c].todo /\ w = Head(todo)

(* What is known of it, ...                                                *)
LEMMA WritingFacts ==
  ASSUME RegistryInv, FilesInv, NEW c \in DOMAIN cmd, WriteNext(c),
         NEW job, NEW d, NEW w, NEW todo, Writing(c, job, d, w, todo)
  PROVE  /\ d \in Dirs /\ cut' = cut /\ stops' = stops /\ d = HeldBy(cmd[c])
         /\ \A b \in DOMAIN cmd \ {c} : cmd[b].at = "write" => HeldBy(cmd[b]) # d
         /\ IsSeq(todo) /\ todo # <<>> /\ Len(todo) \in Nat /\ Len(todo) >= 1 /\ DOMAIN todo = 1 .. Len(todo)
         /\ w = todo[1] /\ Len(Tail(todo)) = Len(todo) - 1 /\ DOMAIN Tail(todo) = 1 .. Len(todo) - 1
         /\ \A i \in 1 .. Len(todo) - 1 : Tail(todo)[i] = todo[i + 1]
         /\ Writes(job, d, dir[d].doc, dir[d].files, todo, dir["catalog"].doc)
         /\ \A i \in DOMAIN todo : IsRegistry(todo[i]) => i = Len(todo) /\ ~todo[i].once
<1>1. /\ cmd[c].at = "write" /\ todo # <<>> /\ d = HeldBy(cmd[c]) /\ d \in Dirs
      /\ WritesOK(cmd[c], dir) /\ cut' = cut /\ stops' = stops
  BY JobIn, CommandFields DEF WriteNext, HeldBy, Writing
<1>2. IsSeq(todo) /\ \A i \in DOMAIN todo : IsRegistry(todo[i]) => i = Len(todo) /\ ~todo[i].once
  BY <1>1 DEF WritesOK, Writing
<1>3. /\ IsSeq(Tail(todo)) /\ Len(Tail(todo)) = Len(todo) - 1 /\ Len(todo) >= 1 /\ Len(todo) \in Nat
      /\ w = todo[1] /\ (\A i \in 1 .. Len(Tail(todo)) : Tail(todo)[i] = todo[i + 1])
      /\ DOMAIN todo = 1 .. Len(todo) /\ DOMAIN Tail(todo) = 1 .. Len(todo) - 1
  BY <1>1, <1>2, Rest, SeqFacts DEF Writing
<1>4. \A b \in DOMAIN cmd \ {c} : cmd[b].at = "write" => HeldBy(cmd[b]) # d
  BY <1>1, OthersElsewhere
<1>5. WritesSound(cmd[c], dir)
  BY DEF FilesInv
<1>6. Writes(job, d, dir[d].doc, dir[d].files, todo, dir["catalog"].doc)
  BY <1>1, <1>5 DEF WritesSound, Writing
<1> QED BY <1>1, <1>2, <1>3, <1>4, <1>6

(* ... and of the commands and directories after it.                       *)
LEMMA WritingLeaves ==
  ASSUME RegistryInv, FilesInv, NEW c \in DOMAIN cmd, WriteNext(c),
         NEW job, NEW d, NEW w, NEW todo, Writing(c, job, d, w, todo), ~Collides(dir[d], w)
  PROVE  /\ \E x : /\ x.at = "write" /\ x.jobs = cmd[c].jobs /\ x.todo = Tail(todo)
                   /\ OthersStay(c, {x}) /\ c \in DOMAIN cmd' /\ cmd'[c] = x
         /\ DOMAIN dir[d] = {"lock", "doc", "files"} /\ dir'[d] = Written(dir[d], w) /\ \A e \in Dirs \ {d} : dir'[e] = dir[e]
         /\ \A a \in DOMAIN cmd : a # c /\ cmd[a].at = "write" =>
              /\ dir'[HeldBy(cmd[a])].doc = dir[HeldBy(cmd[a])].doc
              /\ dir'[HeldBy(cmd[a])].files = dir[HeldBy(cmd[a])].files
         /\ \A e \in Dirs : Grows(e, dir[e].doc, dir'[e].doc)
<1>1. dir' = [dir EXCEPT ![d] = Written(@, w)] /\ cmd' = [cmd EXCEPT ![c].todo = Tail(@)] /\ cmd[c].at = "write"
  BY DEF WriteNext, Writing
<1>2. PICK x : x = [cmd[c] EXCEPT !.todo = Tail(@)]
  OBVIOUS
<1>3. x.at = "write" /\ x.jobs = cmd[c].jobs /\ x.todo = Tail(todo)
  BY <1>1, <1>2, CommandFields DEF Writing
<1>4. cmd' = [cmd EXCEPT ![c] = x]
  BY <1>1, <1>2
<1>5. OthersStay(c, {x}) /\ c \in DOMAIN cmd' /\ cmd'[c] = x
  BY <1>4, GoesOnStays
<1>6. d \in Dirs /\ \A b \in DOMAIN cmd \ {c} : cmd[b].at = "write" => HeldBy(cmd[b]) # d
  BY WritingFacts
<1>7. DOMAIN dir = Dirs /\ DOMAIN dir[d] = {"lock", "doc", "files"}
  BY <1>6 DEF RegistryInv, DirsOK
<1>8. dir'[d] = Written(dir[d], w) /\ \A e \in Dirs \ {d} : dir'[e] = dir[e]
  BY <1>1, <1>6, <1>7
<1>9. \A a \in DOMAIN cmd : a # c /\ cmd[a].at = "write" => dir'[HeldBy(cmd[a])] = dir[HeldBy(cmd[a])]
  BY <1>6, <1>8, JobIn
<1>10. \A e \in Dirs : Grows(e, dir[e].doc, dir'[e].doc)
  BY WriteOK DEF DirsGrow
<1> QED BY <1>3, <1>5, <1>7, <1>8, <1>9, <1>10

(* A collision ends the command; it was not about to write registry.json.  *)
LEMMA CollisionFiles ==
  ASSUME RegistryInv, FilesInv, NEW c \in DOMAIN cmd, WriteNext(c),
         NEW job, NEW d, NEW w, NEW todo, Writing(c, job, d, w, todo), Collides(dir[d], w)
  PROVE  FilesInv'
<1>1. dir' = [dir EXCEPT ![d].lock = FALSE] /\ cmd' = Ended(c)
  BY DEF WriteNext, Writing
<1>2. d \in Dirs /\ cut' = cut /\ stops' = stops
  BY WritingFacts
<1>3. \A e \in Dirs : dir'[e].doc = dir[e].doc /\ dir'[e].files = dir[e].files
  BY <1>1, <1>2, LockKeeps
<1>4. \A k : ~InFlight(cmd[c], k)
  <2>1. Head(cmd[c].todo).once
    BY DEF Collides, Writing
  <2> QED BY <2>1, InFlightFacts
<1> QED BY <1>1, <1>2, <1>3, <1>4, EndedStays, QuietStep

(* The registry.json is written, when all it speaks of is there.           *)
LEMMA RegistryFiles ==
  ASSUME RegistryInv, FilesInv, NEW c \in DOMAIN cmd, WriteNext(c),
         NEW job, NEW d, NEW w, NEW todo, Writing(c, job, d, w, todo), ~Collides(dir[d], w), IsRegistry(w)
  PROVE  FilesInv'
<1>1. /\ d \in Dirs /\ cut' = cut /\ stops' = stops /\ d = HeldBy(cmd[c])
      /\ (\A b \in DOMAIN cmd \ {c} : cmd[b].at = "write" => HeldBy(cmd[b]) # d)
      /\ Len(todo) = 1 /\ DOMAIN todo = {1} /\ todo[1] = w /\ ~w.once
      /\ Writes(job, d, dir[d].doc, dir[d].files, todo, dir["catalog"].doc)
  <2>1. /\ d \in Dirs /\ cut' = cut /\ stops' = stops /\ d = HeldBy(cmd[c])
        /\ (\A b \in DOMAIN cmd \ {c} : cmd[b].at = "write" => HeldBy(cmd[b]) # d)
        /\ Len(todo) \in Nat /\ Len(todo) >= 1 /\ DOMAIN todo = 1 .. Len(todo) /\ w = todo[1]
        /\ Writes(job, d, dir[d].doc, dir[d].files, todo, dir["catalog"].doc)
        /\ \A i \in DOMAIN todo : IsRegistry(todo[i]) => i = Len(todo) /\ ~todo[i].once
    BY WritingFacts
  <2>2. 1 \in DOMAIN todo
    BY <2>1
  <2>3. Len(todo) = 1 /\ ~w.once
    BY <2>1, <2>2
  <2>4. DOMAIN todo = {1}
    BY <2>1, <2>3
  <2> QED BY <2>1, <2>3, <2>4
<1>2. PICK x : /\ x.at = "write" /\ x.jobs = cmd[c].jobs /\ x.todo = Tail(todo)
               /\ OthersStay(c, {x}) /\ c \in DOMAIN cmd' /\ cmd'[c] = x
  BY WritingLeaves
<1>3. /\ DOMAIN dir[d] = {"lock", "doc", "files"} /\ dir'[d] = Written(dir[d], w) /\ (\A e \in Dirs \ {d} : dir'[e] = dir[e])
      /\ \A a \in DOMAIN cmd : a # c /\ cmd[a].at = "write" =>
           /\ dir'[HeldBy(cmd[a])].doc = dir[HeldBy(cmd[a])].doc
           /\ dir'[HeldBy(cmd[a])].files = dir[HeldBy(cmd[a])].files
      /\ \A e \in Dirs : Grows(e, dir[e].doc, dir'[e].doc)
  BY WritingLeaves
<1>4. "catalog" \in Dirs /\ "refresh" \in Dirs
  BY DEF Dirs
<1>5. PICK doc, next, f, s, t : /\ doc = dir[d].doc /\ next = w.body /\ f = dir[d].files
                                /\ s = dir["catalog"].doc /\ t = dir'["catalog"].doc
  OBVIOUS
<1>6. dir'[d].doc = next /\ dir'[d].files = f
  <2>1. dir'[d] = [dir[d] EXCEPT !.doc = next]
    BY <1>3, <1>5 DEF Written, IsRegistry
  <2> QED BY <1>3, <1>5, <2>1
<1>7. /\ Valid(d, next, s) /\ Filed(d, next, f, todo) /\ (d = "catalog" => doc.components \subseteq next.components)
      /\ IF job.op = "activate" THEN Activating(job, doc, f, todo) ELSE d = "catalog" => next.active = doc.active
  BY <1>1, <1>5 DEF Writes
<1>8. s.components \subseteq t.components
  BY <1>3, <1>4, <1>5, <1>6, <1>7
<1>9. Resting(dir')
  <2> SUFFICES ASSUME NEW e \in Dirs
               PROVE  Valid(e, dir'[e].doc, t) /\ Filed(e, dir'[e].doc, dir'[e].files, <<>>)
    BY <1>5 DEF Resting
  <2>1. Valid(e, dir[e].doc, s) /\ Filed(e, dir[e].doc, dir[e].files, <<>>)
    BY <1>5 DEF FilesInv, Resting
  <2>2. CASE e = d
    <3>1. \A n, b : Has(f, todo, n, b) => Has(f, <<>>, n, b)
      BY <1>1 DEF Has
    <3>2. Filed(d, next, f, <<>>)
      BY <1>7, <3>1, FiledKeeps
    <3>3. Valid(d, next, t)
      BY <1>7, <1>8, ValidKeeps
    <3> QED BY <1>6, <2>2, <3>2, <3>3
  <2>3. CASE e # d
    <3>1. dir'[e] = dir[e]
      BY <1>3, <2>3
    <3>2. PICK other : other = dir[e].doc
      OBVIOUS
    <3>3. Valid(e, other, t)
      BY <1>8, <2>1, <3>2, ValidKeeps
    <3> QED BY <2>1, <3>1, <3>2, <3>3
  <2> QED BY <2>2, <2>3
<1>10. dir["refresh"].doc.candidates \subseteq dir'["refresh"].doc.candidates
  BY <1>3, <1>4 DEF Grows
<1>11. WritesSound(x, dir') /\ \A i \in DOMAIN x.jobs : JobSound(x.jobs[i], dir')
  <2>1. x.todo = <<>>
    BY <1>1, <1>2, WritingFacts, Rest
  <2>2. \A i \in DOMAIN x.jobs : JobSound(x.jobs[i], dir)
    BY <1>2 DEF FilesInv
  <2> QED BY <1>10, <2>1, <2>2 DEF WritesSound, JobSound
<1>12. PICK D, E : D = dir["catalog"] /\ E = dir'["catalog"]
  OBVIOUS
<1>13. E.files = D.files
  BY <1>3, <1>4, <1>5, <1>6, <1>12
<1>14. ASSUME NEW k \in DOMAIN E.doc.active
       PROVE  \/ Pointed(k, E) \/ Ahead(k, dir["catalog"])' \/ stops' > 1
              \/ \E a \in DOMAIN cmd : a # c /\ InFlight(cmd[a], k)
  <2>1. CASE Pointed(k, E)
    BY <2>1
  <2>2. CASE ~Pointed(k, E)
    <3>1. k \in DOMAIN D.doc.active /\ E.doc.active[k] = D.doc.active[k] /\ (job.op = "activate" => k # job.c)
      <4>1. CASE d # "catalog"
        <5>1. job.op # "activate"
          BY <4>1 DEF DirOf, Writing
        <5> QED BY <1>3, <1>4, <1>12, <4>1, <5>1
      <4>2. CASE d = "catalog" /\ job.op # "activate"
        BY <1>5, <1>6, <1>7, <1>12, <4>2
      <4>3. CASE d = "catalog" /\ job.op = "activate"
        <5>1. PICK p : p = next.active[job.c]
          OBVIOUS
        <5>2. /\ next.active = Put(doc.active, job.c, p)
              /\ <<"active", job.c>> \in DOMAIN f /\ f[<<"active", job.c>>] = p
          BY <1>1, <1>5, <1>7, <4>3, <5>1 DEF Activating
        <5>3. E.doc = next /\ D.doc = doc /\ E.files = f
          BY <1>5, <1>6, <1>12, <4>3
        <5>4. k # job.c
          BY <2>2, <5>1, <5>2, <5>3 DEF Pointed
        <5>5. PICK u, v, m : u = next.active /\ v = doc.active /\ m = job.c
          OBVIOUS
        <5>6. u = Put(v, m, p) /\ k \in DOMAIN u /\ k # m
          BY <5>2, <5>3, <5>4, <5>5
        <5>7. k \in DOMAIN v /\ u[k] = v[k]
          BY <5>6 DEF Put
        <5> QED BY <5>3, <5>4, <5>5, <5>7
      <4> QED BY <4>1, <4>2, <4>3
    <3>2. \/ Pointed(k, D) \/ Ahead(k, D) \/ stops > 1
          \/ \E a \in DOMAIN cmd : InFlight(cmd[a], k)
      BY <1>12, <3>1 DEF FilesInv, Pointers
    <3>3. ~Pointed(k, D)
      BY <1>13, <2>2, <3>1 DEF Pointed
    <3>4. ~InFlight(cmd[c], k)
      BY <3>1 DEF InFlight, Writing
    <3>5. ASSUME Ahead(k, D) PROVE Ahead(k, dir["catalog"])'
      <4>1. /\ stops = 1 /\ cut.op = "activate" /\ cut.c = k
            /\ Activatable(D.doc, k, cut.target, cut.action, cut.expected) /\ Clean(D.files)
        BY <3>5 DEF Ahead
      <4>2. /\ IsSeq(D.doc.log) /\ IsSeq(E.doc.log)
        BY <1>12, WriteOK, CatalogDoc DEF RegistryInv, DirsOK, Dirs, DocOK
      <4>3. IsPrefix(D.doc.log, E.doc.log) /\ D.doc.versions \subseteq E.doc.versions /\ D.doc.components \subseteq E.doc.components
        BY <1>3, <1>4, <1>5, <1>8, <1>12 DEF Grows
      <4>4. PICK old, new : old = D.doc /\ new = E.doc
        OBVIOUS
      <4>5. Activatable(new, k, cut.target, cut.action, cut.expected)
        BY <3>1, <4>1, <4>2, <4>3, <4>4, ActivatableKeeps
      <4> QED BY <1>1, <1>12, <1>13, <4>1, <4>4, <4>5 DEF Ahead
    <3> QED BY <1>1, <3>2, <3>3, <3>4, <3>5
  <2> QED BY <2>1, <2>2
<1>15. stops' \in Nat /\ (stops' = 0 => Clean(E.files))
  BY <1>1, <1>12, <1>13 DEF FilesInv
<1>16. \A y \in {x} : WritesSound(y, dir') /\ \A i \in DOMAIN y.jobs : JobSound(y.jobs[i], dir')
  BY <1>11
<1> QED BY <1>2, <1>3, <1>5, <1>8, <1>9, <1>10, <1>12, <1>14, <1>15, <1>16, Assemble

(* Pointers are no part of what a registry.json speaks of.                 *)
LEMMA FiledMore ==
  ASSUME NEW d, NEW doc, NEW f, NEW t, NEW g, NEW u, Filed(d, doc, f, t),
         \A n, b : n[1] # "active" /\ Has(f, t, n, b) => Has(g, u, n, b)
  PROVE  Filed(d, doc, g, u)
<1>1. \A y : /\ <<"component", y>>[1] # "active" /\ <<"version", y>>[1] # "active" /\ <<"activation", y>>[1] # "active"
             /\ <<"mapping version", y>>[1] # "active" /\ <<"mapping", y>>[1] # "active"
             /\ <<"candidate", y>>[1] # "active" /\ <<"event", y>>[1] # "active"
  OBVIOUS
<1> QED BY <1>1 DEF Filed

(* A row of writes, without its first.                                     *)
Follow(w, rest, todo) ==
  /\ Len(todo) \in Nat /\ Len(todo) >= 1 /\ DOMAIN todo = 1 .. Len(todo) /\ w = todo[1]
  /\ Len(rest) = Len(todo) - 1 /\ DOMAIN rest = 1 .. Len(todo) - 1
  /\ \A i \in 1 .. Len(todo) - 1 : rest[i] = todo[i + 1]

(* The files after a write that did not collide.                           *)
Gained(w, g, f) ==
  /\ DOMAIN g = DOMAIN f \cup {w.name} /\ g[w.name] = w.body
  /\ \A n \in DOMAIN f : n # w.name \/ w.once => g[n] = f[n]

(* Another file is written: it is one of those that are to be there first, *)
(* or a pointer, which is the last of them.                                *)
LEMMA FileWritten ==
  ASSUME NEW job, NEW d, NEW doc, NEW f, NEW todo, NEW s, NEW w, Writes(job, d, doc, f, todo, s),
         ~IsRegistry(w), NEW rest, Follow(w, rest, todo), NEW g, Gained(w, g, f)
  PROVE  /\ Writes(job, d, doc, g, rest, s)
         /\ w.once => w.name[1] # "active" /\ (w.name[1] = "activation" => w.body = w.name[2])
         /\ ~w.once => job.op = "activate" /\ w.name = <<"active", job.c>> /\ Len(rest) = 1
         /\ \A n \in DOMAIN f : n[1] # "active" => g[n] = f[n]
<1>1. /\ Len(todo) \in Nat /\ Len(todo) >= 1 /\ DOMAIN todo = 1 .. Len(todo) /\ w = todo[1]
      /\ Len(rest) = Len(todo) - 1 /\ DOMAIN rest = 1 .. Len(todo) - 1
      /\ (\A i \in 1 .. Len(todo) - 1 : rest[i] = todo[i + 1])
      /\ DOMAIN g = DOMAIN f \cup {w.name} /\ g[w.name] = w.body
      /\ \A n \in DOMAIN f : n # w.name \/ w.once => g[n] = f[n]
  BY DEF Follow, Gained
<1>2. PICK m, next : m = Len(todo) /\ next = todo[m].body
  OBVIOUS
<1>3. /\ IsRegistry(todo[m]) /\ Valid(d, next, s) /\ Filed(d, next, f, todo)
      /\ d = "catalog" => doc.components \subseteq next.components
      /\ IF job.op = "activate" THEN Activating(job, doc, f, todo) ELSE d = "catalog" => next.active = doc.active
  BY <1>2 DEF Writes
<1>4. \A i \in DOMAIN todo :
        /\ todo[i].once => todo[i].name[1] # "active" /\ (todo[i].name[1] = "activation" => todo[i].body = todo[i].name[2])
        /\ ~todo[i].once /\ ~IsRegistry(todo[i]) => job.op = "activate"
  BY <1>1 DEF Writes
<1>5. m \in Nat /\ m >= 2 /\ 1 \in DOMAIN todo /\ DOMAIN todo = 1 .. m /\ DOMAIN rest = 1 .. m - 1 /\ Len(rest) = m - 1
  <2>1. m # 1
    BY <1>1, <1>2, <1>3
  <2> QED BY <1>1, <1>2, <2>1
<1>6. rest[m - 1] = todo[m]
  <2>1. m - 1 \in 1 .. Len(todo) - 1 /\ (m - 1) + 1 = m
    BY <1>2, <1>5
  <2> QED BY <1>1, <2>1
<1>7. w.once => w.name[1] # "active" /\ (w.name[1] = "activation" => w.body = w.name[2])
  BY <1>1, <1>4, <1>5
<1>8. PICK p, c : p = next.active[job.c] /\ c = job.c
  OBVIOUS
<1>9. job.op = "activate" =>
        /\ Activatable(doc, c, job.target, job.action, job.expected)
        /\ next.active = Put(doc.active, c, p)
        /\ todo[m - 1].name = <<"active", c>> /\ ~todo[m - 1].once /\ todo[m - 1].body = p
        /\ \A i \in 1 .. m - 2 : todo[i].once
  BY <1>2, <1>3, <1>5, <1>8 DEF Activating
<1>10. ~w.once => job.op = "activate" /\ m = 2 /\ w.name = <<"active", c>> /\ w.body = p
  <2> SUFFICES ASSUME ~w.once PROVE job.op = "activate" /\ m = 2 /\ w.name = <<"active", c>> /\ w.body = p
    OBVIOUS
  <2>1. job.op = "activate"
    BY <1>1, <1>4, <1>5
  <2>2. m = 2
    <3>1. 1 \notin 1 .. m - 2
      BY <1>1, <1>9, <2>1
    <3> QED BY <1>5, <3>1
  <2>3. m - 1 = 1
    BY <2>2
  <2> QED BY <1>1, <1>9, <2>1, <2>2, <2>3
<1>11. <<"active", c>>[1] = "active"
  OBVIOUS
<1>12. \A n \in DOMAIN f : n[1] # "active" => g[n] = f[n]
  BY <1>1, <1>10, <1>11
<1>13. Filed(d, next, g, rest)
  <2>1. ASSUME NEW n, NEW b, n[1] # "active", Has(f, todo, n, b) PROVE Has(g, rest, n, b)
    <3>1. CASE n \in DOMAIN f /\ f[n] = b
      BY <1>1, <1>12, <2>1, <3>1 DEF Has
    <3>2. CASE \E i \in DOMAIN todo : todo[i].once /\ todo[i].name = n /\ todo[i].body = b
      <4>1. PICK i \in DOMAIN todo : todo[i].once /\ todo[i].name = n /\ todo[i].body = b
        BY <3>2
      <4>2. CASE i = 1
        BY <1>1, <4>1, <4>2 DEF Has
      <4>3. CASE i # 1
        <5>1. i - 1 \in DOMAIN rest /\ i - 1 \in 1 .. Len(todo) - 1 /\ (i - 1) + 1 = i
          BY <1>5, <4>3
        <5>2. rest[i - 1] = todo[i]
          BY <1>1, <5>1
        <5> QED BY <4>1, <5>1, <5>2 DEF Has
      <4> QED BY <4>2, <4>3
    <3> QED BY <2>1, <3>1, <3>2 DEF Has
  <2> QED BY <1>3, <2>1, FiledMore
<1>14. \A i \in DOMAIN rest :
        /\ rest[i].once => rest[i].name[1] # "active" /\ (rest[i].name[1] = "activation" => rest[i].body = rest[i].name[2])
        /\ ~rest[i].once /\ ~IsRegistry(rest[i]) => job.op = "activate"
  <2>1. \A i \in DOMAIN rest : i + 1 \in DOMAIN todo /\ rest[i] = todo[i + 1]
    BY <1>1, <1>5
  <2> QED BY <1>4, <2>1
<1>15. ASSUME job.op = "activate" PROVE Activating(job, doc, g, rest)
  <2>1. Len(rest) = m - 1 /\ rest[m - 1].body = next
    BY <1>2, <1>5, <1>6
  <2>2. CASE m - 1 = 1
    <3>1. todo[m - 1] = w
      BY <1>1, <2>2
    <3>2. <<"active", c>> \in DOMAIN g /\ g[<<"active", c>>] = p
      BY <1>1, <1>9, <1>15, <3>1
    <3> QED BY <1>8, <1>9, <1>15, <2>1, <2>2, <3>2 DEF Activating
  <2>3. CASE m - 1 # 1
    <3>1. (m - 1) - 1 \in 1 .. Len(todo) - 1 /\ ((m - 1) - 1) + 1 = m - 1
      BY <1>2, <1>5, <2>3
    <3>2. rest[(m - 1) - 1] = todo[m - 1]
      BY <1>1, <3>1
    <3>3. \A i \in 1 .. (m - 1) - 2 : i + 1 \in 1 .. m - 2 /\ i \in 1 .. Len(todo) - 1
      BY <1>2, <1>5
    <3>4. \A i \in 1 .. (m - 1) - 2 : rest[i].once
      BY <1>1, <1>9, <1>15, <3>3
    <3> QED BY <1>8, <1>9, <1>15, <2>1, <2>3, <3>2, <3>4 DEF Activating
  <2> QED BY <2>2, <2>3
<1>16. Writes(job, d, doc, g, rest, s)
  BY <1>3, <1>5, <1>6, <1>2, <1>13, <1>14, <1>15 DEF Writes
<1>17. ~w.once => Len(rest) = 1
  BY <1>5, <1>10
<1> QED BY <1>7, <1>8, <1>10, <1>12, <1>16, <1>17

(* A file is written.                                                      *)
LEMMA OtherFiles ==
  ASSUME RegistryInv, FilesInv, NEW c \in DOMAIN cmd, WriteNext(c),
         NEW job, NEW d, NEW w, NEW todo, Writing(c, job, d, w, todo), ~Collides(dir[d], w), ~IsRegistry(w)
  PROVE  FilesInv'
<1>1. /\ d \in Dirs /\ cut' = cut /\ stops' = stops /\ d = HeldBy(cmd[c])
      /\ Len(todo) \in Nat /\ Len(todo) >= 1 /\ DOMAIN todo = 1 .. Len(todo) /\ w = todo[1]
      /\ Len(Tail(todo)) = Len(todo) - 1 /\ DOMAIN Tail(todo) = 1 .. Len(todo) - 1
      /\ \A i \in 1 .. Len(todo) - 1 : Tail(todo)[i] = todo[i + 1]
      /\ Writes(job, d, dir[d].doc, dir[d].files, todo, dir["catalog"].doc)
  BY WritingFacts
<1>2. PICK x : /\ x.at = "write" /\ x.jobs = cmd[c].jobs /\ x.todo = Tail(todo)
               /\ OthersStay(c, {x}) /\ c \in DOMAIN cmd' /\ cmd'[c] = x
  BY WritingLeaves
<1>3. /\ DOMAIN dir[d] = {"lock", "doc", "files"} /\ dir'[d] = Written(dir[d], w) /\ (\A e \in Dirs \ {d} : dir'[e] = dir[e])
      /\ \A a \in DOMAIN cmd : a # c /\ cmd[a].at = "write" =>
           /\ dir'[HeldBy(cmd[a])].doc = dir[HeldBy(cmd[a])].doc
           /\ dir'[HeldBy(cmd[a])].files = dir[HeldBy(cmd[a])].files
  BY WritingLeaves
<1>4. "catalog" \in Dirs /\ "refresh" \in Dirs
  BY DEF Dirs
<1>5. PICK doc, f, g, s, rest : /\ doc = dir[d].doc /\ f = dir[d].files /\ g = dir'[d].files
                                /\ s = dir["catalog"].doc /\ rest = Tail(todo)
  OBVIOUS
<1>6. /\ dir'[d].doc = doc /\ DOMAIN g = DOMAIN f \cup {w.name} /\ g[w.name] = w.body
      /\ \A n \in DOMAIN f : n # w.name \/ w.once => g[n] = f[n]
  <2>1. PICK D, E : D = dir[d] /\ E = dir'[d]
    OBVIOUS
  <2>2. DOMAIN D = {"lock", "doc", "files"} /\ E = Written(D, w) /\ ~Collides(D, w)
    BY <1>3, <2>1
  <2>3. /\ E.doc = D.doc /\ w.name \in DOMAIN E.files /\ E.files[w.name] = w.body
        /\ DOMAIN E.files = DOMAIN D.files \cup {w.name}
        /\ \A n \in DOMAIN D.files : n # w.name \/ w.once => E.files[n] = D.files[n]
    BY ONLY <2>2, ~IsRegistry(w), WrittenFiles
  <2> QED BY <1>5, <2>1, <2>3
<1>7. /\ Writes(job, d, doc, g, rest, s)
      /\ w.once => w.name[1] # "active" /\ (w.name[1] = "activation" => w.body = w.name[2])
      /\ ~w.once => job.op = "activate" /\ w.name = <<"active", job.c>> /\ Len(rest) = 1
      /\ \A n \in DOMAIN f : n[1] # "active" => g[n] = f[n]
  <2>1. Follow(w, rest, todo)
    BY <1>1, <1>5 DEF Follow
  <2>2. Writes(job, d, doc, f, todo, s) /\ ~IsRegistry(w)
    BY <1>1, <1>5
  <2>3. Gained(w, g, f)
    BY <1>6 DEF Gained
  <2> QED BY ONLY <2>1, <2>2, <2>3, FileWritten
<1>8. \A e \in Dirs : dir'[e].doc = dir[e].doc
  BY <1>3, <1>5, <1>6
<1>9. Resting(dir')
  <2> SUFFICES ASSUME NEW e \in Dirs
               PROVE  Valid(e, dir'[e].doc, dir'["catalog"].doc) /\ Filed(e, dir'[e].doc, dir'[e].files, <<>>)
    BY DEF Resting
  <2>1. Valid(e, dir[e].doc, dir["catalog"].doc) /\ Filed(e, dir[e].doc, dir[e].files, <<>>)
    BY DEF FilesInv, Resting
  <2>2. CASE e = d
    <3>1. \A n, b : n[1] # "active" /\ Has(f, <<>>, n, b) => Has(g, <<>>, n, b)
      BY <1>6, <1>7 DEF Has
    <3>2. Filed(e, doc, f, <<>>)
      BY <1>5, <2>1, <2>2
    <3>3. Filed(e, doc, g, <<>>)
      BY <3>1, <3>2, FiledMore
    <3> QED BY <1>4, <1>5, <1>8, <2>1, <2>2, <3>3
  <2>3. CASE e # d
    <3>1. dir'[e] = dir[e]
      BY <1>3, <2>3
    <3> QED BY <1>4, <1>8, <2>1, <3>1
  <2> QED BY <2>2, <2>3
<1>10. WritesSound(x, dir') /\ \A i \in DOMAIN x.jobs : JobSound(x.jobs[i], dir')
  <2>1. job = Head(x.jobs) /\ d = DirOf(job) /\ x.todo = rest
    BY <1>2, <1>5 DEF Writing
  <2>2. dir'[d].doc = doc /\ dir'[d].files = g /\ dir'["catalog"].doc = s
    BY <1>4, <1>5, <1>6, <1>8
  <2>3. WritesSound(x, dir')
    BY <1>7, <2>1, <2>2 DEF WritesSound
  <2>4. \A i \in DOMAIN x.jobs : JobSound(x.jobs[i], dir)
    BY <1>2 DEF FilesInv
  <2> QED BY <1>4, <1>8, <2>3, <2>4 DEF JobSound
<1>11. PICK D, E : D = dir["catalog"] /\ E = dir'["catalog"]
  OBVIOUS
<1>12. E.doc = D.doc
  BY <1>4, <1>8, <1>11
<1>13. d # "catalog" => E.files = D.files
  BY <1>3, <1>4, <1>11
<1>14. d = "catalog" => D.files = f /\ E.files = g
  BY <1>5, <1>11
<1>15. Clean(D.files) => Clean(E.files)
  <2>1. CASE d # "catalog"
    BY <1>13, <2>1
  <2>2. CASE d = "catalog"
    <3>1. ASSUME Clean(f), NEW n \in DOMAIN g, n[1] = "activation" PROVE g[n] = n[2]
      <4>1. <<"active", job.c>>[1] = "active"
        OBVIOUS
      <4>2. CASE n = w.name
        BY <1>6, <1>7, <3>1, <4>1, <4>2
      <4>3. CASE n # w.name
        BY <1>6, <3>1, <4>3 DEF Clean
      <4> QED BY <4>2, <4>3
    <3> QED BY <1>14, <2>2, <3>1 DEF Clean
  <2> QED BY <2>1, <2>2
<1>16. ASSUME NEW k \in DOMAIN E.doc.active
       PROVE  \/ Pointed(k, E) \/ Ahead(k, dir["catalog"])' \/ stops' > 1
              \/ (\E a \in DOMAIN cmd : a # c /\ InFlight(cmd[a], k))
              \/ \E b \in DOMAIN cmd' : InFlight(cmd'[b], k)
  <2>1. \/ Pointed(k, D) \/ Ahead(k, D) \/ stops > 1
        \/ \E a \in DOMAIN cmd : InFlight(cmd[a], k)
    BY <1>11, <1>12 DEF FilesInv, Pointers
  <2>2. ~InFlight(cmd[c], k)
    <3>1. InFlight(cmd[c], k) => IsRegistry(Head(cmd[c].todo))
      BY InFlightFacts
    <3> QED BY <3>1 DEF Writing
  <2>3. Ahead(k, D) => Ahead(k, dir["catalog"])'
    BY <1>1, <1>11, <1>12, <1>15 DEF Ahead
  <2>4. CASE Pointed(k, D)
    <3>1. CASE d # "catalog"
      BY <1>12, <1>13, <2>4, <3>1 DEF Pointed
    <3>2. CASE d = "catalog" /\ <<"active", k>> # w.name
      BY <1>6, <1>12, <1>14, <2>4, <3>2 DEF Pointed
    <3>3. CASE d = "catalog" /\ <<"active", k>> = w.name
      <4>1. <<"active", k>>[1] = "active" /\ <<"active", k>>[2] = k /\ <<"active", job.c>>[2] = job.c
        OBVIOUS
      <4>2. job.op = "activate" /\ job.c = k /\ Len(rest) = 1
        BY <1>7, <3>3, <4>1
      <4>3. InFlight(x, k)
        BY <1>2, <1>5, <4>2 DEF InFlight, Writing
      <4> QED BY <1>2, <4>3
    <3> QED BY <3>1, <3>2, <3>3
  <2> QED BY <1>1, <2>1, <2>2, <2>3, <2>4
<1>17. stops' \in Nat /\ (stops' = 0 => Clean(E.files))
  BY <1>1, <1>11, <1>15 DEF FilesInv
<1>18. \A y \in {x} : WritesSound(y, dir') /\ \A i \in DOMAIN y.jobs : JobSound(y.jobs[i], dir')
  BY <1>10
<1>19. /\ dir["catalog"].doc.components \subseteq dir'["catalog"].doc.components
       /\ dir["refresh"].doc.candidates \subseteq dir'["refresh"].doc.candidates
  BY <1>4, <1>8
<1> QED BY <1>2, <1>3, <1>9, <1>11, <1>16, <1>17, <1>18, <1>19, Assemble

(* One step keeps the invariant.                                           *)
LEMMA FilesKeep ==
  ASSUME RegistryInv, FilesInv, [Next]_vars
  PROVE  FilesInv'
<1>1. CASE UNCHANGED vars
  BY <1>1 DEF vars, FilesInv, Pointers, Ahead, WritesSound, JobSound
<1>2. ASSUME NEW c \in DOMAIN cmd, WriteNext(c) PROVE FilesInv'
  <2>1. PICK job, d, w, todo : Writing(c, job, d, w, todo)
    BY DEF Writing
  <2> QED BY <1>2, <2>1, CollisionFiles, RegistryFiles, OtherFiles
<1>3. ASSUME NEW c \in DOMAIN cmd, LockDir(c) \/ Unlock(c) \/ Stop(c) PROVE FilesInv'
  BY <1>3, LockFiles, UnlockFiles, StopFiles
<1>4. ASSUME NEW d \in Dirs, RemoveLock(d) PROVE FilesInv'
  BY <1>4, RemoveFiles
<1>5. [Next]_vars => \/ UNCHANGED vars
                     \/ StartCatalog \/ StartMapping \/ StartAnalyze \/ StartDecide
                     \/ StartPromote \/ StartRollback
                     \/ \E c \in DOMAIN cmd : LockDir(c) \/ WriteNext(c) \/ Unlock(c) \/ Stop(c)
                     \/ \E d \in Dirs : RemoveLock(d)
  BY DEF Next
<1> QED BY <1>1, <1>2, <1>3, <1>4, <1>5, StartsSound

---------------------------------------------------------------------------
(* The registries that there are at first, part by part.                   *)

(* The names of what Init puts there.                                      *)
Started(seeded, mappings, v, a, p, ks, approved, log, files, known) ==
  /\ seeded \in Analyzed /\ mappings \in {Absent, NoMappings}
  /\ v = BuildVersion(Seed.component, Seed.provider, Seed.ref, Seed.part, 1)
  /\ a = [sequence |-> 1, component |-> Seed.component, action |-> "activate", target |-> v.id,
          previous |-> NoVersion, epoch |-> 1, at |-> 1]
  /\ p = [version |-> v.id, activation |-> 1, epoch |-> 1, at |-> 1]
  /\ ks = {Candidate(x, [d \in {Seed.component} |-> v], {}, Now) : x \in seeded}
  /\ approved = SetToSeq({k \in ks : k.status = "ready"})
  /\ log = [i \in DOMAIN approved |-> [kind |-> "approve", candidate |-> approved[i], at |-> 1, sequence |-> i]]
  /\ files = Put(Put(Put(Put(<<>>, <<"component", Seed.component>>, Seed.component), <<"version", v.id>>, v),
                     <<"activation", a>>, a), <<"active", Seed.component>>, p)
  /\ known = [n \in {<<"candidate", k>> : k \in ks} \cup {<<"event", e>> : e \in ToSet(log)} |-> n[2]]
  /\ dir = [catalog |-> [lock |-> FALSE,
                         doc |-> [components |-> {Seed.component}, versions |-> {v}, log |-> <<a>>,
                                  active |-> Put(<<>>, Seed.component, p)],
                         files |-> files],
            mapping |-> [lock |-> FALSE, doc |-> mappings, files |-> <<>>],
            refresh |-> [lock |-> FALSE, doc |-> [candidates |-> ks, log |-> log], files |-> known]]

(* Init, in these terms.                                                   *)
LEMMA InitIs ==
  ASSUME Init
  PROVE  \E seeded, mappings, v, a, p, ks, approved, log, files, known :
           Started(seeded, mappings, v, a, p, ks, approved, log, files, known)
<1> DEFINE c == Seed.component
           v == BuildVersion(c, Seed.provider, Seed.ref, Seed.part, 1)
           a == [sequence |-> 1, component |-> c, action |-> "activate", target |-> v.id,
                 previous |-> NoVersion, epoch |-> 1, at |-> 1]
           p == [version |-> v.id, activation |-> 1, epoch |-> 1, at |-> 1]
<1>1. PICK seeded \in Analyzed, mappings \in {Absent, NoMappings} :
        LET ks == {Candidate(x, [d \in {c} |-> v], {}, Now) : x \in seeded}
            approved == SetToSeq({k \in ks : k.status = "ready"})
            log == [i \in DOMAIN approved |-> [kind |-> "approve", candidate |-> approved[i], at |-> 1, sequence |-> i]]
        IN  dir = [catalog |-> [lock |-> FALSE,
                                doc |-> [components |-> {c}, versions |-> {v}, log |-> <<a>>, active |-> Put(<<>>, c, p)],
                                files |-> Put(Put(Put(Put(<<>>, <<"component", c>>, c), <<"version", v.id>>, v),
                                                  <<"activation", a>>, a), <<"active", c>>, p)],
                   mapping |-> [lock |-> FALSE, doc |-> mappings, files |-> <<>>],
                   refresh |-> [lock |-> FALSE, doc |-> [candidates |-> ks, log |-> log],
                                files |-> [n \in {<<"candidate", k>> : k \in ks} \cup {<<"event", e>> : e \in ToSet(log)} |-> n[2]]]]
  BY Zenon DEF Init
<1> HIDE DEF c, v, a, p
<1>2. PICK ks, approved : /\ ks = {Candidate(x, [d \in {c} |-> v], {}, Now) : x \in seeded}
                          /\ approved = SetToSeq({k \in ks : k.status = "ready"})
  OBVIOUS
<1>3. PICK log : log = [i \in DOMAIN approved |-> [kind |-> "approve", candidate |-> approved[i], at |-> 1, sequence |-> i]]
  OBVIOUS
<1>4. PICK files, known :
        /\ files = Put(Put(Put(Put(<<>>, <<"component", c>>, c), <<"version", v.id>>, v), <<"activation", a>>, a), <<"active", c>>, p)
        /\ known = [n \in {<<"candidate", k>> : k \in ks} \cup {<<"event", e>> : e \in ToSet(log)} |-> n[2]]
  OBVIOUS
<1>5. dir = [catalog |-> [lock |-> FALSE,
                          doc |-> [components |-> {c}, versions |-> {v}, log |-> <<a>>, active |-> Put(<<>>, c, p)],
                          files |-> files],
             mapping |-> [lock |-> FALSE, doc |-> mappings, files |-> <<>>],
             refresh |-> [lock |-> FALSE, doc |-> [candidates |-> ks, log |-> log], files |-> known]]
  BY <1>1, <1>2, <1>3, <1>4
<1>6. Started(seeded, mappings, v, a, p, ks, approved, log, files, known)
  BY <1>2, <1>3, <1>4, <1>5 DEF Started, c, v, a, p
<1> QED BY <1>6

(* The catalog there is at first.                                          *)
LEMMA InitCatalog ==
  ASSUME NEW seeded, NEW mappings, NEW v, NEW a, NEW p, NEW ks, NEW approved, NEW log, NEW files, NEW known,
         Started(seeded, mappings, v, a, p, ks, approved, log, files, known),
         NEW doc, doc = dir["catalog"].doc
  PROVE  /\ ValidCatalog(doc) /\ Filed("catalog", doc, files, <<>>) /\ Clean(files)
         /\ dir["catalog"].files = files
         /\ \A c \in DOMAIN doc.active : Pointed(c, dir["catalog"])
<1>1. PICK c : c = Seed.component
  OBVIOUS
<1>2. dir["catalog"] = [lock |-> FALSE,
                        doc |-> [components |-> {c}, versions |-> {v}, log |-> <<a>>, active |-> Put(<<>>, c, p)],
                        files |-> files]
  BY <1>1 DEF Started
<1>3. /\ doc.components = {c} /\ doc.versions = {v} /\ doc.log = <<a>> /\ doc.active = Put(<<>>, c, p)
      /\ dir["catalog"].doc = doc /\ dir["catalog"].files = files
  BY <1>2
<1>4. /\ v.id = <<c, Seed.part.content>> /\ v.component = c /\ v.count = Seed.part.count
      /\ a.sequence = 1 /\ a.component = c /\ a.action = "activate" /\ a.target = v.id /\ a.epoch = 1 /\ a.at = 1
      /\ p = [version |-> v.id, activation |-> 1, epoch |-> 1, at |-> 1] /\ p.activation = 1
  BY <1>1 DEF Started, BuildVersion
<1>5. DOMAIN <<>> = {}
  OBVIOUS
<1>6. DOMAIN doc.active = {c} /\ doc.active[c] = p
  <2>1. PICK g : g = Put(<<>>, c, p)
    OBVIOUS
  <2>2. DOMAIN g = {c} /\ g[c] = p
    BY <1>5, <2>1 DEF Put
  <2> QED BY <1>3, <2>1, <2>2
<1>7. DOMAIN doc.log = {1} /\ doc.log[1] = a
  BY <1>3
<1>8. ValidateActivation(doc, 1)
  <2>1. PICK before : before = {j \in 1 .. (1 - 1) : doc.log[j].component = doc.log[1].component}
    OBVIOUS
  <2>2. before = {}
    BY <2>1
  <2>3. Cardinality(before) = 0
    BY <2>2, FS_EmptySet
  <2>4. \E w \in doc.versions : w.id = a.target /\ w.component = a.component
    BY <1>3, <1>4
  <2>5. a.epoch = Cardinality(before) + 1
    BY <1>4, <2>3
  <2> QED BY <1>4, <1>7, <2>1, <2>4, <2>5 DEF ValidateActivation
<1>9. ValidateCatalog(doc)
  <2>1. v.count >= 1
    BY <1>4, CatalogAssumption
  <2> QED BY <1>3, <1>4, <1>6, <1>7, <1>8, <2>1 DEF ValidateCatalog
<1>10. ValidCatalog(doc)
  BY <1>4, <1>6, <1>7, <1>9 DEF ValidCatalog
<1>11. /\ DOMAIN files = {<<"component", c>>, <<"version", v.id>>, <<"activation", a>>, <<"active", c>>}
       /\ files[<<"component", c>>] = c /\ files[<<"version", v.id>>] = v
       /\ files[<<"activation", a>>] = a /\ files[<<"active", c>>] = p
  <2>1. PICK n1, n2, n3, n4 : n1 = <<"component", c>> /\ n2 = <<"version", v.id>> /\ n3 = <<"activation", a>> /\ n4 = <<"active", c>>
    OBVIOUS
  <2>2. n1 # n2 /\ n1 # n3 /\ n1 # n4 /\ n2 # n3 /\ n2 # n4 /\ n3 # n4
    BY <2>1
  <2>3. PICK f1 : f1 = Put(<<>>, n1, c)
    OBVIOUS
  <2>4. PICK f2 : f2 = Put(f1, n2, v)
    OBVIOUS
  <2>5. PICK f3 : f3 = Put(f2, n3, a)
    OBVIOUS
  <2>6. files = Put(f3, n4, p)
    BY <1>1, <2>1, <2>3, <2>4, <2>5 DEF Started
  <2>7. DOMAIN f1 = {n1} /\ f1[n1] = c
    BY <1>5, <2>3 DEF Put
  <2>8. DOMAIN f2 = {n1, n2} /\ f2[n1] = c /\ f2[n2] = v
    BY <2>2, <2>4, <2>7 DEF Put
  <2>9. DOMAIN f3 = {n1, n2, n3} /\ f3[n1] = c /\ f3[n2] = v /\ f3[n3] = a
    BY <2>2, <2>5, <2>8 DEF Put
  <2>10. DOMAIN files = {n1, n2, n3, n4} /\ files[n1] = c /\ files[n2] = v /\ files[n3] = a /\ files[n4] = p
    BY <2>2, <2>6, <2>9 DEF Put
  <2> QED BY <2>1, <2>10
<1>12. Filed("catalog", doc, files, <<>>)
  BY <1>3, <1>7, <1>11 DEF Filed, Has
<1>13. Clean(files)
  <2>1. \A n \in DOMAIN files : n[1] = "activation" => n = <<"activation", a>>
    BY <1>11
  <2> QED BY <1>11, <2>1 DEF Clean
<1>14. Pointed(c, dir["catalog"])
  BY <1>3, <1>6, <1>11 DEF Pointed
<1> QED BY <1>3, <1>6, <1>10, <1>12, <1>13, <1>14

(* What Analyze accepts is a candidate that the store accepts.             *)
LEMMA AnalyzedIs ==
  ASSUME NEW x, NEW active, NEW mappings, NEW at, NEW k, k = Candidate(x, active, mappings, at), ~k.refused
  PROVE  /\ k.component \in DOMAIN active
         /\ (k.status = "ready") <=> (k.violations = {})
<1>1. Refused.refused
  BY DEF Refused
<1>2. k # Refused
  BY <1>1
<1>3. PICK target, ref : target = active[x.component] /\ ref = TargetRef(target, x.renames)
  OBVIOUS
<1>4. PICK changes, impacts : changes = Changes(x.previous, x.candidate, x.renames) /\ impacts = Impacts(x.previous, x.candidate, x.renames, active, mappings, at)
  OBVIOUS
<1>5. PICK violations : violations = Violations(x.policy, x.previous, x.candidate, x.renames, impacts, target)
  OBVIOUS
<1>6. x.component \in DOMAIN active
  BY <1>2 DEF Candidate, Analyze
<1>7. k = [refused |-> FALSE, component |-> x.component, expected |-> target.id, ref |-> ref,
           provider |-> x.candidate.provider,
           status |-> IF violations = {} THEN "ready" ELSE "blocked", violations |-> violations,
           policy |-> x.policy, inventories |-> <<x.previous, x.candidate>>, changes |-> changes, impacts |-> impacts, at |-> at,
           part |-> IF ref \in DOMAIN x.candidate.parts THEN x.candidate.parts[ref]
                    ELSE [content |-> "none", count |-> 0]]
  BY <1>2, <1>3, <1>4, <1>5 DEF Candidate, Analyze
<1>8. /\ k.component = x.component /\ k.violations = violations
      /\ k.status = IF violations = {} THEN "ready" ELSE "blocked"
  BY <1>7
<1> QED BY <1>6, <1>8

(* The refreshes there are at first.                                       *)
LEMMA InitRefresh ==
  ASSUME NEW seeded, NEW mappings, NEW v, NEW a, NEW p, NEW ks, NEW approved, NEW log, NEW files, NEW known,
         Started(seeded, mappings, v, a, p, ks, approved, log, files, known)
  PROVE  /\ ValidRefresh(dir["refresh"].doc, dir["catalog"].doc)
         /\ Filed("refresh", dir["refresh"].doc, dir["refresh"].files, <<>>)
<1>1. PICK c, active : c = Seed.component /\ active = [d \in {c} |-> v]
  OBVIOUS
<1>2. PICK doc, catalog : doc = dir["refresh"].doc /\ catalog = dir["catalog"].doc
  OBVIOUS
<1>3. doc.candidates = ks /\ doc.log = log /\ dir["refresh"].files = known /\ catalog.components = {c}
  BY <1>1, <1>2 DEF Started
<1>4. ks = {Candidate(x, active, {}, Now) : x \in seeded} /\ seeded \in Analyzed
  BY <1>1 DEF Started
<1>5. /\ IsFiniteSet(seeded) /\ \A x \in seeded : ~Candidate(x, active, {}, Now).refused
      /\ seeded # {} => Modes[c] = "provider"
  <2>1. active = [d \in {Seed.component} |-> BuildVersion(d, Seed.provider, Seed.ref, Seed.part, 1)]
    BY <1>1 DEF Started
  <2> QED BY <1>1, <1>4, <2>1, CatalogAssumption
<1>6. \A k \in ks : ValidateCandidate(k, catalog)
  <2> SUFFICES ASSUME NEW x \in seeded, NEW k, k = Candidate(x, active, {}, Now) PROVE ValidateCandidate(k, catalog)
    BY <1>4
  <2>1. ~k.refused
    BY <1>5
  <2>2. k.component \in DOMAIN active /\ ((k.status = "ready") <=> (k.violations = {}))
    BY <2>1, AnalyzedIs
  <2>3. k.component = c
    BY <1>1, <2>2
  <2> QED BY <1>3, <1>5, <2>2, <2>3 DEF ValidateCandidate
<1>7. PICK ready : ready = {k \in ks : k.status = "ready"}
  OBVIOUS
<1>8. IsFiniteSet(ready)
  <2>1. PICK f : f = [x \in seeded |-> Candidate(x, active, {}, Now)]
    OBVIOUS
  <2>2. f \in Surjection(seeded, ks)
    BY <1>4, <2>1 DEF Surjection
  <2>3. IsFiniteSet(ks)
    BY <1>5, <2>2, FS_Surjection
  <2> QED BY <1>7, <2>3, FS_Subset
<1>9. approved = SetToSeq(ready)
  BY <1>7 DEF Started
<1>10. \A i \in DOMAIN approved : approved[i] \in ready
  BY <1>8, <1>9, Listed
<1>11. log = [i \in DOMAIN approved |-> [kind |-> "approve", candidate |-> approved[i], at |-> 1, sequence |-> i]]
  BY DEF Started
<1>12. \A i \in DOMAIN log : log[i].sequence = i /\ log[i].candidate \in ks
  BY <1>7, <1>10, <1>11
<1>13. ValidRefresh(doc, catalog)
  BY <1>3, <1>6, <1>12 DEF ValidRefresh
<1>14. known = [n \in {<<"candidate", k>> : k \in ks} \cup {<<"event", e>> : e \in ToSet(log)} |-> n[2]]
  BY DEF Started
<1>15. \A k \in ks : <<"candidate", k>> \in DOMAIN known /\ known[<<"candidate", k>>] = k
  BY <1>14
<1>16. \A i \in DOMAIN log : <<"event", log[i]>> \in DOMAIN known /\ known[<<"event", log[i]>>] = log[i]
  <2>1. \A i \in DOMAIN log : log[i] \in ToSet(log)
    BY DEF ToSet
  <2> QED BY <1>14, <2>1
<1>17. Filed("refresh", doc, known, <<>>)
  BY <1>3, <1>15, <1>16 DEF Filed, Has
<1> QED BY <1>2, <1>3, <1>13, <1>17

(* The files there are at first.                                           *)
LEMMA InitFiles ==
  ASSUME Init
  PROVE  FilesInv
<1>1. cmd = <<>> /\ stops = 0
  BY DEF Init
<1>2. PICK seeded, mappings, v, a, p, ks, approved, log, files, known :
        Started(seeded, mappings, v, a, p, ks, approved, log, files, known)
  BY InitIs
<1>3. PICK catalog : catalog = dir["catalog"].doc
  OBVIOUS
<1>4. /\ ValidCatalog(catalog) /\ Filed("catalog", catalog, dir["catalog"].files, <<>>) /\ Clean(dir["catalog"].files)
      /\ \A c \in DOMAIN catalog.active : Pointed(c, dir["catalog"])
  BY <1>2, <1>3, InitCatalog
<1>5. /\ ValidRefresh(dir["refresh"].doc, catalog)
      /\ Filed("refresh", dir["refresh"].doc, dir["refresh"].files, <<>>)
  BY <1>2, <1>3, InitRefresh
<1>6. dir["mapping"].doc \in {Absent, NoMappings}
  BY <1>2 DEF Started
<1>7. Valid("mapping", dir["mapping"].doc, catalog) /\ Filed("mapping", dir["mapping"].doc, dir["mapping"].files, <<>>)
  <2>1. DOMAIN NoMappings = {"keys", "versions"} /\ NoMappings.keys = {} /\ DOMAIN NoMappings.versions = {}
    BY DEF NoMappings
  <2> QED BY <1>6, <2>1 DEF Valid, ValidMapping, Filed
<1>8. Resting(dir)
  BY <1>3, <1>4, <1>5, <1>7 DEF Resting, Dirs, Valid
<1>9. DOMAIN cmd = {}
  BY <1>1
<1> QED BY <1>1, <1>3, <1>4, <1>8, <1>9 DEF FilesInv, Pointers

---------------------------------------------------------------------------
(* What the invariant of the files says of the registries.                 *)

(* A file that nothing is to be added to is there.                         *)
LEMMA HasNow ==
  ASSUME NEW f, NEW n, NEW b, Has(f, <<>>, n, b)
  PROVE  n \in DOMAIN f /\ f[n] = b
<1>1. DOMAIN <<>> = {}
  OBVIOUS
<1> QED BY <1>1 DEF Has

(* The refreshes load, ...                                                 *)
LEMMA RefreshLoads ==
  ASSUME Resting(dir)
  PROVE  VerifyRefresh(dir["refresh"], dir["catalog"].doc)
<1>1. PICK doc, f, catalog : doc = dir["refresh"].doc /\ f = dir["refresh"].files /\ catalog = dir["catalog"].doc
  OBVIOUS
<1>2. ValidRefresh(doc, catalog) /\ Filed("refresh", doc, f, <<>>)
  BY <1>1, RefreshRests
<1>3. \A k \in doc.candidates : <<"candidate", k>> \in DOMAIN f
  BY <1>2, HasNow DEF Filed
<1>4. \A i \in DOMAIN doc.log : <<"event", doc.log[i]>> \in DOMAIN f
  BY <1>2, HasNow DEF Filed
<1> QED BY <1>1, <1>2, <1>3, <1>4 DEF ValidRefresh, VerifyRefresh

(* ... the mappings load, ...                                              *)
LEMMA MappingLoads ==
  ASSUME Resting(dir), dir["mapping"].doc # Absent
  PROVE  VerifyMapping(dir["mapping"], dir["catalog"].doc)
<1>1. PICK doc, f, catalog : doc = dir["mapping"].doc /\ f = dir["mapping"].files /\ catalog = dir["catalog"].doc
  OBVIOUS
<1>2. ValidMapping(doc, catalog) /\ Filed("mapping", doc, f, <<>>) /\ doc # Absent
  BY <1>1 DEF Resting, Dirs, Valid
<1>3. \A i \in DOMAIN doc.versions : <<"mapping version", doc.versions[i]>> \in DOMAIN f
  BY <1>2, HasNow DEF Filed
<1>4. \A k \in doc.keys : <<"mapping", k.key>> \in DOMAIN f /\ f[<<"mapping", k.key>>] = k
  BY <1>2, HasNow DEF Filed
<1>5. \A i \in DOMAIN doc.versions : ValidateVersion(doc, i, catalog)
  BY <1>2 DEF ValidMapping
<1> QED BY <1>1, <1>2, <1>3, <1>4, <1>5 DEF VerifyMapping

(* ... and the catalog does, as far as its pointers go.                    *)
LEMMA CatalogLoads ==
  ASSUME NEW D, IsSeq(D.doc.log), ValidCatalog(D.doc), Filed("catalog", D.doc, D.files, <<>>),
         \A c \in DOMAIN D.doc.active : Pointed(c, D)
  PROVE  VerifyCatalog(D)
<1>1. PICK doc, f : doc = D.doc /\ f = D.files
  OBVIOUS
<1>2. ValidateCatalog(doc) /\ Filed("catalog", doc, f, <<>>)
  BY <1>1 DEF ValidCatalog
<1>3. /\ \A c \in doc.components : <<"component", c>> \in DOMAIN f /\ f[<<"component", c>>] = c
      /\ \A v \in doc.versions : <<"version", v.id>> \in DOMAIN f /\ f[<<"version", v.id>>] = v
      /\ \A i \in DOMAIN doc.log : <<"activation", doc.log[i]>> \in DOMAIN f /\ f[<<"activation", doc.log[i]>>] = doc.log[i]
  <2>1. /\ \A c \in doc.components : Has(f, <<>>, <<"component", c>>, c)
        /\ \A v \in doc.versions : Has(f, <<>>, <<"version", v.id>>, v)
        /\ \A i \in DOMAIN doc.log : Has(f, <<>>, <<"activation", doc.log[i]>>, doc.log[i])
    BY <1>2 DEF Filed
  <2> QED BY <2>1, HasNow
<1>4. \A a \in ToSet(doc.log) : <<"activation", a>> \in DOMAIN f /\ f[<<"activation", a>>] = a
  <2> SUFFICES ASSUME NEW a \in ToSet(doc.log) PROVE <<"activation", a>> \in DOMAIN f /\ f[<<"activation", a>>] = a
    OBVIOUS
  <2>1. PICK i \in DOMAIN doc.log : a = doc.log[i]
    BY DEF ToSet
  <2> QED BY <1>3, <2>1
<1> QED BY <1>1, <1>2, <1>3, <1>4 DEF VerifyCatalog, Pointed

(* A pointer that one stop left ahead is caught up with.                   *)
LEMMA AheadHeals ==
  ASSUME RegistryInv, FilesInv, NEW k \in DOMAIN dir["catalog"].doc.active, Ahead(k, dir["catalog"]),
         \A c \in DOMAIN dir["catalog"].doc.active \ {k} : Pointed(c, dir["catalog"])
  PROVE  Heals
<1>1. PICK D, doc : D = dir["catalog"] /\ doc = D.doc /\ doc = dir["catalog"].doc
  OBVIOUS
<1>2. /\ DOMAIN D = {"lock", "doc", "files"} /\ DOMAIN doc = {"components", "versions", "log", "active"}
      /\ IsSeq(doc.log) /\ \A v \in doc.versions : v.id # NoVersion
  BY <1>1, CatalogDoc DEF RegistryInv, DirsOK, Dirs
<1>3. ValidCatalog(doc) /\ Filed("catalog", doc, D.files, <<>>)
  BY <1>1, CatalogRests DEF FilesInv
<1>4. cut.op = "activate" /\ cut.c = k /\ Activatable(doc, k, cut.target, cut.action, cut.expected) /\ Clean(D.files)
  BY <1>1 DEF Ahead
<1>5. PICK a, p, next : a = Entry(doc, k, cut.target, cut.action, 1) /\ p = PointerTo(a) /\ next = Activated(doc, a)
  OBVIOUS
<1>6. a.component = k
  BY <1>5 DEF Entry
<1>7. ValidCatalog(next)
  BY <1>2, <1>3, <1>4, <1>5, ActivatedValid
<1>8. PICK n : n = Len(doc.log)
  OBVIOUS
<1>9. /\ next.components = doc.components /\ next.versions = doc.versions
      /\ next.log = Append(doc.log, a) /\ next.active = Put(doc.active, k, p)
      /\ n \in Nat /\ DOMAIN doc.log = 1 .. n /\ DOMAIN next.log = 1 .. n + 1
      /\ next.log[n + 1] = a /\ \A j \in 1 .. n : next.log[j] = doc.log[j]
  BY <1>2, <1>5, <1>6, <1>8, ActivatedFields
<1>10. IsSeq(next.log)
  BY <1>2, <1>9, Appended
<1>11. /\ DOMAIN next.active = DOMAIN doc.active \cup {k} /\ next.active[k] = p
       /\ \A c \in DOMAIN doc.active \ {k} : next.active[c] = doc.active[c]
  <2>1. PICK f, g : f = doc.active /\ g = next.active
    OBVIOUS
  <2>2. g = Put(f, k, p)
    BY <1>9, <2>1
  <2>3. DOMAIN g = DOMAIN f \cup {k} /\ g[k] = p /\ \A z \in DOMAIN f \ {k} : g[z] = f[z]
    BY <2>2 DEF Put
  <2> QED BY <2>1, <2>3
<1>12. PICK o : o = Activate(cut.c, cut.target, cut.action, cut.expected, 1)
  OBVIOUS
<1>13. PICK u, v, r : u = Once(<<"activation", a>>, a) /\ v = Replace(<<"active", k>>, p) /\ r = Registry(next)
  OBVIOUS
<1>14. o.ok /\ o.writes = <<u, v, r>>
  BY <1>1, <1>4, <1>5, <1>12, <1>13, ActivateIs
<1>15. /\ u.name = <<"activation", a>> /\ u.body = a /\ u.once = TRUE
       /\ v.name = <<"active", k>> /\ v.body = p /\ v.once = FALSE
       /\ r.name = <<"registry.json">> /\ r.body = next /\ r.once = FALSE
  BY <1>13, Fields
<1>16. PICK t : t = o.writes
  OBVIOUS
<1>17. DOMAIN t = {1, 2, 3} /\ t[1] = u /\ t[2] = v /\ t[3] = r
  BY <1>14, <1>16
<1>18. ~Collides(D, u) /\ ~Collides(D, v) /\ ~Collides(D, r)
  <2>1. u.name[1] = "activation" /\ u.name[2] = a
    BY <1>15, ActivationNames
  <2>2. u.name \in DOMAIN D.files => D.files[u.name] = a
    BY <1>4, <2>1 DEF Clean
  <2> QED BY <1>15, <2>2 DEF Collides
<1>19. PICK D1 : D1 = Written(D, u)
  OBVIOUS
<1>20. PICK D2 : D2 = Written(D1, v)
  OBVIOUS
<1>21. PICK D3 : D3 = Written(D2, r)
  OBVIOUS
<1>22. ~IsRegistry(u) /\ ~IsRegistry(v) /\ IsRegistry(r)
  BY <1>15, Names DEF IsRegistry
<1>23. /\ DOMAIN D1 = DOMAIN D
       /\ u.name \in DOMAIN D1.files /\ D1.files[u.name] = u.body
       /\ \A m \in DOMAIN D.files : m \in DOMAIN D1.files /\ D1.files[m] = D.files[m]
  BY <1>2, <1>15, <1>18, <1>19, <1>22, WrittenFiles
<1>24. ~Collides(D1, v)
  BY <1>15 DEF Collides
<1>25. /\ DOMAIN D2 = DOMAIN D
       /\ v.name \in DOMAIN D2.files /\ D2.files[v.name] = v.body
       /\ \A m \in DOMAIN D1.files : m \in DOMAIN D2.files /\ (m # v.name => D2.files[m] = D1.files[m])
  BY <1>2, <1>20, <1>22, <1>23, <1>24, WrittenFiles
<1>26. D3.doc = next /\ D3.files = D2.files
  <2>1. D3 = [D2 EXCEPT !.doc = next]
    BY <1>15, <1>21 DEF Written
  <2> QED BY <1>2, <1>25, <2>1
<1>27. PICK f, g : f = D.files /\ g = D3.files
  OBVIOUS
<1>28. /\ \A m \in DOMAIN f : m \in DOMAIN g /\ (m # <<"active", k>> => g[m] = f[m])
       /\ <<"active", k>> \in DOMAIN g /\ g[<<"active", k>>] = p
       /\ <<"activation", a>> \in DOMAIN g /\ g[<<"activation", a>>] = a
  BY <1>15, <1>23, <1>25, <1>26, <1>27, ActivationNames
<1>29. Filed("catalog", next, g, <<>>)
  <2>1. \A m, b : m[1] # "active" /\ Has(f, <<>>, m, b) => Has(g, <<>>, m, b)
    <3> SUFFICES ASSUME NEW m, NEW b, m[1] # "active", Has(f, <<>>, m, b) PROVE Has(g, <<>>, m, b)
      OBVIOUS
    <3>1. m \in DOMAIN f /\ f[m] = b
      BY HasNow
    <3>2. m # <<"active", k>>
      OBVIOUS
    <3> QED BY <1>28, <3>1, <3>2 DEF Has
  <2>2. Filed("catalog", doc, g, <<>>)
    BY <1>3, <1>27, <2>1, FiledMore
  <2>3. Has(g, <<>>, <<"activation", a>>, a)
    BY <1>28 DEF Has
  <2>4. ASSUME NEW i \in DOMAIN next.log PROVE Has(g, <<>>, <<"activation", next.log[i]>>, next.log[i])
    <3>1. i \in 1 .. n \/ i = n + 1
      BY <1>9
    <3>2. CASE i \in 1 .. n
      <4>1. next.log[i] = doc.log[i] /\ i \in DOMAIN doc.log
        BY <1>9, <3>2
      <4> QED BY <2>2, <4>1 DEF Filed
    <3>3. CASE i = n + 1
      BY <1>9, <2>3, <3>3
    <3> QED BY <3>1, <3>2, <3>3
  <2> QED BY <1>9, <2>2, <2>4 DEF Filed
<1>30. ASSUME NEW c \in DOMAIN next.active PROVE Pointed(c, D3)
  <2>1. CASE c = k
    BY <1>11, <1>26, <1>27, <1>28, <2>1 DEF Pointed
  <2>2. CASE c # k
    <3>1. c \in DOMAIN doc.active /\ next.active[c] = doc.active[c]
      BY <1>11, <2>2
    <3>2. <<"active", c>> \in DOMAIN f /\ f[<<"active", c>>] = doc.active[c]
      BY <1>1, <1>27, <2>2, <3>1 DEF Pointed
    <3>3. <<"active", c>> # <<"active", k>>
      BY <2>2
    <3> QED BY <1>26, <1>27, <1>28, <3>1, <3>2, <3>3 DEF Pointed
  <2> QED BY <2>1, <2>2
<1>31. VerifyCatalog(D3)
  BY <1>7, <1>10, <1>26, <1>27, <1>29, <1>30, CatalogLoads
<1>32. After(D, t) = D3
  BY <1>17, <1>19, <1>20, <1>21 DEF After
<1>33. 1 \in Times
  BY CatalogAssumption DEF Times
<1>34. \A i \in DOMAIN t : ~Collides(dir["catalog"], t[i])
  BY <1>1, <1>17, <1>18
<1> QED BY <1>1, <1>4, <1>12, <1>14, <1>16, <1>31, <1>32, <1>33, <1>34 DEF Heals

(* The registries load or can be repaired.                                 *)
LEMMA FilesRecover ==
  ASSUME RegistryInv, FilesInv
  PROVE  Recoverable
<1>1. Resting(dir) /\ stops \in Nat /\ Pointers
  BY DEF FilesInv
<1>2. /\ VerifyRefresh(dir["refresh"], dir["catalog"].doc)
      /\ dir["mapping"].doc # Absent => VerifyMapping(dir["mapping"], dir["catalog"].doc)
  BY <1>1, RefreshLoads, MappingLoads
<1>3. ASSUME Quiet, stops <= 1 PROVE Loaded \/ (stops = 1 /\ Heals)
  <2>1. DOMAIN cmd = {} /\ ~(stops > 1)
    BY <1>1, <1>3 DEF Quiet
  <2>2. \A c \in DOMAIN dir["catalog"].doc.active : Pointed(c, dir["catalog"]) \/ Ahead(c, dir["catalog"])
    BY <1>1, <2>1 DEF Pointers
  <2>3. CASE \A c \in DOMAIN dir["catalog"].doc.active : Pointed(c, dir["catalog"])
    <3>1. IsSeq(dir["catalog"].doc.log)
      BY CatalogDoc DEF RegistryInv
    <3>2. ValidCatalog(dir["catalog"].doc) /\ Filed("catalog", dir["catalog"].doc, dir["catalog"].files, <<>>)
      BY <1>1, CatalogRests
    <3> QED BY <2>3, <3>1, <3>2, CatalogLoads DEF Loaded
  <2>4. CASE \E c \in DOMAIN dir["catalog"].doc.active : ~Pointed(c, dir["catalog"])
    <3>1. PICK k \in DOMAIN dir["catalog"].doc.active : ~Pointed(k, dir["catalog"])
      BY <2>4
    <3>2. Ahead(k, dir["catalog"])
      BY <2>2, <3>1
    <3>3. \A c \in DOMAIN dir["catalog"].doc.active \ {k} : Pointed(c, dir["catalog"])
      BY <2>2, <3>2 DEF Ahead
    <3>4. stops = 1
      BY <3>2 DEF Ahead
    <3> QED BY <3>1, <3>2, <3>3, <3>4, AheadHeals
  <2> QED BY <2>3, <2>4
<1>4. Quiet => Loaded \/ stops > 1 \/ (stops = 1 /\ Heals)
  BY <1>1, <1>3
<1> QED BY <1>2, <1>4 DEF Recoverable

---------------------------------------------------------------------------
(* What is counted as mapped and what is resolved.                         *)

(* No two versions of one list start at the same time.                     *)
LEMMA OneVersion ==
  ASSUME NEW doc, IsSeq(doc.versions), NEW catalog, ValidMapping(doc, catalog),
         NEW v \in ToSet(doc.versions), NEW w \in ToSet(doc.versions), v.key = w.key, v.from = w.from
  PROVE  v = w
<1>1. Len(doc.versions) \in Nat /\ DOMAIN doc.versions = 1 .. Len(doc.versions)
  BY SeqFacts
<1>2. PICK i \in DOMAIN doc.versions, j \in DOMAIN doc.versions : v = doc.versions[i] /\ w = doc.versions[j]
  BY DEF ToSet
<1>3. v.from \in Int /\ ~ (v.from < w.from) /\ ~ (w.from < v.from)
  BY <1>2 DEF ValidMapping
<1>4. ~ (i < j) /\ ~ (j < i)
  BY <1>2, <1>3 DEF ValidMapping
<1>5. i = j
  BY <1>1, <1>4
<1> QED BY <1>2, <1>5

(* The version in effect is the latest of those that have started.         *)
LEMMA SelectedIs ==
  ASSUME NEW doc, IsSeq(doc.versions), NEW catalog, ValidMapping(doc, catalog), NEW key, NEW at,
         NEW all, all = Effective(doc, key, at), all # {}, NEW s, s = Selected(doc, key, at)
  PROVE  s \in all /\ \A w \in all : w.from <= s.from
<1>1. Len(doc.versions) \in Nat /\ DOMAIN doc.versions = 1 .. Len(doc.versions)
  BY SeqFacts
<1>2. PICK mine : mine = {i \in 1 .. Len(doc.versions) : doc.versions[i].key = key /\ doc.versions[i].from <= at}
  OBVIOUS
<1>3. \A v : v \in all <=> \E i \in mine : v = doc.versions[i]
  BY <1>1, <1>2 DEF Effective, ToSet
<1>4. PICK m \in mine : \A j \in mine : j <= m
  <2>1. mine \subseteq 1 .. Len(doc.versions) /\ mine # {} /\ Len(doc.versions) \in Nat
    BY <1>1, <1>2, <1>3
  <2> QED BY ONLY <2>1, GreatestOf
<1>5. ASSUME NEW j \in mine PROVE doc.versions[j].from <= doc.versions[m].from
  <2>1. /\ j \in DOMAIN doc.versions /\ m \in DOMAIN doc.versions /\ j <= m
        /\ doc.versions[j].key = doc.versions[m].key /\ j \in Int /\ m \in Int
    BY <1>1, <1>2, <1>4
  <2>2. doc.versions[j].from \in Int /\ doc.versions[m].from \in Int
    BY <2>1 DEF ValidMapping
  <2>3. CASE j = m
    BY <2>2, <2>3
  <2>4. CASE j < m
    <3>1. doc.versions[j].from < doc.versions[m].from
      BY <2>1, <2>4 DEF ValidMapping
    <3> QED BY <2>2, <3>1
  <2> QED BY <2>1, <2>3, <2>4
<1>6. \E v \in all : \A w \in all : w.from <= v.from
  BY <1>3, <1>4, <1>5
<1>7. s = CHOOSE v \in all : \A w \in all : w.from <= v.from
  BY DEF Selected
<1> QED BY <1>6, <1>7

(* What a list resolves to: the component of the version in effect.        *)
ResolvesTo(doc, catalog, key, at, c, v) ==
  Resolve(doc, catalog, key, at).component = c
    <=> /\ \E k \in doc.keys : k.key = key
        /\ Effective(doc, key, at) # {} /\ ~ (at >= v.to) /\ v.action # "retire" /\ v.component = c

(* That is what Resolve does.                                             *)
LEMMA Resolution ==
  ASSUME NEW doc, NEW catalog, NEW key, NEW at, NEW c, c # Absent,
         NEW v, v = Selected(doc, key, at)
  PROVE  ResolvesTo(doc, catalog, key, at, c, v)
<1>1. PICK r : r = Resolve(doc, catalog, key, at)
  OBVIOUS
<1>2. CASE /\ \E k \in doc.keys : k.key = key
           /\ Effective(doc, key, at) # {} /\ ~ (at >= v.to) /\ v.action # "retire"
  <2>1. r.component = v.component
    BY <1>1, <1>2 DEF Resolve
  <2> QED BY <1>1, <1>2, <2>1 DEF ResolvesTo
<1>3. CASE ~ (/\ \E k \in doc.keys : k.key = key
              /\ Effective(doc, key, at) # {} /\ ~ (at >= v.to) /\ v.action # "retire")
  <2>1. r.component = Absent
    BY <1>1, <1>3 DEF Resolve
  <2> QED BY <1>1, <1>3, <2>1 DEF ResolvesTo
<1> QED BY <1>2, <1>3

(* The versions that the analysis counts.                                  *)
Counted(mappings, component, at) ==
  LET effective == {v \in mappings : v.from <= at}
      latest == {v \in effective : \A w \in effective : w.key = v.key => w.from <= v.from}
  IN  {v \in latest : v.action = "bind" /\ v.component = component /\ at < v.to}

(* A version is counted when it is what its list resolves to.              *)
LEMMA CountedIs ==
  ASSUME NEW doc, IsSeq(doc.versions), NEW catalog, ValidMapping(doc, catalog),
         NEW c, c # Absent, NEW at \in Int, NEW v
  PROVE  v \in Counted(ToSet(doc.versions), c, at)
           <=> /\ v \in ToSet(doc.versions) /\ v.key \in Keys /\ v = Selected(doc, v.key, at)
               /\ Resolve(doc, catalog, v.key, at).component = c
<1>1. PICK all, s : all = Effective(doc, v.key, at) /\ s = Selected(doc, v.key, at)
  OBVIOUS
<1>2. \A w : w \in all <=> w \in ToSet(doc.versions) /\ w.key = v.key /\ w.from <= at
  BY <1>1 DEF Effective
<1>3. \A w \in ToSet(doc.versions) : /\ w.key \in Keys /\ w.from \in Int /\ w.to \in Int /\ w.action \in {"bind", "retire"}
                                     /\ \E k \in doc.keys : k.key = w.key
  <2> SUFFICES ASSUME NEW i \in DOMAIN doc.versions
               PROVE  LET w == doc.versions[i] IN
                      /\ w.key \in Keys /\ w.from \in Int /\ w.to \in Int /\ w.action \in {"bind", "retire"}
                      /\ \E k \in doc.keys : k.key = w.key
    BY DEF ToSet
  <2>1. ValidateVersion(doc, i, catalog)
    BY DEF ValidMapping
  <2>2. \E k \in doc.keys : k.key = doc.versions[i].key
    BY <2>1 DEF ValidateVersion
  <2> QED BY <2>2 DEF ValidMapping
<1>4. all # {} => s \in all /\ \A w \in all : w.from <= s.from
  BY <1>1, SelectedIs
<1>5. v \in Counted(ToSet(doc.versions), c, at)
        <=> /\ v \in all /\ \A w \in all : w.from <= v.from
            /\ v.action = "bind" /\ v.component = c /\ at < v.to
  BY <1>2 DEF Counted
<1>6. ASSUME v \in all PROVE (\A w \in all : w.from <= v.from) <=> v = s
  <2>1. ASSUME \A w \in all : w.from <= v.from PROVE v = s
    <3>1. s.from <= v.from /\ v.from <= s.from /\ s \in ToSet(doc.versions) /\ v \in ToSet(doc.versions) /\ s.key = v.key
      BY <1>2, <1>4, <1>6, <2>1
    <3>2. s.from = v.from
      BY <1>3, <3>1
    <3> QED BY <3>1, <3>2, OneVersion
  <2> QED BY <1>4, <1>6, <2>1
<1>7. Resolve(doc, catalog, v.key, at).component = c
        <=> /\ \E k \in doc.keys : k.key = v.key
            /\ all # {} /\ ~ (at >= s.to) /\ s.action # "retire" /\ s.component = c
  <2>1. PICK key : key = v.key
    OBVIOUS
  <2>2. ResolvesTo(doc, catalog, key, at, c, s)
    BY <1>1, <2>1, Resolution
  <2> QED BY <1>1, <2>1, <2>2 DEF ResolvesTo
<1>8. ASSUME v \in Counted(ToSet(doc.versions), c, at)
      PROVE  /\ v \in ToSet(doc.versions) /\ v.key \in Keys /\ v = s
             /\ Resolve(doc, catalog, v.key, at).component = c
  <2>1. /\ v \in all /\ v = s /\ v \in ToSet(doc.versions)
        /\ v.action = "bind" /\ v.component = c /\ at < v.to
    BY <1>2, <1>5, <1>6, <1>8
  <2>2. ~ (at >= v.to) /\ v.key \in Keys /\ \E k \in doc.keys : k.key = v.key
    BY <1>3, <2>1
  <2> QED BY <1>7, <2>1, <2>2
<1>9. ASSUME v \in ToSet(doc.versions), v = s, Resolve(doc, catalog, v.key, at).component = c
      PROVE  v \in Counted(ToSet(doc.versions), c, at)
  <2>1. v \in all /\ ~ (at >= v.to) /\ v.action # "retire" /\ v.component = c
    BY <1>4, <1>7, <1>9
  <2>2. at < v.to /\ v.action = "bind"
    BY <1>3, <1>9, <2>1
  <2> QED BY <1>5, <1>6, <1>9, <2>1, <2>2
<1> QED BY <1>1, <1>8, <1>9

(* What is mapped is what is resolved.                                     *)
LEMMA FilesResolve ==
  ASSUME RegistryInv, FilesInv
  PROVE  MappedIsResolved
<1>1. PICK doc, catalog : doc = dir["mapping"].doc /\ catalog = dir["catalog"].doc
  OBVIOUS
<1>2. SUFFICES ASSUME doc # Absent, NEW c \in Components, NEW at \in 0 .. (MaxTime + 1)
               PROVE  activeMappingCount(ToSet(doc.versions), c, at)
                        = Cardinality({k \in {input.key : input \in Mappings} : Resolve(doc, catalog, k, at).component = c})
  BY <1>1 DEF MappedIsResolved
<1>3. IsSeq(doc.versions) /\ ValidMapping(doc, catalog)
  BY <1>1, <1>2, MappingDoc DEF RegistryInv, FilesInv, Resting, Dirs, Valid
<1>4. c # Absent /\ at \in Int
  BY CatalogAssumption
<1>5. PICK counted, resolved : counted = Counted(ToSet(doc.versions), c, at)
                               /\ resolved = {k \in Keys : Resolve(doc, catalog, k, at).component = c}
  OBVIOUS
<1>6. \A v : v \in counted <=> /\ v \in ToSet(doc.versions) /\ v.key \in Keys /\ v = Selected(doc, v.key, at)
                               /\ Resolve(doc, catalog, v.key, at).component = c
  BY <1>3, <1>4, <1>5, CountedIs
<1>7. PICK f : f = [v \in counted |-> v.key]
  OBVIOUS
<1>8. ASSUME NEW k \in resolved PROVE \E v \in counted : v.key = k
  <2>1. PICK all, s : all = Effective(doc, k, at) /\ s = Selected(doc, k, at)
    OBVIOUS
  <2>2. all # {} /\ k \in Keys /\ Resolve(doc, catalog, k, at).component = c
    <3>1. k \in Keys /\ Resolve(doc, catalog, k, at).component = c
      BY <1>5
    <3>2. ResolvesTo(doc, catalog, k, at, c, s)
      BY <1>4, <2>1, Resolution
    <3> QED BY <2>1, <3>1, <3>2 DEF ResolvesTo
  <2>3. s \in all
    BY <1>3, <2>1, <2>2, SelectedIs
  <2>4. s \in ToSet(doc.versions) /\ s.key = k
    BY <2>1, <2>3 DEF Effective
  <2> QED BY <1>6, <2>1, <2>2, <2>4
<1>9. \A v \in counted : v.key \in resolved
  BY <1>5, <1>6
<1>10. \A v, w \in counted : v.key = w.key => v = w
  BY <1>6
<1>11. f \in Bijection(counted, resolved)
  <2>1. f \in [counted -> resolved]
    BY <1>7, <1>9
  <2>2. \A v, w \in counted : f[v] = f[w] => v = w
    BY <1>7, <1>10
  <2>3. \A k \in resolved : \E v \in counted : f[v] = k
    BY <1>7, <1>8
  <2> QED BY <2>1, <2>2, <2>3 DEF Bijection, Injection, Surjection, IsInjective
<1>12. IsFiniteSet(counted)
  <2>1. Len(doc.versions) \in Nat /\ DOMAIN doc.versions = 1 .. Len(doc.versions)
    BY <1>3, SeqFacts
  <2>2. doc.versions \in Surjection(1 .. Len(doc.versions), ToSet(doc.versions))
    <3>1. doc.versions \in [1 .. Len(doc.versions) -> ToSet(doc.versions)]
      BY <1>3, <2>1 DEF IsSeq
    <3>2. \A v \in ToSet(doc.versions) : \E i \in 1 .. Len(doc.versions) : doc.versions[i] = v
      BY <2>1 DEF ToSet
    <3> QED BY <3>1, <3>2 DEF Surjection
  <2>3. IsFiniteSet(ToSet(doc.versions))
    BY <2>1, <2>2, FS_Interval, FS_Surjection
  <2>4. counted \subseteq ToSet(doc.versions)
    BY <1>6
  <2> QED BY <2>3, <2>4, FS_Subset
<1>13. Cardinality(counted) = Cardinality(resolved)
  BY <1>11, <1>12, FS_Bijection DEF ExistsBijection
<1>14. activeMappingCount(ToSet(doc.versions), c, at) = Cardinality(counted)
  BY <1>5 DEF activeMappingCount, Counted
<1> QED BY <1>5, <1>13, <1>14 DEF Keys

(***************************************************************************)
(* Whatever commands overlap and wherever they are cut off, every          *)
(* registry.json says only what its files hold, in the numbering and with  *)
(* the references its store checks; the pointer of an active component is  *)
(* behind it only while an activation is between its two last writes, or   *)
(* after a stop there (withLock, writeImmutable, writeAtomic).             *)
(***************************************************************************)
THEOREM FilesSound == Spec => [](RegistryInv /\ FilesInv)
<1>1. Init => RegistryInv /\ FilesInv
  BY InitOK, InitFiles
<1>2. RegistryInv /\ FilesInv /\ [Next]_vars => (RegistryInv /\ FilesInv)'
  BY StepKeeps, FilesKeep
<1> QED BY <1>1, <1>2, PTL DEF Spec

(***************************************************************************)
(* Registering, activating, mapping, analysing and promoting lose nothing; *)
(* what one stop leaves behind loads, or is repaired by running the        *)
(* activation it cut off again; and the analysis counts as mapped what     *)
(* screening resolves.                                                     *)
(***************************************************************************)
THEOREM RegistriesStand == Spec => RegistriesKept
<1>1. RegistryInv /\ FilesInv => Recoverable /\ MappedIsResolved
  BY FilesRecover, FilesResolve
<1> QED BY <1>1, FilesSound, HistoryHolds, PTL DEF RegistriesKept
=============================================================================
