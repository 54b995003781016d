---------------------------- MODULE ParserProofs ----------------------------
(* What the parser makes of a torrent file, for torrents with any number of *)
(* trackers and files, of any length (EncodeReads, at the end).             *)
(*                                                                          *)
(* The argument follows the grammar that the code does not have.  Run(s,    *)
(* tokens, t) says that the loop's turns over the tokens lead from state s  *)
(* to t.  A part of the file is read (Reads) if its tokens lead from one    *)
(* value of the variables other than infoString, the core, to another,      *)
(* whatever infoString holds, and if they are added to infoString exactly   *)
(* where the info dictionary is open.  Parts are put together by ReadsMore  *)
(* and, for lists of any length, by ReadsAll.  Between two entries of a     *)
(* dictionary the core is at rest (Rest): no key is waiting for its value,  *)
(* no path or integer is half read, and the nesting counters are where the  *)
(* entry began.  Each entry is shown to lead from rest to rest and to set   *)
(* its own field of torrentFile.                                            *)
EXTENDS TorrentParser, ByteToolsProofs

----------------------------------------------------------------------------
(* Runs of the parser's loop.                                               *)

\* The strings of a torrent file.  (That a literal is in STRING is no axiom.)
Words == STRING \cup Keys \cup
  {"", "info", "UTF-8", "md5", "hashes", "private", "similar", "source", "x", "y", "name",
   "encoding", "u1", "u2", "n", "attr", "mtime", "sha1", "symlink path"}
Marks  == {"d", "l", "i", "e"}
Tokens == [type : Marks \cup {"0"}, str : Words, num : Nat]

\* The states between the turns of the loop.
Turns(f, s, tokens, t) ==
  /\ f[0] = s /\ f[Len(tokens)] = t
  /\ \A i \in 1 .. Len(tokens) : f[i] = Turn(f[i - 1], tokens[i])

\* The loop goes from s to t over the tokens.
Run(s, tokens, t) == \E f : Turns(f, s, tokens, t)

LEMMA RunNothing == \A s : Run(s, <<>>, s)
<1> SUFFICES ASSUME NEW s PROVE Run(s, <<>>, s)
  OBVIOUS
<1>1. Turns([i \in 0 .. 0 |-> s], s, <<>>, s)
  BY DEF Turns
<1> QED
  BY <1>1 DEF Run

\* One turn is a run over one token.
LEMMA RunOne ==
  ASSUME NEW s, NEW x
  PROVE  Run(s, <<x>>, Turn(s, x))
<1> DEFINE f == [i \in 0 .. 1 |-> IF i = 0 THEN s ELSE Turn(s, x)]
<1>1. f[0] = s /\ f[1] = Turn(s, x)
  OBVIOUS
<1> HIDE DEF f
<1>2. Len(<<x>>) = 1 /\ <<x>>[1] = x /\ 1 - 1 = 0 /\ \A i \in 1 .. 1 : i = 1
  OBVIOUS
<1>3. Turns(f, s, <<x>>, Turn(s, x))
  BY <1>1, <1>2 DEF Turns
<1> QED
  BY <1>3 DEF Run

\* Runs follow each other.
LEMMA RunMore ==
  ASSUME NEW S, NEW a \in Seq(S), NEW b \in Seq(S), NEW s, NEW t, NEW u,
         Run(s, a, t), Run(t, b, u)
  PROVE  Run(s, a \o b, u)
<1> DEFINE n == Len(a)
           m == Len(b)
           c == a \o b
<1>1. n \in Nat /\ m \in Nat /\ Joined(c, a, b)
  BY Concat
<1>2. PICK f : Turns(f, s, a, t)
  BY DEF Run
<1>3. PICK h : Turns(h, t, b, u)
  BY DEF Run
<1> DEFINE g == [i \in 0 .. n + m |-> IF i <= n THEN f[i] ELSE h[i - n]]
<1>4. /\ \A i \in 0 .. n : g[i] = f[i]
      /\ \A i \in 1 .. m : g[n + i] = h[i]
  <2>1. ASSUME NEW i \in 0 .. n PROVE g[i] = f[i]
    BY <1>1
  <2>2. ASSUME NEW i \in 1 .. m PROVE g[n + i] = h[i]
    <3>1. n + i \in 0 .. n + m /\ ~(n + i <= n) /\ (n + i) - n = i
      BY <1>1
    <3> QED
      BY <3>1
  <2> QED
    BY <2>1, <2>2
<1> HIDE DEF g, n, m, c
<1>5. f[n] = h[0] /\ f[0] = s /\ h[m] = u
  BY <1>2, <1>3 DEF Turns, n, m
<1>6. g[0] = s /\ g[n + m] = u
  <2>1. CASE m = 0
    BY <1>1, <1>4, <1>5, <2>1
  <2>2. CASE m # 0
    BY <1>1, <1>4, <1>5, <2>2
  <2> QED
    BY <2>1, <2>2
<1>7. ASSUME NEW i \in 1 .. n + m PROVE g[i] = Turn(g[i - 1], c[i])
  <2>1. CASE i <= n
    <3>1. i \in 1 .. n /\ i - 1 \in 0 .. n /\ i \in 0 .. n
      BY <1>1, <2>1
    <3>2. f[i] = Turn(f[i - 1], a[i])
      BY <1>2, <3>1 DEF Turns, n
    <3>3. c[i] = a[i]
      BY <1>1, <3>1 DEF Joined, n
    <3> QED
      BY <1>4, <3>1, <3>2, <3>3, Zenon
  <2>2. CASE ~(i <= n)
    <3> DEFINE j == i - n
    <3>1. j \in 1 .. m /\ i = n + j /\ j - 1 \in 0 .. m /\ i - 1 = n + (j - 1)
      BY <1>1, <2>2
    <3> HIDE DEF j
    <3>2. h[j] = Turn(h[j - 1], b[j])
      BY <1>3, <3>1 DEF Turns, m
    <3>3. c[i] = b[j]
      BY <1>1, <3>1 DEF Joined, n, m
    <3>4. g[i - 1] = h[j - 1]
      <4>1. CASE j = 1
        <5>1. i - 1 = n /\ n \in 0 .. n /\ j - 1 = 0
          BY <1>1, <3>1, <4>1
        <5> QED
          BY <1>4, <1>5, <5>1
      <4>2. CASE j # 1
        <5>1. j - 1 \in 1 .. m
          BY <1>1, <3>1, <4>2
        <5> QED
          BY <1>4, <3>1, <5>1
      <4> QED
        BY <4>1, <4>2
    <3>5. g[i] = h[j]
      BY <1>4, <3>1
    <3> QED
      BY <3>2, <3>3, <3>4, <3>5, Zenon
  <2> QED
    BY <2>1, <2>2
<1>8. Len(c) = n + m
  BY <1>1 DEF Joined, n, m
<1>9. Turns(g, s, c, u)
  BY <1>6, <1>7, <1>8 DEF Turns
<1> QED
  BY <1>9 DEF Run, c

\* What is left of a run after its first turn.
LEMMA RunNext ==
  ASSUME NEW S, NEW a \in Seq(S), a # <<>>, NEW s, NEW t, Run(s, a, t)
  PROVE  Run(Turn(s, Head(a)), Tail(a), t)
<1> DEFINE n == Len(a)
           b == Tail(a)
<1>1. /\ n \in Nat \ {0} /\ Head(a) = a[1] /\ Len(b) = n - 1
      /\ \A i \in 1 .. n - 1 : b[i] = a[i + 1]
  OBVIOUS
<1>2. PICK f : Turns(f, s, a, t)
  BY DEF Run
<1> DEFINE g == [i \in 0 .. n - 1 |-> f[i + 1]]
<1>3. \A i \in 0 .. n - 1 : g[i] = f[i + 1]
  OBVIOUS
<1> HIDE DEF g, b, n
<1>4. f[0] = s /\ f[n] = t /\ \A i \in 1 .. n : f[i] = Turn(f[i - 1], a[i])
  BY <1>2 DEF Turns, n
<1>5. g[0] = Turn(s, Head(a))
  <2>1. 0 + 1 = 1 /\ 1 - 1 = 0 /\ 1 \in 1 .. n /\ 0 \in 0 .. n - 1
    BY <1>1
  <2>2. g[0] = f[1] /\ f[1] = Turn(f[0], a[1])
    BY <1>3, <1>4, <2>1
  <2> QED
    BY <1>1, <1>4, <2>2, Zenon
<1>6. g[n - 1] = t
  <2>1. n - 1 \in 0 .. n - 1 /\ (n - 1) + 1 = n
    BY <1>1
  <2> QED
    BY <1>3, <1>4, <2>1
<1>7. ASSUME NEW i \in 1 .. n - 1 PROVE g[i] = Turn(g[i - 1], b[i])
  <2>1. /\ i \in 0 .. n - 1 /\ i - 1 \in 0 .. n - 1 /\ i + 1 \in 1 .. n
        /\ (i + 1) - 1 = i /\ (i - 1) + 1 = i
    BY <1>1
  <2>2. g[i] = f[i + 1] /\ g[i - 1] = f[i] /\ b[i] = a[i + 1]
    BY <1>1, <1>3, <2>1
  <2>3. f[i + 1] = Turn(f[i], a[i + 1])
    BY <1>4, <2>1
  <2> QED
    BY <2>2, <2>3, Zenon
<1>8. Turns(g, Turn(s, Head(a)), b, t)
  BY <1>1, <1>5, <1>6, <1>7 DEF Turns
<1> QED
  BY <1>8 DEF Run, b

\* A run over nothing goes nowhere.
LEMMA RunStays ==
  ASSUME NEW s, NEW t, Run(s, <<>>, t)
  PROVE  s = t
BY DEF Run, Turns

----------------------------------------------------------------------------
(* The parser's variables, infoString apart from the others.                *)

Core(op, flag, cnt, depth, fs, prev, road, file, tf) ==
  [op |-> op, flag |-> flag, cnt |-> cnt, infoCounter |-> depth, isFiles |-> fs,
   prevStr |-> prev, pathRoad |-> road, file |-> file, tf |-> tf]

At(core, info) ==
  [op |-> core.op, flag |-> core.flag, cnt |-> core.cnt, infoCounter |-> core.infoCounter,
   isFiles |-> core.isFiles, prevStr |-> core.prevStr, pathRoad |-> core.pathRoad,
   file |-> core.file, infoString |-> info, tf |-> core.tf]

\* infoString after the tokens, heard (inside the info dictionary) or not.
Heard(hear, info, tokens) == IF hear THEN info \o tokens ELSE info

\* One turn, whatever infoString holds.
Sees(hear, core, x, next) ==
  \A info \in Seq(Tokens) :
    Turn(At(core, info), x) = At(next, IF hear THEN Append(info, x) ELSE info)

\* The loop reads the tokens, whatever infoString holds.
Reads(hear, core, tokens, next) ==
  \A info \in Seq(Tokens) : Run(At(core, info), tokens, At(next, Heard(hear, info, tokens)))

\* No token changes nothing.
LEMMA ReadsNothing == \A hear \in BOOLEAN : \A core : Reads(hear, core, <<>>, core)
<1> SUFFICES ASSUME NEW hear \in BOOLEAN, NEW core, NEW info \in Seq(Tokens)
             PROVE  Run(At(core, info), <<>>, At(core, Heard(hear, info, <<>>)))
  BY DEF Reads
<1>1. Heard(hear, info, <<>>) = info
  BY ConcatEmptySeq DEF Heard
<1> QED
  BY <1>1, RunNothing, Zenon

LEMMA ReadsOne ==
  ASSUME NEW hear \in BOOLEAN, NEW core, NEW next, NEW x \in Tokens, Sees(hear, core, x, next)
  PROVE  Reads(hear, core, <<x>>, next)
<1> SUFFICES ASSUME NEW info \in Seq(Tokens)
             PROVE  Run(At(core, info), <<x>>, At(next, Heard(hear, info, <<x>>)))
  BY DEF Reads
<1>1. Heard(hear, info, <<x>>) = IF hear THEN Append(info, x) ELSE info
  BY AppendIsConcat DEF Heard
<1>2. Run(At(core, info), <<x>>, Turn(At(core, info), x))
  BY RunOne
<1> QED
  BY <1>1, <1>2, Zenon DEF Sees

\* What is read part by part is read.
LEMMA ReadsMore ==
  ASSUME NEW hear \in BOOLEAN, NEW a \in Seq(Tokens), NEW b \in Seq(Tokens),
         NEW p, NEW q, NEW r, Reads(hear, p, a, q), Reads(hear, q, b, r)
  PROVE  Reads(hear, p, a \o b, r)
<1> SUFFICES ASSUME NEW info \in Seq(Tokens)
             PROVE  Run(At(p, info), a \o b, At(r, Heard(hear, info, a \o b)))
  BY DEF Reads
<1> DEFINE more == Heard(hear, info, a)
<1>1. more \in Seq(Tokens)
  BY DEF Heard
<1>2. Heard(hear, info, a \o b) = Heard(hear, more, b)
  <2>1. (info \o a) \o b = info \o (a \o b)
    BY ConcatAssociative
  <2> QED
    BY <2>1, Zenon DEF Heard
<1>3. Run(At(p, info), a, At(q, more)) /\ Run(At(q, more), b, At(r, Heard(hear, more, b)))
  BY <1>1 DEF Reads
<1> HIDE DEF more
<1>4. Run(At(p, info), a \o b, At(r, Heard(hear, more, b)))
  BY <1>3, RunMore, Zenon
<1> QED
  BY <1>2, <1>4, Zenon

\* One part after the other.
ReadsEach(hear, cores, parts) ==
  \A k \in 1 .. Len(parts) : Reads(hear, cores[k], parts[k], cores[k + 1])

\* A list of parts is read if each is, whatever their number.
LEMMA ReadsAll ==
  ASSUME NEW hear \in BOOLEAN, NEW parts \in Seq(Seq(Tokens)), NEW cores,
         ReadsEach(hear, cores, parts)
  PROVE  Reads(hear, cores[1], FlattenSeq(parts), cores[Len(parts) + 1])
<1>1. PICK flat : Concatenates(flat, Tokens, parts)
  BY FlattenSteps
<1> DEFINE n == Len(parts)
           T == {k \in Nat : k <= n => Reads(hear, cores[1], flat[k], cores[k + 1])}
<1>2. n \in Nat /\ \A k \in 1 .. n : parts[k] \in Seq(Tokens)
  OBVIOUS
<1>3. /\ flat[0] = <<>> /\ FlattenSeq(parts) = flat[n]
      /\ \A k \in 0 .. n : flat[k] \in Seq(Tokens)
      /\ \A k \in 1 .. n : flat[k] = flat[k - 1] \o parts[k]
      /\ \A k \in 1 .. n : Reads(hear, cores[k], parts[k], cores[k + 1])
  BY <1>1 DEF Concatenates, ReadsEach
<1> HIDE DEF n
<1>4. 0 \in T
  <2>1. Reads(hear, cores[1], flat[0], cores[1]) /\ 0 + 1 = 1
    BY <1>3, ReadsNothing
  <2> QED
    BY <2>1
<1>5. ASSUME NEW k \in Nat, k \in T PROVE k + 1 \in T
  <2> SUFFICES ASSUME k + 1 <= n PROVE Reads(hear, cores[1], flat[k + 1], cores[(k + 1) + 1])
    OBVIOUS
  <2>1. k \in 0 .. n /\ k + 1 \in 1 .. n /\ (k + 1) - 1 = k /\ k <= n
    BY <1>2
  <2>2. Reads(hear, cores[1], flat[k], cores[k + 1])
    BY <1>5, <2>1
  <2>3. Reads(hear, cores[k + 1], parts[k + 1], cores[(k + 1) + 1])
    BY <1>3, <2>1
  <2>4. flat[k + 1] = flat[k] \o parts[k + 1] /\ flat[k] \in Seq(Tokens) /\
          parts[k + 1] \in Seq(Tokens)
    BY <1>2, <1>3, <2>1
  <2>5. Reads(hear, cores[1], flat[k] \o parts[k + 1], cores[(k + 1) + 1])
    BY <2>2, <2>3, <2>4, ReadsMore, Zenon
  <2> QED
    BY <2>4, <2>5, Zenon
<1> HIDE DEF T
<1>6. \A k \in Nat : k \in T
  BY <1>4, <1>5, Induction
<1>7. Reads(hear, cores[1], flat[n], cores[n + 1])
  BY <1>2, <1>6 DEF T
<1> QED
  BY <1>3, <1>7 DEF n
State(op, flag, cnt, depth, fs, prev, road, file, tf, info) ==
  [op |-> op, flag |-> flag, cnt |-> cnt, infoCounter |-> depth, isFiles |-> fs,
   prevStr |-> prev, pathRoad |-> road, file |-> file, infoString |-> info, tf |-> tf]

PutOp(s, v) == [s EXCEPT !.op = v]

\* Assignments to one variable of the parser, and to several at once.
LEMMA SetOp ==
  ASSUME NEW op, NEW flag, NEW cnt, NEW depth, NEW fs, NEW prev, NEW road, NEW file, NEW tf,
           NEW info,
         NEW v
  PROVE  PutOp(State(op, flag, cnt, depth, fs, prev, road, file, tf, info), v)
           = State(v, flag, cnt, depth, fs, prev, road, file, tf, info)
BY DEF State, PutOp

PutCnt(s, v) == [s EXCEPT !.cnt = v]

LEMMA SetCnt ==
  ASSUME NEW op, NEW flag, NEW cnt, NEW depth, NEW fs, NEW prev, NEW road, NEW file, NEW tf,
           NEW info,
         NEW v
  PROVE  PutCnt(State(op, flag, cnt, depth, fs, prev, road, file, tf, info), v)
           = State(op, flag, v, depth, fs, prev, road, file, tf, info)
BY DEF State, PutCnt

PutFlag(s, v) == [s EXCEPT !.flag = v]

LEMMA SetFlag ==
  ASSUME NEW op, NEW flag, NEW cnt, NEW depth, NEW fs, NEW prev, NEW road, NEW file, NEW tf,
           NEW info,
         NEW v
  PROVE  PutFlag(State(op, flag, cnt, depth, fs, prev, road, file, tf, info), v)
           = State(op, v, cnt, depth, fs, prev, road, file, tf, info)
BY DEF State, PutFlag

PutFs(s, v) == [s EXCEPT !.isFiles = v]

LEMMA SetFs ==
  ASSUME NEW op, NEW flag, NEW cnt, NEW depth, NEW fs, NEW prev, NEW road, NEW file, NEW tf,
           NEW info,
         NEW v
  PROVE  PutFs(State(op, flag, cnt, depth, fs, prev, road, file, tf, info), v)
           = State(op, flag, cnt, depth, v, prev, road, file, tf, info)
BY DEF State, PutFs

PutCntDepth(s, v, w) == [s EXCEPT !.cnt = v, !.infoCounter = w]

LEMMA SetCntDepth ==
  ASSUME NEW op, NEW flag, NEW cnt, NEW depth, NEW fs, NEW prev, NEW road, NEW file, NEW tf,
           NEW info,
         NEW v, NEW w
  PROVE  PutCntDepth(State(op, flag, cnt, depth, fs, prev, road, file, tf, info), v, w)
           = State(op, flag, v, w, fs, prev, road, file, tf, info)
<1>1. [State(op, flag, cnt, depth, fs, prev, road, file, tf, info) EXCEPT !.cnt = v]
        = State(op, flag, v, depth, fs, prev, road, file, tf, info)
  BY DEF State
<1>2. [State(op, flag, v, depth, fs, prev, road, file, tf, info) EXCEPT !.infoCounter = w]
        = State(op, flag, v, w, fs, prev, road, file, tf, info)
  BY DEF State
<1> QED
  BY <1>1, <1>2, Zenon DEF PutCntDepth

PutDepthFlag(s, v, w) == [s EXCEPT !.infoCounter = v, !.flag = w]

LEMMA SetDepthFlag ==
  ASSUME NEW op, NEW flag, NEW cnt, NEW depth, NEW fs, NEW prev, NEW road, NEW file, NEW tf,
           NEW info,
         NEW v, NEW w
  PROVE  PutDepthFlag(State(op, flag, cnt, depth, fs, prev, road, file, tf, info), v, w)
           = State(op, w, cnt, v, fs, prev, road, file, tf, info)
<1>1. [State(op, flag, cnt, depth, fs, prev, road, file, tf, info) EXCEPT !.infoCounter = v]
        = State(op, flag, cnt, v, fs, prev, road, file, tf, info)
  BY DEF State
<1>2. [State(op, flag, cnt, v, fs, prev, road, file, tf, info) EXCEPT !.flag = w]
        = State(op, w, cnt, v, fs, prev, road, file, tf, info)
  BY DEF State
<1> QED
  BY <1>1, <1>2, Zenon DEF PutDepthFlag

PutFlagPrev(s, v, w) == [s EXCEPT !.flag = v, !.prevStr = w]

LEMMA SetFlagPrev ==
  ASSUME NEW op, NEW flag, NEW cnt, NEW depth, NEW fs, NEW prev, NEW road, NEW file, NEW tf,
           NEW info,
         NEW v, NEW w
  PROVE  PutFlagPrev(State(op, flag, cnt, depth, fs, prev, road, file, tf, info), v, w)
           = State(op, v, cnt, depth, fs, w, road, file, tf, info)
<1>1. [State(op, flag, cnt, depth, fs, prev, road, file, tf, info) EXCEPT !.flag = v]
        = State(op, v, cnt, depth, fs, prev, road, file, tf, info)
  BY DEF State
<1>2. [State(op, v, cnt, depth, fs, prev, road, file, tf, info) EXCEPT !.prevStr = w]
        = State(op, v, cnt, depth, fs, w, road, file, tf, info)
  BY DEF State
<1> QED
  BY <1>1, <1>2, Zenon DEF PutFlagPrev

PutFlagFs(s, v, w) == [s EXCEPT !.flag = v, !.isFiles = w]

LEMMA SetFlagFs ==
  ASSUME NEW op, NEW flag, NEW cnt, NEW depth, NEW fs, NEW prev, NEW road, NEW file, NEW tf,
           NEW info,
         NEW v, NEW w
  PROVE  PutFlagFs(State(op, flag, cnt, depth, fs, prev, road, file, tf, info), v, w)
           = State(op, v, cnt, depth, w, prev, road, file, tf, info)
<1>1. [State(op, flag, cnt, depth, fs, prev, road, file, tf, info) EXCEPT !.flag = v]
        = State(op, v, cnt, depth, fs, prev, road, file, tf, info)
  BY DEF State
<1>2. [State(op, v, cnt, depth, fs, prev, road, file, tf, info) EXCEPT !.isFiles = w]
        = State(op, v, cnt, depth, w, prev, road, file, tf, info)
  BY DEF State
<1> QED
  BY <1>1, <1>2, Zenon DEF PutFlagFs

PutDepthOp(s, v, w) == [s EXCEPT !.infoCounter = v, !.op = w]

LEMMA SetDepthOp ==
  ASSUME NEW op, NEW flag, NEW cnt, NEW depth, NEW fs, NEW prev, NEW road, NEW file, NEW tf,
           NEW info,
         NEW v, NEW w
  PROVE  PutDepthOp(State(op, flag, cnt, depth, fs, prev, road, file, tf, info), v, w)
           = State(w, flag, cnt, v, fs, prev, road, file, tf, info)
<1>1. [State(op, flag, cnt, depth, fs, prev, road, file, tf, info) EXCEPT !.infoCounter = v]
        = State(op, flag, cnt, v, fs, prev, road, file, tf, info)
  BY DEF State
<1>2. [State(op, flag, cnt, v, fs, prev, road, file, tf, info) EXCEPT !.op = w]
        = State(w, flag, cnt, v, fs, prev, road, file, tf, info)
  BY DEF State
<1> QED
  BY <1>1, <1>2, Zenon DEF PutDepthOp

PutTfFile(s, v, w) == [s EXCEPT !.tf = v, !.file = w]

LEMMA SetTfFile ==
  ASSUME NEW op, NEW flag, NEW cnt, NEW depth, NEW fs, NEW prev, NEW road, NEW file, NEW tf,
           NEW info,
         NEW v, NEW w
  PROVE  PutTfFile(State(op, flag, cnt, depth, fs, prev, road, file, tf, info), v, w)
           = State(op, flag, cnt, depth, fs, prev, road, w, v, info)
<1>1. [State(op, flag, cnt, depth, fs, prev, road, file, tf, info) EXCEPT !.tf = v]
        = State(op, flag, cnt, depth, fs, prev, road, file, v, info)
  BY DEF State
<1>2. [State(op, flag, cnt, depth, fs, prev, road, file, v, info) EXCEPT !.file = w]
        = State(op, flag, cnt, depth, fs, prev, road, w, v, info)
  BY DEF State
<1> QED
  BY <1>1, <1>2, Zenon DEF PutTfFile

PutFileRoadFlag(s, v, w, u) == [s EXCEPT !.file = v, !.pathRoad = w, !.flag = u]

LEMMA SetFileRoadFlag ==
  ASSUME NEW op, NEW flag, NEW cnt, NEW depth, NEW fs, NEW prev, NEW road, NEW file, NEW tf,
           NEW info,
         NEW v, NEW w, NEW u
  PROVE  PutFileRoadFlag(State(op, flag, cnt, depth, fs, prev, road, file, tf, info), v, w, u)
           = State(op, u, cnt, depth, fs, prev, w, v, tf, info)
<1>1. [State(op, flag, cnt, depth, fs, prev, road, file, tf, info) EXCEPT !.file = v]
        = State(op, flag, cnt, depth, fs, prev, road, v, tf, info)
  BY DEF State
<1>2. [State(op, flag, cnt, depth, fs, prev, road, v, tf, info) EXCEPT !.pathRoad = w]
        = State(op, flag, cnt, depth, fs, prev, w, v, tf, info)
  BY DEF State
<1>3. [State(op, flag, cnt, depth, fs, prev, w, v, tf, info) EXCEPT !.flag = u]
        = State(op, u, cnt, depth, fs, prev, w, v, tf, info)
  BY DEF State
<1> QED
  BY <1>1, <1>2, <1>3, Zenon DEF PutFileRoadFlag

\* What the operators of TorrentParser do, each from a state given by its variables.
LEMMA PushDoes ==
  ASSUME NEW op, NEW flag, NEW cnt, NEW depth, NEW fs, NEW prev, NEW road, NEW file, NEW tf,
           NEW info, NEW c
  PROVE  Push(State(op, flag, cnt, depth, fs, prev, road, file, tf, info), c)
           = State(<<c>> \o op, flag, cnt, depth, fs, prev, road, file, tf, info)
<1> DEFINE s == State(op, flag, cnt, depth, fs, prev, road, file, tf, info)
<1>1. s.op = op
  BY DEF State
<1>2. Push(s, c) = PutOp(s, <<c>> \o op)
  BY <1>1, Zenon DEF Push, PutOp
<1> QED
  BY <1>2, SetOp

Deeper(depth) == IF depth > 0 THEN depth + 1 ELSE 0

LEMMA NestDoes ==
  ASSUME NEW op, NEW flag, NEW cnt, NEW depth, NEW fs, NEW prev, NEW road, NEW file, NEW tf,
           NEW info
  PROVE  Nest(State(op, flag, cnt, depth, fs, prev, road, file, tf, info))
           = State(op, flag, cnt + 1, Deeper(depth), fs, prev, road, file, tf, info)
<1> DEFINE s == State(op, flag, cnt, depth, fs, prev, road, file, tf, info)
<1>1. s.cnt = cnt /\ s.infoCounter = depth
  BY DEF State
<1>2. Nest(s) = PutCntDepth(s, cnt + 1, Deeper(depth))
  BY <1>1, Zenon DEF Nest, Deeper, PutCntDepth
<1> QED
  BY <1>2, SetCntDepth

LEMMA NestsIf ==
  ASSUME NEW op, NEW flag, NEW cnt, NEW depth, NEW fs, NEW prev, NEW road, NEW file, NEW tf,
           NEW info
  PROVE  NestIfValue(State(op, flag, cnt, depth, fs, prev, road, file, tf, info))
           = IF flag # "NOTHING" \/ fs = 1
           THEN State(op, flag, cnt + 1, Deeper(depth), fs, prev, road, file, tf, info)
           ELSE State(op, flag, cnt, depth, fs, prev, road, file, tf, info)
<1> DEFINE s == State(op, flag, cnt, depth, fs, prev, road, file, tf, info)
<1>1. s.flag = flag /\ s.isFiles = fs
  BY DEF State
<1> QED
  BY <1>1, NestDoes DEF NestIfValue

LEMMA KeyDoes ==
  ASSUME NEW op, NEW flag, NEW cnt, NEW depth, NEW fs, NEW prev, NEW road, NEW file, NEW tf,
           NEW info, NEW key
  PROVE  OnKey(State(op, flag, cnt, depth, fs, prev, road, file, tf, info), key)
           = IF key \notin Keys
             THEN State(op, "OTHER", cnt, depth, fs, key, road, file, tf, info)
             ELSE IF key = "files"
               THEN State(op, flag, cnt, depth, 1, prev, road, file, tf, info)
               ELSE State(op, key, cnt, depth, fs, prev, road, file, tf, info)
<1> DEFINE s == State(op, flag, cnt, depth, fs, prev, road, file, tf, info)
<1>1. "files" \in Keys
  BY DEF Keys
<1>2. OnKey(s, key) = IF key \notin Keys THEN PutFlagPrev(s, "OTHER", key)
                      ELSE IF key = "files" THEN PutFs(s, 1) ELSE PutFlag(s, key)
  BY <1>1, Zenon DEF OnKey, PutFlag, PutFlagPrev, PutFs
<1> QED
  BY <1>2, SetFlag, SetFlagPrev, SetFs

LEMMA InfoDoes ==
  ASSUME NEW op, NEW flag, NEW cnt, NEW depth, NEW fs, NEW prev, NEW road, NEW file, NEW tf,
           NEW info
  PROVE  OnDict(State(op, "info", cnt, depth, fs, prev, road, file, tf, info))
           = State(op, "NOTHING", cnt, depth + 1, fs, prev, road, file, tf, info)
<1> DEFINE s == State(op, "info", cnt, depth, fs, prev, road, file, tf, info)
<1>1. s.flag = "info" /\ s.infoCounter = depth
  BY DEF State
<1>2. OnDict(s) = PutDepthFlag(s, depth + 1, "NOTHING")
  BY <1>1, Zenon DEF OnDict, PutDepthFlag
<1> QED
  BY <1>2, SetDepthFlag

LEMMA DictDoes ==
  ASSUME NEW op, NEW flag, NEW cnt, NEW depth, NEW fs, NEW prev, NEW road, NEW file, NEW tf,
           NEW info, flag # "info"
  PROVE  OnDict(State(op, flag, cnt, depth, fs, prev, road, file, tf, info))
           = NestIfValue(State(op, flag, cnt, depth, fs, prev, road, file, tf, info))
<1> DEFINE s == State(op, flag, cnt, depth, fs, prev, road, file, tf, info)
<1>1. s.flag = flag
  BY DEF State
<1> QED
  BY <1>1, Zenon DEF OnDict

\* FinishFile: no file and no path is complete, a path is, or a file is.
LEMMA FinishNothing ==
  ASSUME NEW op, NEW flag, NEW cnt, NEW depth, NEW fs, NEW prev, NEW road, NEW file, NEW tf,
           NEW info, file.path = <<>> \/ file.length = 0, road = <<>>
  PROVE  FinishFile(State(op, flag, cnt, depth, fs, prev, road, file, tf, info))
           = State(op, flag, cnt, depth, fs, prev, road, file, tf, info)
<1> DEFINE s == State(op, flag, cnt, depth, fs, prev, road, file, tf, info)
<1>1. s.file = file /\ s.pathRoad = road
  BY DEF State
<1> QED
  BY <1>1, Zenon DEF FinishFile

LEMMA FinishPath ==
  ASSUME NEW op, NEW flag, NEW cnt, NEW depth, NEW fs, NEW prev, NEW road, NEW file, NEW tf,
           NEW info, file.path = <<>> \/ file.length = 0, road # <<>>
  PROVE  FinishFile(State(op, flag, cnt, depth, fs, prev, road, file, tf, info))
           = State(op, "NOTHING", cnt, depth, fs, prev, <<>>, [file EXCEPT !.path = road], tf,
           info)
<1> DEFINE s == State(op, flag, cnt, depth, fs, prev, road, file, tf, info)
<1>1. s.file = file /\ s.pathRoad = road
  BY DEF State
<1>2. [s EXCEPT !.file.path = road] = [s EXCEPT !.file = [file EXCEPT !.path = road]]
  BY DEF State
<1>3. FinishFile(s) = [s EXCEPT !.file.path = road, !.pathRoad = <<>>, !.flag = "NOTHING"]
  BY <1>1, Zenon DEF FinishFile
<1>4. FinishFile(s) = PutFileRoadFlag(s, [file EXCEPT !.path = road], <<>>, "NOTHING")
  BY <1>2, <1>3, Zenon DEF PutFileRoadFlag
<1> QED
  BY <1>4, SetFileRoadFlag

LEMMA FinishAppends ==
  ASSUME NEW op, NEW flag, NEW cnt, NEW depth, NEW fs, NEW prev, NEW road, NEW file, NEW tf,
           NEW info, file.path # <<>>, file.length # 0
  PROVE  FinishFile(State(op, flag, cnt, depth, fs, prev, road, file, tf, info))
           = State(op, flag, cnt, depth, fs, prev, road, EmptyFile,
           [tf EXCEPT !.files = Append(@, file)], info)
<1> DEFINE s == State(op, flag, cnt, depth, fs, prev, road, file, tf, info)
<1>1. s.file = file /\ s.pathRoad = road /\ s.tf = tf
  BY DEF State
<1>2. [s EXCEPT !.tf.files = Append(@, file)]
        = [s EXCEPT !.tf = [tf EXCEPT !.files = Append(@, file)]]
  BY DEF State
<1>3. FinishFile(s) = [s EXCEPT !.tf.files = Append(@, file), !.file = EmptyFile]
  BY <1>1, Zenon DEF FinishFile
<1>4. FinishFile(s) = PutTfFile(s, [tf EXCEPT !.files = Append(@, file)], EmptyFile)
  BY <1>2, <1>3, Zenon DEF PutTfFile
<1> QED
  BY <1>4, SetTfFile

Shallower(n) == IF n > 0 THEN n - 1 ELSE 0

\* LeaveTop and OnEnd: the counters go down, and at the top the flags are reset.
LEMMA TopDoes ==
  ASSUME NEW op, NEW flag, NEW cnt, NEW depth, NEW fs, NEW prev, NEW road, NEW file, NEW tf,
           NEW info
  PROVE  LeaveTop(State(op, flag, cnt, depth, fs, prev, road, file, tf, info))
           = IF cnt > 0 THEN State(op, flag, cnt, depth, fs, prev, road, file, tf, info)
             ELSE State(op, "NOTHING", cnt, depth, (IF fs = 1 THEN -1 ELSE fs), prev, road,
             file, tf, info)
<1> DEFINE s == State(op, flag, cnt, depth, fs, prev, road, file, tf, info)
<1>1. s.cnt = cnt /\ s.isFiles = fs
  BY DEF State
<1>2. LeaveTop(s) = IF cnt > 0 THEN s
        ELSE PutFlagFs(s, "NOTHING", IF fs = 1 THEN -1 ELSE fs)
  BY <1>1, Zenon DEF LeaveTop, PutFlagFs
<1> QED
  BY <1>2, SetFlagFs

LEMMA EndDoes ==
  ASSUME NEW op, NEW flag, NEW cnt, NEW depth, NEW fs, NEW prev, NEW road, NEW file, NEW tf,
           NEW info, NEW s, FinishFile(s)
           = State(op, flag, cnt, depth, fs, prev, road, file, tf, info)
  PROVE  OnEnd(s) = IF Shallower(cnt) > 0
           THEN State(Tail(op), flag, Shallower(cnt), Shallower(depth), fs, prev, road, file,
           tf, info) ELSE State(Tail(op), "NOTHING", Shallower(cnt), Shallower(depth),
           (IF fs = 1 THEN -1 ELSE fs), prev, road, file, tf, info)
<1> DEFINE f == State(op, flag, cnt, depth, fs, prev, road, file, tf, info)
           u == State(op, flag, Shallower(cnt), depth, fs, prev, road, file, tf, info)
           t == LeaveTop(u)
<1>1. f.cnt = cnt
  BY DEF State
<1>2. PutCnt(f, Shallower(cnt)) = u
  BY SetCnt
<1>3. [FinishFile(s) EXCEPT !.cnt = IF @ > 0 THEN @ - 1 ELSE 0] = u
  BY <1>1, <1>2, Zenon DEF Shallower, PutCnt
<1>4. OnEnd(s) = [t EXCEPT !.infoCounter = IF @ > 0 THEN @ - 1 ELSE 0, !.op = Tail(@)]
  BY <1>3, Zenon DEF OnEnd
<1>5. t.infoCounter = depth /\ t.op = op
  <2> DEFINE v == State(op, "NOTHING", Shallower(cnt), depth, IF fs = 1 THEN -1 ELSE fs, prev,
               road, file, tf, info)
  <2>1. t = u \/ t = v
    BY TopDoes
  <2>2. u.infoCounter = depth /\ u.op = op /\ v.infoCounter = depth /\ v.op = op
    BY DEF State
  <2> QED
    BY <2>1, <2>2, Zenon
<1>6. OnEnd(s) = PutDepthOp(t, Shallower(depth), Tail(op))
  BY <1>4, <1>5, Zenon DEF Shallower, PutDepthOp
<1>7. CASE Shallower(cnt) > 0
  <2>1. t = u
    BY <1>7, TopDoes
  <2> QED
    BY <1>6, <1>7, <2>1, SetDepthOp
<1>8. CASE ~(Shallower(cnt) > 0)
  <2>1. t = State(op, "NOTHING", Shallower(cnt), depth, (IF fs = 1 THEN -1 ELSE fs), prev, road,
          file, tf, info)
    BY <1>8, TopDoes
  <2> QED
    BY <1>6, <1>8, <2>1, SetDepthOp
<1> QED
  BY <1>7, <1>8

LEMMA AtIs ==
  ASSUME NEW op, NEW flag, NEW cnt, NEW depth, NEW fs, NEW prev, NEW road, NEW file, NEW tf,
           NEW info
  PROVE  At(Core(op, flag, cnt, depth, fs, prev, road, file, tf), info)
           = State(op, flag, cnt, depth, fs, prev, road, file, tf, info)
BY DEF At, Core, State

Mark(c)        == [type |-> c, str |-> "", num |-> 0]
Text(str, num) == [type |-> "0", str |-> str, num |-> num]

\* A turn for each type of token.
LEMMA MarkDoes ==
  ASSUME NEW s
  PROVE  /\ OnToken(s, Mark("d")) = OnDict(Push(s, "d"))
         /\ OnToken(s, Mark("i")) = Nest(Push(s, "i"))
         /\ OnToken(s, Mark("l")) = NestIfValue(Push(s, "l"))
         /\ OnToken(s, Mark("e")) = OnEnd(s)
BY DEF OnToken, Mark

LEMMA TextDoes ==
  ASSUME NEW s, NEW str, NEW num
  PROVE  OnToken(s, Text(str, num)) = IF Head(s.op) = "i" THEN OnNumber(s, num)
              ELSE IF s.flag = "NOTHING" THEN OnKey(s, str) ELSE OnValue(s, str, num)
<1>1. OnToken(s, Text(str, num)) = OnDigits(s, Text(str, num))
  BY DEF OnToken, Text
<1>2. Text(str, num).str = str /\ Text(str, num).num = num
  BY DEF Text
<1>3. OnToken(s, Text(str, num)) = IF Head(s.op) = "i" THEN OnNumber(s, num)
              ELSE IF s.flag = "NOTHING" THEN OnKey(s, str) ELSE OnValue(s, str, num)
  BY <1>1, <1>2, Zenon DEF OnDigits
<1> QED
  BY <1>3, Zenon

\* What a turn does to the variables other than infoString.
Does(core, x, next) == \A info \in Seq(Tokens) : OnToken(At(core, info), x) = At(next, info)

\* With infoString: a token is heard if the depth is positive before or after it.
LEMMA SeesWhatItDoes ==
  ASSUME NEW hear \in BOOLEAN, NEW core, NEW next, NEW x \in Tokens, Does(core, x, next),
         hear <=> (core.infoCounter > 0 \/ next.infoCounter > 0)
  PROVE  Sees(hear, core, x, next)
<1> SUFFICES ASSUME NEW info \in Seq(Tokens)
             PROVE  Turn(At(core, info), x) = At(next, IF hear THEN Append(info, x) ELSE info)
  BY DEF Sees
<1>1. OnToken(At(core, info), x) = At(next, info)
  BY DEF Does
<1>2. At(core, info).infoCounter = core.infoCounter /\
        At(next, info).infoCounter = next.infoCounter
  BY DEF At
<1> DEFINE more == Append(info, x)
<1>3. [At(next, info) EXCEPT !.infoString = Append(@, x)] = At(next, more)
  <2>1. At(next, info).infoString = info
    BY DEF At
  <2>2. [At(next, info) EXCEPT !.infoString = Append(@, x)]
          = [At(next, info) EXCEPT !.infoString = more]
    BY <2>1, Zenon
  <2> HIDE DEF more
  <2>3. [At(next, info) EXCEPT !.infoString = more] = At(next, more)
    BY DEF At
  <2> QED
    BY <2>2, <2>3, Zenon
<1>4. Turn(At(core, info), x)
        = IF hear THEN [At(next, info) EXCEPT !.infoString = Append(@, x)] ELSE At(next, info)
  BY <1>1, <1>2, Zenon DEF Turn
<1> QED
  BY <1>3, <1>4, Zenon

\* A key, one the parser does not know, and "files".
LEMMA DoesKey ==
  ASSUME NEW op, NEW flag, NEW cnt, NEW depth, NEW fs, NEW prev, NEW road, NEW file, NEW tf,
           NEW key, NEW num,
         Head(op) # "i", key \in Keys \ {"files"}
  PROVE  Does(Core(op, "NOTHING", cnt, depth, fs, prev, road, file, tf), Text(key, num),
              Core(op, key, cnt, depth, fs, prev, road, file, tf))
<1> SUFFICES ASSUME NEW info \in Seq(Tokens)
             PROVE  OnToken(State(op, "NOTHING", cnt, depth, fs, prev, road, file, tf, info),
                      Text(key, num))
                      = State(op, key, cnt, depth, fs, prev, road, file, tf, info)
  BY AtIs DEF Does
<1>1. OnToken(State(op, "NOTHING", cnt, depth, fs, prev, road, file, tf, info), Text(key, num))
        = OnKey(State(op, "NOTHING", cnt, depth, fs, prev, road, file, tf, info), key)
  <2>1. State(op, "NOTHING", cnt, depth, fs, prev, road, file, tf, info).op = op /\
          State(op, "NOTHING", cnt, depth, fs, prev, road, file, tf, info).flag = "NOTHING"
    BY DEF State
  <2> QED
    BY <2>1, TextDoes
<1> QED
  BY <1>1, KeyDoes

LEMMA DoesUnknown ==
  ASSUME NEW op, NEW flag, NEW cnt, NEW depth, NEW fs, NEW prev, NEW road, NEW file, NEW tf,
           NEW key, NEW num,
         Head(op) # "i", key \notin Keys
  PROVE  Does(Core(op, "NOTHING", cnt, depth, fs, prev, road, file, tf), Text(key, num),
              Core(op, "OTHER", cnt, depth, fs, key, road, file, tf))
<1> SUFFICES ASSUME NEW info \in Seq(Tokens)
             PROVE  OnToken(State(op, "NOTHING", cnt, depth, fs, prev, road, file, tf, info),
                      Text(key, num))
                      = State(op, "OTHER", cnt, depth, fs, key, road, file, tf, info)
  BY AtIs DEF Does
<1>1. OnToken(State(op, "NOTHING", cnt, depth, fs, prev, road, file, tf, info), Text(key, num))
        = OnKey(State(op, "NOTHING", cnt, depth, fs, prev, road, file, tf, info), key)
  <2>1. State(op, "NOTHING", cnt, depth, fs, prev, road, file, tf, info).op = op /\
          State(op, "NOTHING", cnt, depth, fs, prev, road, file, tf, info).flag = "NOTHING"
    BY DEF State
  <2> QED
    BY <2>1, TextDoes
<1> QED
  BY <1>1, KeyDoes

LEMMA DoesFiles ==
  ASSUME NEW op, NEW flag, NEW cnt, NEW depth, NEW fs, NEW prev, NEW road, NEW file, NEW tf,
           NEW num,
         Head(op) # "i"
  PROVE  Does(Core(op, "NOTHING", cnt, depth, fs, prev, road, file, tf), Text("files", num),
              Core(op, "NOTHING", cnt, depth, 1, prev, road, file, tf))
<1> SUFFICES ASSUME NEW info \in Seq(Tokens)
             PROVE  OnToken(State(op, "NOTHING", cnt, depth, fs, prev, road, file, tf, info),
                      Text("files", num))
                      = State(op, "NOTHING", cnt, depth, 1, prev, road, file, tf, info)
  BY AtIs DEF Does
<1>1. OnToken(State(op, "NOTHING", cnt, depth, fs, prev, road, file, tf, info),
        Text("files", num))
        = OnKey(State(op, "NOTHING", cnt, depth, fs, prev, road, file, tf, info), "files")
  <2>1. State(op, "NOTHING", cnt, depth, fs, prev, road, file, tf, info).op = op /\
          State(op, "NOTHING", cnt, depth, fs, prev, road, file, tf, info).flag = "NOTHING"
    BY DEF State
  <2> QED
    BY <2>1, TextDoes
<1>2. "files" \in Keys
  BY DEF Keys
<1> QED
  BY <1>1, <1>2, KeyDoes

\* The tokens that open an integer, a list and a dictionary.
LEMMA DoesInt ==
  ASSUME NEW op, NEW flag, NEW cnt, NEW depth, NEW fs, NEW prev, NEW road, NEW file, NEW tf
  PROVE  Does(Core(op, flag, cnt, depth, fs, prev, road, file, tf), Mark("i"),
              Core(<<"i">> \o op, flag, cnt + 1, Deeper(depth), fs, prev, road, file, tf))
<1> SUFFICES ASSUME NEW info \in Seq(Tokens)
             PROVE  OnToken(State(op, flag, cnt, depth, fs, prev, road, file, tf, info),
                      Mark("i"))
                      = State(<<"i">> \o op, flag, cnt + 1, Deeper(depth), fs, prev, road, file,
                        tf, info)
  BY AtIs DEF Does
<1> DEFINE v == <<"i">> \o op
           s == State(op, flag, cnt, depth, fs, prev, road, file, tf, info)
<1>1. OnToken(s, Mark("i")) = Nest(Push(s, "i"))
  BY MarkDoes, Zenon
<1>2. Push(s, "i") = State(v, flag, cnt, depth, fs, prev, road, file, tf, info)
  BY PushDoes
<1> HIDE DEF s, v
<1>3. Nest(State(v, flag, cnt, depth, fs, prev, road, file, tf, info))
        = State(v, flag, cnt + 1, Deeper(depth), fs, prev, road, file, tf, info)
  BY NestDoes
<1> QED
  BY <1>1, <1>2, <1>3, Zenon DEF v, s

LEMMA DoesList ==
  ASSUME NEW op, NEW flag, NEW cnt, NEW depth, NEW fs, NEW prev, NEW road, NEW file, NEW tf,
         flag # "NOTHING" \/ fs = 1
  PROVE  Does(Core(op, flag, cnt, depth, fs, prev, road, file, tf), Mark("l"),
              Core(<<"l">> \o op, flag, cnt + 1, Deeper(depth), fs, prev, road, file, tf))
<1> SUFFICES ASSUME NEW info \in Seq(Tokens)
             PROVE  OnToken(State(op, flag, cnt, depth, fs, prev, road, file, tf, info),
                      Mark("l"))
                      = State(<<"l">> \o op, flag, cnt + 1, Deeper(depth), fs, prev, road, file,
                        tf, info)
  BY AtIs DEF Does
<1> DEFINE v == <<"l">> \o op
           s == State(op, flag, cnt, depth, fs, prev, road, file, tf, info)
<1>1. OnToken(s, Mark("l")) = NestIfValue(Push(s, "l"))
  BY MarkDoes, Zenon
<1>2. Push(s, "l") = State(v, flag, cnt, depth, fs, prev, road, file, tf, info)
  BY PushDoes
<1> HIDE DEF s, v
<1>3. NestIfValue(State(v, flag, cnt, depth, fs, prev, road, file, tf, info))
        = State(v, flag, cnt + 1, Deeper(depth), fs, prev, road, file, tf, info)
  BY NestsIf
<1> QED
  BY <1>1, <1>2, <1>3, Zenon DEF v, s

LEMMA DoesDict ==
  ASSUME NEW op, NEW flag, NEW cnt, NEW depth, NEW fs, NEW prev, NEW road, NEW file, NEW tf,
         flag # "info"
  PROVE  Does(Core(op, flag, cnt, depth, fs, prev, road, file, tf), Mark("d"),
              Core(<<"d">> \o op, flag, (IF flag # "NOTHING" \/ fs = 1 THEN cnt + 1 ELSE cnt),
                (IF flag # "NOTHING" \/ fs = 1 THEN Deeper(depth) ELSE depth), fs, prev, road,
                file, tf))
<1> SUFFICES ASSUME NEW info \in Seq(Tokens)
             PROVE  OnToken(State(op, flag, cnt, depth, fs, prev, road, file, tf, info),
                      Mark("d"))
                      = State(<<"d">> \o op, flag,
                        (IF flag # "NOTHING" \/ fs = 1 THEN cnt + 1 ELSE cnt),
                        (IF flag # "NOTHING" \/ fs = 1 THEN Deeper(depth) ELSE depth), fs, prev,
                        road, file, tf, info)
  BY AtIs DEF Does
<1> DEFINE v == <<"d">> \o op
           s == State(op, flag, cnt, depth, fs, prev, road, file, tf, info)
           c == IF flag # "NOTHING" \/ fs = 1 THEN cnt + 1 ELSE cnt
           e == IF flag # "NOTHING" \/ fs = 1 THEN Deeper(depth) ELSE depth
<1>1. OnToken(s, Mark("d")) = OnDict(Push(s, "d"))
  BY MarkDoes, Zenon
<1>2. Push(s, "d") = State(v, flag, cnt, depth, fs, prev, road, file, tf, info)
  BY PushDoes
<1> HIDE DEF s, v
<1>3. OnDict(State(v, flag, cnt, depth, fs, prev, road, file, tf, info))
        = NestIfValue(State(v, flag, cnt, depth, fs, prev, road, file, tf, info))
  BY DictDoes
<1>4. NestIfValue(State(v, flag, cnt, depth, fs, prev, road, file, tf, info))
        = State(v, flag, c, e, fs, prev, road, file, tf, info)
  BY NestsIf
<1> QED
  BY <1>1, <1>2, <1>3, <1>4, Zenon DEF v, s

LEMMA DoesInfo ==
  ASSUME NEW op, NEW flag, NEW cnt, NEW depth, NEW fs, NEW prev, NEW road, NEW file, NEW tf
  PROVE  Does(Core(op, "info", cnt, depth, fs, prev, road, file, tf), Mark("d"),
              Core(<<"d">> \o op, "NOTHING", cnt, depth + 1, fs, prev, road, file, tf))
<1> SUFFICES ASSUME NEW info \in Seq(Tokens)
             PROVE  OnToken(State(op, "info", cnt, depth, fs, prev, road, file, tf, info),
                      Mark("d"))
                      = State(<<"d">> \o op, "NOTHING", cnt, depth + 1, fs, prev, road, file,
                        tf, info)
  BY AtIs DEF Does
<1> DEFINE v == <<"d">> \o op
           s == State(op, "info", cnt, depth, fs, prev, road, file, tf, info)
<1>1. OnToken(s, Mark("d")) = OnDict(Push(s, "d"))
  BY MarkDoes, Zenon
<1>2. Push(s, "d") = State(v, "info", cnt, depth, fs, prev, road, file, tf, info)
  BY PushDoes
<1> HIDE DEF s, v
<1>3. OnDict(State(v, "info", cnt, depth, fs, prev, road, file, tf, info))
        = State(v, "NOTHING", cnt, depth + 1, fs, prev, road, file, tf, info)
  BY InfoDoes
<1> QED
  BY <1>1, <1>2, <1>3, Zenon DEF v, s

\* What a number, a string or an end sets, wherever it stands.
NumberSets(flag, fs, file, tf, num, file2, tf2) ==
  \A op, cnt, depth, prev, road, info :
    OnNumber(State(op, flag, cnt, depth, fs, prev, road, file, tf, info), num)
      = State(op, "NOTHING", cnt, depth, fs, prev, road, file2, tf2, info)
ValueSets(flag, fs, prev, road, file, tf, str, len, flag2, prev2, road2, file2, tf2) ==
  \A op, cnt, depth, info :
    OnValue(State(op, flag, cnt, depth, fs, prev, road, file, tf, info), str, len)
      = State(op, flag2, cnt, depth, fs, prev2, road2, file2, tf2, info)
Finishes(flag, road, file, tf, flag2, road2, file2, tf2) ==
  \A op, cnt, depth, fs, prev, info :
    FinishFile(State(op, flag, cnt, depth, fs, prev, road, file, tf, info))
      = State(op, flag2, cnt, depth, fs, prev, road2, file2, tf2, info)

\* Digits that are a value, and an "e" inside and at the end of a nesting.
LEMMA DoesNumber ==
  ASSUME NEW op, NEW flag, NEW cnt, NEW depth, NEW fs, NEW prev, NEW road, NEW file, NEW tf,
           NEW file2, NEW tf2, NEW str, NEW num,
         Head(op) = "i", NumberSets(flag, fs, file, tf, num, file2, tf2)
  PROVE  Does(Core(op, flag, cnt, depth, fs, prev, road, file, tf), Text(str, num),
              Core(op, "NOTHING", cnt, depth, fs, prev, road, file2, tf2))
<1> SUFFICES ASSUME NEW info \in Seq(Tokens)
             PROVE  OnToken(State(op, flag, cnt, depth, fs, prev, road, file, tf, info),
                      Text(str, num))
                      = State(op, "NOTHING", cnt, depth, fs, prev, road, file2, tf2, info)
  BY AtIs DEF Does
<1> DEFINE s == State(op, flag, cnt, depth, fs, prev, road, file, tf, info)
<1>1. s.op = op
  BY DEF State
<1>2. OnToken(s, Text(str, num)) = OnNumber(s, num)
  BY <1>1, TextDoes
<1> QED
  BY <1>2 DEF NumberSets

LEMMA DoesValue ==
  ASSUME NEW op, NEW flag, NEW cnt, NEW depth, NEW fs, NEW prev, NEW road, NEW file, NEW tf,
           NEW flag2, NEW prev2, NEW road2, NEW file2, NEW tf2, NEW str, NEW num,
         Head(op) # "i", flag # "NOTHING",
         ValueSets(flag, fs, prev, road, file, tf, str, num, flag2, prev2, road2, file2, tf2)
  PROVE  Does(Core(op, flag, cnt, depth, fs, prev, road, file, tf), Text(str, num),
              Core(op, flag2, cnt, depth, fs, prev2, road2, file2, tf2))
<1> SUFFICES ASSUME NEW info \in Seq(Tokens)
             PROVE  OnToken(State(op, flag, cnt, depth, fs, prev, road, file, tf, info),
                      Text(str, num))
                      = State(op, flag2, cnt, depth, fs, prev2, road2, file2, tf2, info)
  BY AtIs DEF Does
<1> DEFINE s == State(op, flag, cnt, depth, fs, prev, road, file, tf, info)
<1>1. s.op = op /\ s.flag = flag
  BY DEF State
<1>2. OnToken(s, Text(str, num)) = OnValue(s, str, num)
  BY <1>1, TextDoes
<1> QED
  BY <1>2 DEF ValueSets

Left(fs) == IF fs = 1 THEN -1 ELSE fs

LEMMA DoesEndInner ==
  ASSUME NEW op, NEW flag, NEW cnt, NEW depth, NEW fs, NEW prev, NEW road, NEW file, NEW tf,
           NEW flag2, NEW road2, NEW file2, NEW tf2,
         Shallower(cnt) > 0,
         Finishes(flag, road, file, tf, flag2, road2, file2, tf2)
  PROVE  Does(Core(op, flag, cnt, depth, fs, prev, road, file, tf), Mark("e"),
              Core(Tail(op), flag2, Shallower(cnt), Shallower(depth), fs, prev, road2, file2,
                tf2))
<1> SUFFICES ASSUME NEW info \in Seq(Tokens)
             PROVE  OnToken(State(op, flag, cnt, depth, fs, prev, road, file, tf, info),
                      Mark("e"))
                      = State(Tail(op), flag2, Shallower(cnt), Shallower(depth), fs, prev,
                        road2, file2, tf2, info)
  BY AtIs DEF Does
<1> DEFINE s == State(op, flag, cnt, depth, fs, prev, road, file, tf, info)
<1>1. OnToken(s, Mark("e")) = OnEnd(s)
  BY MarkDoes, Zenon
<1>2. FinishFile(s) = State(op, flag2, cnt, depth, fs, prev, road2, file2, tf2, info)
  BY DEF Finishes
<1> HIDE DEF s
<1>3. OnEnd(s) = State(Tail(op), flag2, Shallower(cnt), Shallower(depth), fs, prev, road2,
        file2, tf2, info)
  BY <1>2, EndDoes DEF Left
<1> QED
  BY <1>1, <1>3 DEF s

LEMMA DoesEndOuter ==
  ASSUME NEW op, NEW flag, NEW cnt, NEW depth, NEW fs, NEW prev, NEW road, NEW file, NEW tf,
           NEW flag2, NEW road2, NEW file2, NEW tf2,
         ~(Shallower(cnt) > 0),
         Finishes(flag, road, file, tf, flag2, road2, file2, tf2)
  PROVE  Does(Core(op, flag, cnt, depth, fs, prev, road, file, tf), Mark("e"),
              Core(Tail(op), "NOTHING", Shallower(cnt), Shallower(depth), Left(fs), prev, road2,
                file2, tf2))
<1> SUFFICES ASSUME NEW info \in Seq(Tokens)
             PROVE  OnToken(State(op, flag, cnt, depth, fs, prev, road, file, tf, info),
                      Mark("e"))
                      = State(Tail(op), "NOTHING", Shallower(cnt), Shallower(depth), Left(fs),
                        prev, road2, file2, tf2, info)
  BY AtIs DEF Does
<1> DEFINE s == State(op, flag, cnt, depth, fs, prev, road, file, tf, info)
<1>1. OnToken(s, Mark("e")) = OnEnd(s)
  BY MarkDoes, Zenon
<1>2. FinishFile(s) = State(op, flag2, cnt, depth, fs, prev, road2, file2, tf2, info)
  BY DEF Finishes
<1> HIDE DEF s
<1>3. OnEnd(s) = State(Tail(op), "NOTHING", Shallower(cnt), Shallower(depth), Left(fs), prev,
        road2, file2, tf2, info)
  BY <1>2, EndDoes DEF Left
<1> QED
  BY <1>1, <1>3 DEF s

\* The same for a sequence of one token.
LEMMA ReadsWhatItDoes ==
  ASSUME NEW hear \in BOOLEAN, NEW core, NEW next, NEW x \in Tokens, Does(core, x, next),
         hear <=> (core.infoCounter > 0 \/ next.infoCounter > 0)
  PROVE  Reads(hear, core, <<x>>, next)
BY SeesWhatItDoes, ReadsOne

LEMMA CoreDepth ==
  ASSUME NEW op, NEW flag, NEW cnt, NEW depth, NEW fs, NEW prev, NEW road, NEW file, NEW tf
  PROVE  Core(op, flag, cnt, depth, fs, prev, road, file, tf).infoCounter = depth
BY DEF Core

LEMMA TokenTypes ==
  /\ \A c \in Marks : Mark(c) \in Tokens /\ Token(c) = <<Mark(c)>>
  /\ \A str \in Words, num \in Nat : Text(str, num) \in Tokens
  /\ \A str \in Words : Str(str) = <<Text(str, 0)>>
  /\ \A str \in Words, num \in Nat : Bytes(str, num) = <<Text(str, num)>>
  /\ \A num \in Nat : Number(num) = (<<Mark("i")>> \o <<Text("", num)>>) \o <<Mark("e")>>
<1>1. \A c \in Marks : Mark(c) \in Tokens /\ Token(c) = <<Mark(c)>>
  <2>1. \A c \in Marks : Mark(c) \in Tokens
    <3>1. "" \in Words /\ 0 \in Nat
      BY DEF Words
    <3> SUFFICES ASSUME NEW c \in Marks PROVE Mark(c) \in Tokens
      OBVIOUS
    <3> QED
      BY <3>1 DEF Mark, Marks, Tokens
  <2>2. \A c \in Marks : Token(c) = <<Mark(c)>>
    BY Zenon DEF Mark, Token
  <2> QED
    BY <2>1, <2>2
<1>2. \A str \in Words, num \in Nat : Text(str, num) \in Tokens
  BY DEF Text, Tokens
<1>3. \A str \in Words : Str(str) = <<Text(str, 0)>>
  BY Zenon DEF Text, Str
<1>4. \A str \in Words, num \in Nat : Bytes(str, num) = <<Text(str, num)>>
  BY Zenon DEF Text, Bytes
<1>5. \A num \in Nat : Number(num) = (<<Mark("i")>> \o <<Text("", num)>>) \o <<Mark("e")>>
  BY Zenon DEF Text, Mark, Number, Token
<1> QED
  BY <1>1, <1>2, <1>3, <1>4, <1>5, Zenon

----------------------------------------------------------------------------
(* Entries.                                                                 *)

\* Between two entries: nothing is half read.
Stack == {op \in Seq(Marks) : op # <<>> /\ Head(op) # "i"}

LEMMA Stacks ==
  ASSUME NEW op \in Stack, NEW c \in Marks
  PROVE  /\ op \in Seq(Marks) /\ Head(op) # "i"
         /\ Head(<<c>> \o op) = c /\ Tail(<<c>> \o op) = op
         /\ c # "i" => <<c>> \o op \in Stack
<1>1. op \in Seq(Marks) /\ Head(op) # "i"
  BY DEF Stack
<1>2. <<c>> \o op \in Seq(Marks) /\ <<c>> \o op # <<>> /\ Head(<<c>> \o op) = c
  BY <1>1
<1>3. Tail(<<c>> \o op) = op
  BY <1>1
<1> QED
  BY <1>1, <1>2, <1>3 DEF Stack

\* A key waits for its value.
LEMMA KeyReads ==
  ASSUME NEW hear \in BOOLEAN, NEW op \in Stack, NEW cnt, NEW depth \in Nat, hear <=> depth > 0,
         NEW fs, NEW prev, NEW road, NEW file, NEW tf, NEW key \in Keys \ {"files"}
  PROVE  Reads(hear, Core(op, "NOTHING", cnt, depth, fs, prev, road, file, tf), Str(key),
               Core(op, key, cnt, depth, fs, prev, road, file, tf))
<1>1. key \in Words
  BY DEF Words
<1>2. Head(op) # "i"
  BY DEF Stack
<1>3. Text(key, 0) \in Tokens /\ Str(key) = <<Text(key, 0)>>
  BY <1>1, TokenTypes
<1> DEFINE c == Core(op, "NOTHING", cnt, depth, fs, prev, road, file, tf)
           d == Core(op, key, cnt, depth, fs, prev, road, file, tf)
<1>4. c.infoCounter = depth /\ d.infoCounter = depth
  BY CoreDepth
<1>5. Does(c, Text(key, 0), d)
  BY <1>2, DoesKey
<1> HIDE DEF c, d
<1>6. Reads(hear, c, <<Text(key, 0)>>, d)
  BY <1>3, <1>4, <1>5, ReadsWhatItDoes
<1> QED
  BY <1>3, <1>6 DEF c, d

LEMMA UnknownReads ==
  ASSUME NEW hear \in BOOLEAN, NEW op \in Stack, NEW cnt, NEW depth \in Nat, hear <=> depth > 0,
         NEW fs, NEW prev, NEW road, NEW file, NEW tf, NEW key \in Words \ Keys
  PROVE  Reads(hear, Core(op, "NOTHING", cnt, depth, fs, prev, road, file, tf), Str(key),
               Core(op, "OTHER", cnt, depth, fs, key, road, file, tf))
<1>2. Head(op) # "i"
  BY DEF Stack
<1>3. Text(key, 0) \in Tokens /\ Str(key) = <<Text(key, 0)>>
  BY TokenTypes
<1> DEFINE c == Core(op, "NOTHING", cnt, depth, fs, prev, road, file, tf)
           d == Core(op, "OTHER", cnt, depth, fs, key, road, file, tf)
<1>4. c.infoCounter = depth /\ d.infoCounter = depth
  BY CoreDepth
<1>5. Does(c, Text(key, 0), d)
  BY <1>2, DoesUnknown
<1> HIDE DEF c, d
<1>6. Reads(hear, c, <<Text(key, 0)>>, d)
  BY <1>3, <1>4, <1>5, ReadsWhatItDoes
<1> QED
  BY <1>3, <1>6 DEF c, d

LEMMA FilesReads ==
  ASSUME NEW hear \in BOOLEAN, NEW op \in Stack, NEW cnt, NEW depth \in Nat, hear <=> depth > 0,
         NEW fs, NEW prev, NEW road, NEW file, NEW tf
  PROVE  Reads(hear, Core(op, "NOTHING", cnt, depth, fs, prev, road, file, tf), Str("files"),
               Core(op, "NOTHING", cnt, depth, 1, prev, road, file, tf))
<1>2. Head(op) # "i"
  BY DEF Stack
<1>1. "files" \in Words
  BY DEF Words, Keys
<1>3. Text("files", 0) \in Tokens /\ Str("files") = <<Text("files", 0)>>
  BY <1>1, TokenTypes
<1> DEFINE c == Core(op, "NOTHING", cnt, depth, fs, prev, road, file, tf)
           d == Core(op, "NOTHING", cnt, depth, 1, prev, road, file, tf)
<1>4. c.infoCounter = depth /\ d.infoCounter = depth
  BY CoreDepth
<1>5. Does(c, Text("files", 0), d)
  BY <1>2, DoesFiles
<1> HIDE DEF c, d
<1>6. Reads(hear, c, <<Text("files", 0)>>, d)
  BY <1>3, <1>4, <1>5, ReadsWhatItDoes
<1> QED
  BY <1>3, <1>6 DEF c, d

\* A string is the value of the key before it.
LEMMA ValueReads ==
  ASSUME NEW hear \in BOOLEAN, NEW op \in Stack, NEW cnt, NEW depth \in Nat, hear <=> depth > 0,
         NEW flag, flag # "NOTHING", NEW fs, NEW prev, NEW road, NEW file, NEW tf,
         NEW str \in Words, NEW num \in Nat, NEW flag2, NEW prev2, NEW road2, NEW file2,
           NEW tf2,
         ValueSets(flag, fs, prev, road, file, tf, str, num, flag2, prev2, road2, file2, tf2)
  PROVE  Reads(hear, Core(op, flag, cnt, depth, fs, prev, road, file, tf), Bytes(str, num),
               Core(op, flag2, cnt, depth, fs, prev2, road2, file2, tf2))
<1>2. Head(op) # "i"
  BY DEF Stack
<1>3. Text(str, num) \in Tokens /\ Bytes(str, num) = <<Text(str, num)>>
  BY TokenTypes
<1> DEFINE c == Core(op, flag, cnt, depth, fs, prev, road, file, tf)
           d == Core(op, flag2, cnt, depth, fs, prev2, road2, file2, tf2)
<1>4. c.infoCounter = depth /\ d.infoCounter = depth
  BY CoreDepth
<1>5. Does(c, Text(str, num), d)
  BY <1>2, DoesValue
<1> HIDE DEF c, d
<1>6. Reads(hear, c, <<Text(str, num)>>, d)
  BY <1>3, <1>4, <1>5, ReadsWhatItDoes
<1> QED
  BY <1>3, <1>6 DEF c, d

\* After the "e" of a value.
Closed(op, flag, cnt, depth, fs, prev, road, file, tf) ==
  IF cnt > 0 THEN Core(op, flag, cnt, depth, fs, prev, road, file, tf)
             ELSE Core(op, "NOTHING", cnt, depth, Left(fs), prev, road, file, tf)

LEMMA ClosingReads ==
  ASSUME NEW hear \in BOOLEAN, NEW op \in Stack, NEW cnt \in Nat, NEW depth \in Nat,
           hear <=> depth > 0,
         NEW flag, NEW fs, NEW prev, NEW road, NEW file, NEW tf, NEW c \in Marks,
         NEW flag2, NEW road2, NEW file2, NEW tf2,
         Finishes(flag, road, file, tf, flag2, road2, file2, tf2)
  PROVE  Reads(hear, Core(<<c>> \o op, flag, cnt + 1, Deeper(depth), fs, prev, road, file, tf),
           <<Mark("e")>>,
               Closed(op, flag2, cnt, depth, fs, prev, road2, file2, tf2))
<1>1. Tail(<<c>> \o op) = op
  BY Stacks
<1>2. Shallower(cnt + 1) = cnt /\ Shallower(Deeper(depth)) = depth /\
        (Deeper(depth) > 0 <=> depth > 0)
  BY DEF Shallower, Deeper
<1>3. Mark("e") \in Tokens
  BY TokenTypes DEF Marks
<1> DEFINE a == Core(<<c>> \o op, flag, cnt + 1, Deeper(depth), fs, prev, road, file, tf)
           b == Core(op, flag2, cnt, depth, fs, prev, road2, file2, tf2)
           d == Core(op, "NOTHING", cnt, depth, Left(fs), prev, road2, file2, tf2)
<1>4. a.infoCounter = Deeper(depth) /\ b.infoCounter = depth /\ d.infoCounter = depth
  BY CoreDepth
<1> DEFINE cop == <<c>> \o op
           more == cnt + 1
           deep == Deeper(depth)
<1>5. cnt > 0 => Does(a, Mark("e"), b)
  <2> SUFFICES ASSUME cnt > 0 PROVE Does(Core(cop, flag, more, deep, fs, prev, road, file, tf),
                        Mark("e"), b)
    OBVIOUS
  <2>1. Tail(cop) = op /\ Shallower(more) = cnt /\ Shallower(deep) = depth /\
          Shallower(more) > 0
    BY <1>1, <1>2
  <2> HIDE DEF cop, more, deep
  <2>2. Does(Core(cop, flag, more, deep, fs, prev, road, file, tf), Mark("e"),
             Core(Tail(cop), flag2, Shallower(more), Shallower(deep), fs, prev, road2, file2,
               tf2))
    BY <2>1, DoesEndInner
  <2> QED
    BY <2>1, <2>2, Zenon
<1>6. ~(cnt > 0) => Does(a, Mark("e"), d)
  <2> SUFFICES ASSUME ~(cnt > 0) PROVE Does(Core(cop, flag, more, deep, fs, prev, road, file,
                        tf), Mark("e"), d)
    OBVIOUS
  <2>1. Tail(cop) = op /\ Shallower(more) = cnt /\ Shallower(deep) = depth /\
          ~(Shallower(more) > 0)
    BY <1>1, <1>2
  <2> HIDE DEF cop, more, deep
  <2>2. Does(Core(cop, flag, more, deep, fs, prev, road, file, tf), Mark("e"),
             Core(Tail(cop), "NOTHING", Shallower(more), Shallower(deep), Left(fs), prev, road2,
               file2, tf2))
    BY <2>1, DoesEndOuter
  <2> QED
    BY <2>1, <2>2, Zenon
<1> HIDE DEF a, b, d, cop, more, deep
<1>7. cnt > 0 => Reads(hear, a, <<Mark("e")>>, b)
  BY <1>2, <1>3, <1>4, <1>5, ReadsWhatItDoes
<1>8. ~(cnt > 0) => Reads(hear, a, <<Mark("e")>>, d)
  BY <1>2, <1>3, <1>4, <1>6, ReadsWhatItDoes
<1> QED
  BY <1>7, <1>8, Zenon DEF a, b, d, Closed

LEMMA OpeningReads ==
  ASSUME NEW hear \in BOOLEAN, NEW op \in Stack, NEW cnt, NEW depth \in Nat, hear <=> depth > 0,
         NEW flag, NEW fs, NEW prev, NEW road, NEW file, NEW tf,
         NEW c \in {"i", "l"}, c = "i" \/ flag # "NOTHING" \/ fs = 1
  PROVE  Reads(hear, Core(op, flag, cnt, depth, fs, prev, road, file, tf), <<Mark(c)>>,
               Core(<<c>> \o op, flag, cnt + 1, Deeper(depth), fs, prev, road, file, tf))
<1>1. Mark(c) \in Tokens
  BY TokenTypes DEF Marks
<1>2. Deeper(depth) > 0 <=> depth > 0
  BY DEF Deeper
<1> DEFINE a == Core(op, flag, cnt, depth, fs, prev, road, file, tf)
           b == Core(<<c>> \o op, flag, cnt + 1, Deeper(depth), fs, prev, road, file, tf)
<1>3. a.infoCounter = depth /\ b.infoCounter = Deeper(depth)
  BY CoreDepth
<1>4. CASE c = "i"
  <2>1. Does(a, Mark("i"),
          Core(<<"i">> \o op, flag, cnt + 1, Deeper(depth), fs, prev, road, file, tf))
    BY DoesInt
  <2>2. Does(a, Mark(c), b)
    BY <1>4, <2>1
  <2> HIDE DEF a, b
  <2> QED
    BY <1>1, <1>2, <1>3, <2>2, ReadsWhatItDoes DEF a, b
<1>5. CASE c = "l" /\ (flag # "NOTHING" \/ fs = 1)
  <2>1. Does(a, Mark("l"),
          Core(<<"l">> \o op, flag, cnt + 1, Deeper(depth), fs, prev, road, file, tf))
    BY <1>5, DoesList
  <2>2. Does(a, Mark(c), b)
    BY <1>5, <2>1
  <2> HIDE DEF a, b
  <2> QED
    BY <1>1, <1>2, <1>3, <2>2, ReadsWhatItDoes DEF a, b
<1> QED
  BY <1>4, <1>5

\* An integer: the number between "i" and "e".
LEMMA NumberReads ==
  ASSUME NEW hear \in BOOLEAN, NEW op \in Stack, NEW cnt \in Nat, NEW depth \in Nat,
           hear <=> depth > 0,
         NEW flag, NEW fs, cnt > 0 \/ fs # 1, NEW prev, NEW road, NEW file, NEW tf,
           NEW num \in Nat,
         NEW file2, NEW tf2, NumberSets(flag, fs, file, tf, num, file2, tf2),
         NEW road3, NEW file3, NEW tf3,
         Finishes("NOTHING", road, file2, tf2, "NOTHING", road3, file3, tf3)
  PROVE  Reads(hear, Core(op, flag, cnt, depth, fs, prev, road, file, tf), Number(num),
               Core(op, "NOTHING", cnt, depth, fs, prev, road3, file3, tf3))
<1> DEFINE iop  == <<"i">> \o op
           more == cnt + 1
           deep == Deeper(depth)
           a == Core(op, flag, cnt, depth, fs, prev, road, file, tf)
           b == Core(iop, flag, more, deep, fs, prev, road, file, tf)
           c == Core(iop, "NOTHING", more, deep, fs, prev, road, file2, tf2)
           d == Closed(op, "NOTHING", cnt, depth, fs, prev, road3, file3, tf3)
           x == Text("", num)
<1>1. Head(iop) = "i"
  BY Stacks DEF Marks
<1>2. deep \in Nat /\ (hear <=> deep > 0)
  BY DEF Deeper
<1>3. x \in Tokens /\ Mark("i") \in Tokens /\ Mark("e") \in Tokens
  <2>1. "" \in Words
    BY DEF Words
  <2> QED
    BY <2>1, TokenTypes DEF Marks
<1>4. Reads(hear, a, <<Mark("i")>>, b)
  BY OpeningReads
<1>5. Reads(hear, c, <<Mark("e")>>, d)
  BY ClosingReads DEF Marks
<1>6. d = Core(op, "NOTHING", cnt, depth, fs, prev, road3, file3, tf3)
  <2>1. fs # 1 => Left(fs) = fs
    BY Zenon DEF Left
  <2> QED
    BY <2>1 DEF Closed
<1> HIDE DEF iop, more, deep, x
<1>7. Reads(hear, b, <<x>>, c)
  <2>1. b.infoCounter = deep /\ c.infoCounter = deep
    BY CoreDepth
  <2>2. Does(b, x, c)
    BY <1>1, DoesNumber DEF x
  <2> HIDE DEF b, c
  <2> QED
    BY <1>2, <1>3, <2>1, <2>2, ReadsWhatItDoes
<1> HIDE DEF a, b, c, d
<1>8. /\ <<Mark("i")>> \in Seq(Tokens) /\ <<x>> \in Seq(Tokens) /\ <<Mark("e")>> \in Seq(Tokens)
      /\ <<Mark("i")>> \o <<x>> \in Seq(Tokens)
  BY <1>3
<1>9. Reads(hear, a, <<Mark("i")>> \o <<x>>, c)
  BY <1>4, <1>7, <1>8, ReadsMore, Zenon
<1>10. Reads(hear, a, (<<Mark("i")>> \o <<x>>) \o <<Mark("e")>>, d)
  BY <1>5, <1>8, <1>9, ReadsMore, Zenon
<1>11. Number(num) = (<<Mark("i")>> \o <<x>>) \o <<Mark("e")>>
  BY TokenTypes DEF x
<1> QED
  BY <1>6, <1>10, <1>11, Zenon DEF a

\* A list: what stands between "l" and "e".
LEMMA ListReads ==
  ASSUME NEW hear \in BOOLEAN, NEW op \in Stack, NEW cnt \in Nat, NEW depth \in Nat,
           hear <=> depth > 0,
         NEW flag, NEW fs, flag # "NOTHING" \/ fs = 1, NEW prev, NEW road, NEW file, NEW tf,
         NEW items \in Seq(Seq(Tokens)),
         NEW flag2, NEW fs2, NEW prev2, NEW road2, NEW file2, NEW tf2,
         Reads(hear, Core(<<"l">> \o op, flag, cnt + 1, Deeper(depth), fs, prev, road, file,
           tf),
               FlattenSeq(items),
               Core(<<"l">> \o op, flag2, cnt + 1, Deeper(depth), fs2, prev2, road2, file2,
                 tf2)),
         NEW flag3, NEW road3, NEW file3, NEW tf3,
         Finishes(flag2, road2, file2, tf2, flag3, road3, file3, tf3)
  PROVE  Reads(hear, Core(op, flag, cnt, depth, fs, prev, road, file, tf), List(items),
               Closed(op, flag3, cnt, depth, fs2, prev2, road3, file3, tf3))
<1> DEFINE a == Core(op, flag, cnt, depth, fs, prev, road, file, tf)
           b == Core(<<"l">> \o op, flag, cnt + 1, Deeper(depth), fs, prev, road, file, tf)
           c == Core(<<"l">> \o op, flag2, cnt + 1, Deeper(depth), fs2, prev2, road2, file2,
             tf2)
           d == Closed(op, flag3, cnt, depth, fs2, prev2, road3, file3, tf3)
           inner == FlattenSeq(items)
<1>1. Mark("l") \in Tokens /\ Mark("e") \in Tokens
  BY TokenTypes DEF Marks
<1>2. Reads(hear, a, <<Mark("l")>>, b)
  BY OpeningReads
<1>3. Reads(hear, c, <<Mark("e")>>, d)
  BY ClosingReads DEF Marks
<1>4. Reads(hear, b, inner, c) /\ inner \in Seq(Tokens)
  BY FlattenType
<1> HIDE DEF a, b, c, d
<1>5. List(items) = (<<Mark("l")>> \o inner) \o <<Mark("e")>>
  <2>1. Token("l") = <<Mark("l")>> /\ Token("e") = <<Mark("e")>>
    BY TokenTypes DEF Marks
  <2> QED
    BY <2>1, Zenon DEF List
<1> HIDE DEF inner
<1>6. <<Mark("l")>> \in Seq(Tokens) /\ <<Mark("e")>> \in Seq(Tokens) /\ <<Mark("l")>> \o
        inner \in Seq(Tokens)
  BY <1>1, <1>4
<1>7. Reads(hear, a, <<Mark("l")>> \o inner, c)
  BY <1>2, <1>4, <1>6, ReadsMore, Zenon
<1>8. Reads(hear, a, (<<Mark("l")>> \o inner) \o <<Mark("e")>>, d)
  BY <1>3, <1>6, <1>7, ReadsMore, Zenon
<1> QED
  BY <1>5, <1>8, Zenon DEF a, d

----------------------------------------------------------------------------
(* What the values set.                                                     *)

Files    == [length : Nat, path : Seq(Words), md5sum : Words]
Torrents == [announce_list : Seq(Words), text : [Texts -> Words], creation_date : Nat,
             pieceHashes : Nat, pieceLength : Nat, length : Nat, files : Seq(Files),
             otherInfo : Seq(Words \X Words), url_list : Seq(Words), infoHash : Seq(Tokens)]

LEMMA AnnounceTwice ==
  ASSUME NEW tf \in Torrents, NEW l, NEW a
  PROVE  [[tf EXCEPT !.announce_list = l] EXCEPT !.announce_list = Append(@, a)]
           = [tf EXCEPT !.announce_list = Append(l, a)]
<1> DEFINE more == Append(l, a)
           u == [tf EXCEPT !.announce_list = l]
<1>1. u.announce_list = l
  BY DEF Torrents
<1>2. [u EXCEPT !.announce_list = Append(@, a)] = [u EXCEPT !.announce_list = more]
  BY <1>1, Zenon
<1> HIDE DEF more
<1>3. [u EXCEPT !.announce_list = more] = [tf EXCEPT !.announce_list = more]
  BY DEF Torrents
<1> QED
  BY <1>2, <1>3, Zenon DEF more

LEMMA FinishesNothing ==
  ASSUME NEW flag, NEW file, NEW tf, file.path = <<>> \/ file.length = 0
  PROVE  Finishes(flag, <<>>, file, tf, flag, <<>>, file, tf)
BY FinishNothing DEF Finishes

LEMMA FinishesPath ==
  ASSUME NEW flag, NEW road, NEW file, NEW tf, file.path = <<>> \/ file.length = 0, road # <<>>
  PROVE  Finishes(flag, road, file, tf, "NOTHING", <<>>, [file EXCEPT !.path = road], tf)
BY FinishPath DEF Finishes

LEMMA FinishesFile ==
  ASSUME NEW flag, NEW road, NEW file, NEW tf, file.path # <<>>, file.length # 0
  PROVE  Finishes(flag, road, file, tf, flag, road, EmptyFile,
           [tf EXCEPT !.files = Append(@, file)])
BY FinishAppends DEF Finishes

LEMMA NumbersSet ==
  ASSUME NEW fs, NEW file, NEW tf, NEW num
  PROVE  /\ NumberSets("creation date", fs, file, tf, num, file,
              [tf EXCEPT !.creation_date = num])
         /\ NumberSets("piece length", fs, file, tf, num, file, [tf EXCEPT !.pieceLength = num])
         /\ NumberSets("OTHER", fs, file, tf, num, file, tf)
         /\ fs = 0 => NumberSets("length", fs, file, tf, num, file, [tf EXCEPT !.length = num])
         /\ fs # 0 => NumberSets("length", fs, file, tf, num, [file EXCEPT !.length = num], tf)
<1>1. NumberSets("creation date", fs, file, tf, num, file, [tf EXCEPT !.creation_date = num])
  <2> SUFFICES ASSUME NEW op, NEW cnt, NEW depth, NEW prev, NEW road, NEW info
               PROVE  OnNumber(State(op, "creation date", cnt, depth, fs, prev, road, file, tf,
                        info), num)
                        = State(op, "NOTHING", cnt, depth, fs, prev, road, file,
                          [tf EXCEPT !.creation_date = num], info)
    BY DEF NumberSets
  <2> QED
    BY DEF OnNumber, State
<1>2. NumberSets("piece length", fs, file, tf, num, file, [tf EXCEPT !.pieceLength = num])
  <2> SUFFICES ASSUME NEW op, NEW cnt, NEW depth, NEW prev, NEW road, NEW info
               PROVE  OnNumber(State(op, "piece length", cnt, depth, fs, prev, road, file, tf,
                        info), num)
                        = State(op, "NOTHING", cnt, depth, fs, prev, road, file,
                          [tf EXCEPT !.pieceLength = num], info)
    BY DEF NumberSets
  <2> QED
    BY DEF OnNumber, State
<1>3. NumberSets("OTHER", fs, file, tf, num, file, tf)
  <2> SUFFICES ASSUME NEW op, NEW cnt, NEW depth, NEW prev, NEW road, NEW info
               PROVE  OnNumber(State(op, "OTHER", cnt, depth, fs, prev, road, file, tf, info),
                        num)
                        = State(op, "NOTHING", cnt, depth, fs, prev, road, file, tf, info)
    BY DEF NumberSets
  <2> QED
    BY DEF OnNumber, State
<1>4. fs = 0 => NumberSets("length", fs, file, tf, num, file, [tf EXCEPT !.length = num])
  <2> SUFFICES ASSUME NEW op, NEW cnt, NEW depth, NEW prev, NEW road, NEW info, fs = 0
               PROVE  OnNumber(State(op, "length", cnt, depth, fs, prev, road, file, tf, info),
                        num)
                        = State(op, "NOTHING", cnt, depth, fs, prev, road, file,
                          [tf EXCEPT !.length = num], info)
    BY DEF NumberSets
  <2> QED
    BY DEF OnNumber, State
<1>5. fs # 0 => NumberSets("length", fs, file, tf, num, [file EXCEPT !.length = num], tf)
  <2> SUFFICES ASSUME NEW op, NEW cnt, NEW depth, NEW prev, NEW road, NEW info, fs # 0
               PROVE  OnNumber(State(op, "length", cnt, depth, fs, prev, road, file, tf, info),
                        num)
                        = State(op, "NOTHING", cnt, depth, fs, prev, road,
                          [file EXCEPT !.length = num], tf, info)
    BY DEF NumberSets
  <2> QED
    BY DEF OnNumber, State
<1> QED
  BY <1>1, <1>2, <1>3, <1>4, <1>5, Zenon

LEMMA ValuesSet ==
  ASSUME NEW fs, NEW prev, NEW road, NEW file, NEW tf, NEW str, NEW len
  PROVE  /\ ValueSets("announce", fs, prev, road, file, tf, str, len,
                      "NOTHING", prev, road, file, [tf EXCEPT !.announce_list = Append(@, str)])
         /\ ValueSets("announce-list", fs, prev, road, file, tf, str, len,
                      "announce-list", prev, road, file,
                        [tf EXCEPT !.announce_list = Append(@, str)])
         /\ ValueSets("url-list", fs, prev, road, file, tf, str, len,
                      "url-list", prev, road, file, [tf EXCEPT !.url_list = Append(@, str)])
         /\ ValueSets("comment", fs, prev, road, file, tf, str, len,
                      "NOTHING", prev, road, file,
                        [tf EXCEPT !.text = [@ EXCEPT !["comment"] = str]])
         /\ ValueSets("name", fs, prev, road, file, tf, str, len,
                      "NOTHING", prev, road, file,
                        [tf EXCEPT !.text = [@ EXCEPT !["name"] = str]])
         /\ ValueSets("OTHER", fs, prev, road, file, tf, str, len,
                      "NOTHING", "", road, file,
                        [tf EXCEPT !.otherInfo = Append(@, <<prev, str>>)])
         /\ ValueSets("pieces", fs, prev, road, file, tf, str, len, "NOTHING", prev, road, file,
                      [tf EXCEPT !.pieceHashes = @ + (len + HashSize - 1) \div HashSize])
         /\ ValueSets("path", fs, prev, road, file, tf, str, len, "path", prev,
              Append(road, str), file, tf)
         /\ fs # 0 => ValueSets("md5sum", fs, prev, road, file, tf, str, len,
                                "NOTHING", prev, road, [file EXCEPT !.md5sum = str], tf)
<1>1. ValueSets("announce", fs, prev, road, file, tf, str, len,
                "NOTHING", prev, road, file, [tf EXCEPT !.announce_list = Append(@, str)])
  <2> SUFFICES ASSUME NEW op, NEW cnt, NEW depth, NEW info
               PROVE  OnValue(State(op, "announce", cnt, depth, fs, prev, road, file, tf, info),
                        str, len)
                        = State(op, "NOTHING", cnt, depth, fs, prev, road, file,
                          [tf EXCEPT !.announce_list = Append(@, str)], info)
    BY DEF ValueSets
  <2> QED
    BY DEF OnValue, State, Texts
<1>2. ValueSets("announce-list", fs, prev, road, file, tf, str, len,
                "announce-list", prev, road, file, [tf EXCEPT !.announce_list = Append(@, str)])
  <2> SUFFICES ASSUME NEW op, NEW cnt, NEW depth, NEW info
               PROVE  OnValue(State(op, "announce-list", cnt, depth, fs, prev, road, file, tf,
                        info), str, len)
                        = State(op, "announce-list", cnt, depth, fs, prev, road, file,
                          [tf EXCEPT !.announce_list = Append(@, str)], info)
    BY DEF ValueSets
  <2> QED
    BY DEF OnValue, State, Texts
<1>3. ValueSets("url-list", fs, prev, road, file, tf, str, len,
                "url-list", prev, road, file, [tf EXCEPT !.url_list = Append(@, str)])
  <2> SUFFICES ASSUME NEW op, NEW cnt, NEW depth, NEW info
               PROVE  OnValue(State(op, "url-list", cnt, depth, fs, prev, road, file, tf, info),
                        str, len)
                        = State(op, "url-list", cnt, depth, fs, prev, road, file,
                          [tf EXCEPT !.url_list = Append(@, str)], info)
    BY DEF ValueSets
  <2> QED
    BY DEF OnValue, State, Texts
<1>4. ValueSets("comment", fs, prev, road, file, tf, str, len,
                "NOTHING", prev, road, file, [tf EXCEPT !.text = [@ EXCEPT !["comment"] = str]])
  <2> SUFFICES ASSUME NEW op, NEW cnt, NEW depth, NEW info
               PROVE  OnValue(State(op, "comment", cnt, depth, fs, prev, road, file, tf, info),
                        str, len)
                        = State(op, "NOTHING", cnt, depth, fs, prev, road, file,
                          [tf EXCEPT !.text = [@ EXCEPT !["comment"] = str]], info)
    BY DEF ValueSets
  <2> QED
    BY DEF OnValue, State, Texts
<1>5. ValueSets("name", fs, prev, road, file, tf, str, len,
                "NOTHING", prev, road, file, [tf EXCEPT !.text = [@ EXCEPT !["name"] = str]])
  <2> SUFFICES ASSUME NEW op, NEW cnt, NEW depth, NEW info
               PROVE  OnValue(State(op, "name", cnt, depth, fs, prev, road, file, tf, info),
                        str, len)
                        = State(op, "NOTHING", cnt, depth, fs, prev, road, file,
                          [tf EXCEPT !.text = [@ EXCEPT !["name"] = str]], info)
    BY DEF ValueSets
  <2> QED
    BY DEF OnValue, State, Texts
<1>6. ValueSets("OTHER", fs, prev, road, file, tf, str, len,
                "NOTHING", "", road, file, [tf EXCEPT !.otherInfo = Append(@, <<prev, str>>)])
  <2> SUFFICES ASSUME NEW op, NEW cnt, NEW depth, NEW info
               PROVE  OnValue(State(op, "OTHER", cnt, depth, fs, prev, road, file, tf, info),
                        str, len)
                        = State(op, "NOTHING", cnt, depth, fs, "", road, file,
                          [tf EXCEPT !.otherInfo = Append(@, <<prev, str>>)], info)
    BY DEF ValueSets
  <2> QED
    BY DEF OnValue, State, Texts
<1>7. ValueSets("pieces", fs, prev, road, file, tf, str, len, "NOTHING", prev, road, file,
                [tf EXCEPT !.pieceHashes = @ + (len + HashSize - 1) \div HashSize])
  <2> SUFFICES ASSUME NEW op, NEW cnt, NEW depth, NEW info
               PROVE  OnValue(State(op, "pieces", cnt, depth, fs, prev, road, file, tf, info),
                        str, len)
                        = State(op, "NOTHING", cnt, depth, fs, prev, road, file,
                          [tf EXCEPT !.pieceHashes = @ + (len + HashSize - 1) \div HashSize],
                          info)
    BY DEF ValueSets
  <2> QED
    BY DEF OnValue, State, Texts
<1>8. ValueSets("path", fs, prev, road, file, tf, str, len, "path", prev, Append(road, str),
        file, tf)
  <2> SUFFICES ASSUME NEW op, NEW cnt, NEW depth, NEW info
               PROVE  OnValue(State(op, "path", cnt, depth, fs, prev, road, file, tf, info),
                        str, len)
                        = State(op, "path", cnt, depth, fs, prev, Append(road, str), file, tf,
                          info)
    BY DEF ValueSets
  <2> QED
    BY DEF OnValue, State, Texts
<1>9. fs # 0 => ValueSets("md5sum", fs, prev, road, file, tf, str, len,
                          "NOTHING", prev, road, [file EXCEPT !.md5sum = str], tf)
  <2> SUFFICES ASSUME NEW op, NEW cnt, NEW depth, NEW info, fs # 0
               PROVE  OnValue(State(op, "md5sum", cnt, depth, fs, prev, road, file, tf, info),
                        str, len)
                        = State(op, "NOTHING", cnt, depth, fs, prev, road,
                          [file EXCEPT !.md5sum = str], tf, info)
    BY DEF ValueSets
  <2> QED
    BY DEF OnValue, State, Texts
<1> QED
  BY <1>1, <1>2, <1>3, <1>4, <1>5, <1>6, <1>7, <1>8, <1>9, Zenon

----------------------------------------------------------------------------
(* Entries of one string or number, where nothing else is half read.        *)

Rest(op, depth, fs, prev, file, tf) == Core(op, "NOTHING", 0, depth, fs, prev, <<>>, file, tf)

LEMMA TwoRead ==
  ASSUME NEW hear \in BOOLEAN, NEW a \in Seq(Tokens), NEW b \in Seq(Tokens), NEW p, NEW q,
           NEW r,
         Reads(hear, p, a, q), Reads(hear, q, b, r)
  PROVE  Reads(hear, p, a \o b, r) /\ a \o b \in Seq(Tokens)
BY ReadsMore

\* The parts of a torrent file are sequences of tokens.
LEMMA Typed ==
  /\ \A str \in Words : Str(str) \in Seq(Tokens) /\ Str(str) = Bytes(str, 0)
  /\ \A str \in Words, num \in Nat : Bytes(str, num) \in Seq(Tokens)
  /\ \A num \in Nat : Number(num) \in Seq(Tokens)
  /\ \A items \in Seq(Seq(Tokens)) : List(items) \in Seq(Tokens) /\ Dict(items) \in Seq(Tokens)
<1>1. \A str \in Words : Str(str) = <<Text(str, 0)>> /\ Text(str, 0) \in Tokens
  BY TokenTypes
<1>2. \A str \in Words, num \in Nat : Bytes(str, num) = <<Text(str, num)>> /\
        Text(str, num) \in Tokens
  BY TokenTypes
<1>3. ASSUME NEW str \in Words PROVE Str(str) \in Seq(Tokens) /\ Str(str) = Bytes(str, 0)
  <2>1. <<Text(str, 0)>> \in Seq(Tokens)
    BY <1>1
  <2>2. Bytes(str, 0) = <<Text(str, 0)>>
    BY <1>2
  <2> QED
    BY <1>1, <2>1, <2>2, Zenon
<1>4. ASSUME NEW str \in Words, NEW num \in Nat PROVE Bytes(str, num) \in Seq(Tokens)
  <2>1. <<Text(str, num)>> \in Seq(Tokens)
    BY <1>2
  <2> QED
    BY <1>2, <2>1, Zenon
<1>5. ASSUME NEW num \in Nat PROVE Number(num) \in Seq(Tokens)
  <2>1. "" \in Words
    BY DEF Words
  <2>2. Mark("i") \in Tokens /\ Text("", num) \in Tokens /\ Mark("e") \in Tokens
    BY <2>1, TokenTypes DEF Marks
  <2>3. (<<Mark("i")>> \o <<Text("", num)>>) \o <<Mark("e")>> \in Seq(Tokens)
    <3> DEFINE i == <<Mark("i")>>
               n == <<Text("", num)>>
               e == <<Mark("e")>>
    <3>1. i \in Seq(Tokens) /\ n \in Seq(Tokens) /\ e \in Seq(Tokens)
      <4>1. \A q \in Tokens : <<q>> \in Seq(Tokens)
        OBVIOUS
      <4> QED
        BY <2>2, <4>1, Zenon
    <3> HIDE DEF i, n, e
    <3>2. (i \o n) \o e \in Seq(Tokens)
      BY <3>1
    <3> QED
      BY <3>2 DEF i, n, e
  <2> QED
    BY <2>3, TokenTypes
<1>6. ASSUME NEW items \in Seq(Seq(Tokens)) PROVE List(items) \in Seq(Tokens) /\
               Dict(items) \in Seq(Tokens)
  <2>1. FlattenSeq(items) \in Seq(Tokens)
    BY FlattenType
  <2> DEFINE inner == FlattenSeq(items)
  <2> HIDE DEF inner
  <2>2. \A c \in Marks : <<Mark(c)>> \in Seq(Tokens) /\ Token(c) = <<Mark(c)>>
    <3> SUFFICES ASSUME NEW c \in Marks PROVE <<Mark(c)>> \in Seq(Tokens) /\
                          Token(c) = <<Mark(c)>>
      OBVIOUS
    <3>1. Mark(c) \in Tokens /\ Token(c) = <<Mark(c)>>
      BY TokenTypes
    <3>2. <<Mark(c)>> \in Seq(Tokens)
      BY <3>1
    <3> QED
      BY <3>1, <3>2
  <2>3. Token("l") \in Seq(Tokens) /\ Token("d") \in Seq(Tokens) /\ Token("e") \in Seq(Tokens)
    BY <2>2 DEF Marks
  <2>4. (Token("l") \o inner) \o Token("e") \in Seq(Tokens) /\ (Token("d") \o inner) \o
          Token("e") \in Seq(Tokens)
    BY <2>1, <2>3 DEF inner
  <2> QED
    BY <2>4, Zenon DEF inner, List, Dict
<1> QED
  BY <1>3, <1>4, <1>5, <1>6, Zenon

\* A key the parser knows, and its string.
LEMMA TextEntry ==
  ASSUME NEW hear \in BOOLEAN, NEW op \in Stack, NEW depth \in Nat, hear <=> depth > 0,
         NEW fs, NEW prev, NEW file, NEW tf, NEW key \in Keys \ {"files"},
         NEW str \in Words, NEW num \in Nat, NEW prev2, NEW tf2,
         ValueSets(key, fs, prev, <<>>, file, tf, str, num, "NOTHING", prev2, <<>>, file, tf2)
  PROVE  Reads(hear, Rest(op, depth, fs, prev, file, tf), Str(key) \o Bytes(str, num),
               Rest(op, depth, fs, prev2, file, tf2))
<1> DEFINE a == Rest(op, depth, fs, prev, file, tf)
           b == Core(op, key, 0, depth, fs, prev, <<>>, file, tf)
           c == Rest(op, depth, fs, prev2, file, tf2)
<1>1. key # "NOTHING" /\ key \in Words
  BY DEF Keys, Words
<1>2. Reads(hear, a, Str(key), b)
  BY KeyReads DEF Rest
<1>3. Reads(hear, b, Bytes(str, num), c)
  BY <1>1, ValueReads DEF Rest
<1>4. Str(key) \in Seq(Tokens) /\ Bytes(str, num) \in Seq(Tokens)
  BY <1>1, Typed
<1> HIDE DEF a, b, c
<1> QED
  BY <1>2, <1>3, <1>4, ReadsMore DEF a, c

\* A key it does not know: the pair goes to otherInfo.
LEMMA UnknownText ==
  ASSUME NEW hear \in BOOLEAN, NEW op \in Stack, NEW depth \in Nat, hear <=> depth > 0,
         NEW fs, NEW prev, NEW file, NEW tf, NEW key \in Words \ Keys, NEW str \in Words
  PROVE  Reads(hear, Rest(op, depth, fs, prev, file, tf), Str(key) \o Str(str),
               Rest(op, depth, fs, "", file, [tf EXCEPT !.otherInfo = Append(@, <<key, str>>)]))
<1> DEFINE tf2 == [tf EXCEPT !.otherInfo = Append(@, <<key, str>>)]
           a == Rest(op, depth, fs, prev, file, tf)
           b == Core(op, "OTHER", 0, depth, fs, key, <<>>, file, tf)
           c == Rest(op, depth, fs, "", file, tf2)
<1>1. ValueSets("OTHER", fs, key, <<>>, file, tf, str, 0, "NOTHING", "", <<>>, file, tf2)
  BY ValuesSet
<1> HIDE DEF tf2
<1>2. Reads(hear, a, Str(key), b)
  BY UnknownReads DEF Rest
<1>3. Reads(hear, b, Bytes(str, 0), c)
  BY <1>1, ValueReads DEF Rest
<1>4. Str(key) \in Seq(Tokens) /\ Str(str) \in Seq(Tokens) /\ Str(str) = Bytes(str, 0)
  BY Typed
<1> HIDE DEF a, b, c
<1> QED
  BY <1>2, <1>3, <1>4, ReadsMore DEF a, c, tf2

\* A key and an integer.
LEMMA NumberEntry ==
  ASSUME NEW hear \in BOOLEAN, NEW op \in Stack, NEW depth \in Nat, hear <=> depth > 0,
         NEW fs, fs # 1, NEW prev, NEW file, file.length = 0, NEW tf,
           NEW key \in Keys \ {"files"},
         NEW num \in Nat, NEW tf2, NumberSets(key, fs, file, tf, num, file, tf2)
  PROVE  Reads(hear, Rest(op, depth, fs, prev, file, tf), Str(key) \o Number(num),
               Rest(op, depth, fs, prev, file, tf2))
<1> DEFINE a == Rest(op, depth, fs, prev, file, tf)
           b == Core(op, key, 0, depth, fs, prev, <<>>, file, tf)
           c == Rest(op, depth, fs, prev, file, tf2)
<1>1. key \in Words
  BY DEF Words
<1>2. Reads(hear, a, Str(key), b)
  BY KeyReads DEF Rest
<1>3. Finishes("NOTHING", <<>>, file, tf2, "NOTHING", <<>>, file, tf2)
  BY FinishesNothing
<1>4. Reads(hear, b, Number(num), c)
  BY <1>3, NumberReads DEF Rest
<1>5. Str(key) \in Seq(Tokens) /\ Number(num) \in Seq(Tokens)
  BY <1>1, Typed
<1> HIDE DEF a, b, c
<1> QED
  BY <1>2, <1>4, <1>5, ReadsMore DEF a, c

\* An integer under a key it does not know is passed over.
LEMMA UnknownNumber ==
  ASSUME NEW hear \in BOOLEAN, NEW op \in Stack, NEW depth \in Nat, hear <=> depth > 0,
         NEW fs, fs # 1, NEW prev, NEW file, file.length = 0, NEW tf, NEW key \in Words \ Keys,
         NEW num \in Nat
  PROVE  Reads(hear, Rest(op, depth, fs, prev, file, tf), Str(key) \o Number(num),
               Rest(op, depth, fs, key, file, tf))
<1> DEFINE a == Rest(op, depth, fs, prev, file, tf)
           b == Core(op, "OTHER", 0, depth, fs, key, <<>>, file, tf)
           c == Rest(op, depth, fs, key, file, tf)
<1>1. NumberSets("OTHER", fs, file, tf, num, file, tf)
  BY NumbersSet
<1>2. Reads(hear, a, Str(key), b)
  BY UnknownReads DEF Rest
<1>3. Finishes("NOTHING", <<>>, file, tf, "NOTHING", <<>>, file, tf)
  BY FinishesNothing
<1>4. Reads(hear, b, Number(num), c)
  BY <1>1, <1>3, NumberReads DEF Rest
<1>5. Str(key) \in Seq(Tokens) /\ Number(num) \in Seq(Tokens)
  BY Typed
<1> HIDE DEF a, b, c
<1> QED
  BY <1>2, <1>4, <1>5, ReadsMore DEF a, c

----------------------------------------------------------------------------
(* Entries with a list of strings.                                          *)

LEMMA FlattenOne ==
  ASSUME NEW S, NEW x \in Seq(S)
  PROVE  FlattenSeq(<<x>>) = x
<1>1. FlattenSeq(Append(<<>>, x)) = FlattenSeq(<<>>) \o x /\ FlattenSeq(<<>>) = <<>>
  <2>1. <<>> \in Seq(Seq(S))
    OBVIOUS
  <2> QED
    BY <2>1, FlattenAppend, FlattenType
<1>2. Append(<<>>, x) = <<x>> /\ <<>> \o x = x
  OBVIOUS
<1> QED
  BY <1>1, <1>2, Zenon

LEMMA Pair ==
  ASSUME NEW T, NEW x \in T, NEW y \in T
  PROVE  Append(<<x>>, y) = <<x, y>>
<1> DEFINE q == <<x, y>>
           o == <<x>>
           r == <<y>>
           p == o \o r
<1>1. o \in Seq(T) /\ Len(o) = 1 /\ o[1] = x /\ r \in Seq(T) /\ Len(r) = 1 /\ r[1] = y
  OBVIOUS
<1>2. q \in Seq(T) /\ Len(q) = 2 /\ q[1] = x /\ q[2] = y
  OBVIOUS
<1>3. Append(o, y) = p
  <2> HIDE DEF o
  <2> QED
    BY <1>1, AppendIsConcat
<1> HIDE DEF q, o, r
<1>4. Joined(p, o, r)
  BY <1>1, Concat
<1>10. p \in Seq(T)
  BY <1>1, Concat
<1> HIDE DEF p
<1>5. p \in Seq(T) /\ Len(p) = 2
  BY <1>1, <1>4, <1>10 DEF Joined
<1>6. p[1] = x /\ p[2] = y
  <2>1. 1 \in 1 .. Len(o) /\ 1 \in 1 .. Len(r) /\ Len(o) + 1 = 2
    BY <1>1
  <2>2. p[1] = o[1] /\ p[Len(o) + 1] = r[1]
    BY <1>4, <2>1 DEF Joined
  <2> QED
    BY <1>1, <2>1, <2>2
<1>7. p \in [1 .. 2 -> T] /\ q \in [1 .. 2 -> T]
  BY <1>2, <1>5
<1>8. EqualOn(p, q, 1 .. 2)
  BY <1>2, <1>6 DEF EqualOn
<1>9. p = q
  BY <1>7, <1>8, SameFunction
<1> QED
  BY <1>3, <1>9 DEF o, q

LEMMA FlattenTwo ==
  ASSUME NEW S, NEW x \in Seq(S), NEW y \in Seq(S)
  PROVE  FlattenSeq(<<x, y>>) = x \o y
<1>1. <<x>> \in Seq(Seq(S))
  OBVIOUS
<1>2. FlattenSeq(Append(<<x>>, y)) = FlattenSeq(<<x>>) \o y
  BY <1>1, FlattenAppend
<1>3. Append(<<x>>, y) = <<x, y>>
  BY Pair
<1>4. FlattenSeq(<<x>>) = x
  BY FlattenOne
<1> QED
  BY <1>2, <1>3, <1>4, Zenon

StrOf(ss) == [k \in DOMAIN ss |-> Str(ss[k])]

LEMMA StrOfType ==
  ASSUME NEW ss \in Seq(Words)
  PROVE  /\ StrOf(ss) \in Seq(Seq(Tokens)) /\ Len(StrOf(ss)) = Len(ss) /\ Strs(ss)
              = List(StrOf(ss))
         /\ \A k \in 1 .. Len(ss) : StrOf(ss)[k] = Str(ss[k]) /\ ss[k] \in Words
<1> DEFINE Q == Seq(Tokens)
<1>1. \A k \in 1 .. Len(ss) : ss[k] \in Words /\ Str(ss[k]) \in Q
  <2>1. \A k \in 1 .. Len(ss) : ss[k] \in Words
    OBVIOUS
  <2> QED
    BY <2>1, Typed, Zenon
<1> HIDE DEF Q
<1>2. DOMAIN ss = 1 .. Len(ss) /\ Len(ss) \in Nat
  OBVIOUS
<1>3. StrOf(ss) \in [1 .. Len(ss) -> Q]
  BY <1>1, <1>2 DEF StrOf
<1>4. StrOf(ss) \in Seq(Q) /\ Len(StrOf(ss)) = Len(ss)
  BY <1>2, <1>3
<1>5. \A k \in 1 .. Len(ss) : StrOf(ss)[k] = Str(ss[k])
  BY <1>2 DEF StrOf
<1>6. Strs(ss) = List(StrOf(ss))
  BY Zenon DEF Strs, StrOf
<1> QED
  BY <1>1, <1>4, <1>5, <1>6 DEF Q

\* A list of one string in a list.
LEMMA OneStr ==
  ASSUME NEW a \in Words
  PROVE  StrOf(<<a>>) \in Seq(Seq(Tokens)) /\ FlattenSeq(StrOf(<<a>>)) = Str(a) /\ Strs(<<a>>)
           = List(StrOf(<<a>>))
<1>1. <<a>> \in Seq(Words)
  OBVIOUS
<1>2. Str(a) \in Seq(Tokens)
  BY Typed
<1>3. StrOf(<<a>>) = <<Str(a)>>
  BY DEF StrOf
<1>4. FlattenSeq(<<Str(a)>>) = Str(a)
  BY <1>2, FlattenOne
<1> QED
  BY <1>1, <1>3, <1>4, StrOfType

LEMMA TwoStrs ==
  ASSUME NEW a \in Words, NEW b \in Words
  PROVE  /\ StrOf(<<a, b>>) \in Seq(Seq(Tokens)) /\ Strs(<<a, b>>) = List(StrOf(<<a, b>>))
         /\ FlattenSeq(StrOf(<<a, b>>)) = Str(a) \o Str(b)
<1>1. <<a, b>> \in Seq(Words)
  OBVIOUS
<1>2. Str(a) \in Seq(Tokens) /\ Str(b) \in Seq(Tokens)
  BY Typed
<1>3. StrOf(<<a, b>>) = <<Str(a), Str(b)>>
  BY DEF StrOf
<1>4. FlattenSeq(<<Str(a), Str(b)>>) = Str(a) \o Str(b)
  BY <1>2, FlattenTwo
<1> QED
  BY <1>1, <1>3, <1>4, StrOfType

GrowsBy(s, S) ==
  \A l \in Seq(S), k \in 1 .. Len(s) :
    Append(l \o SubSeq(s, 1, k - 1), s[k]) = l \o SubSeq(s, 1, k)

LEMMA PrefixGrows ==
  ASSUME NEW S, NEW s \in Seq(S)
  PROVE  GrowsBy(s, S)
<1> SUFFICES ASSUME NEW l \in Seq(S), NEW k \in 1 .. Len(s)
             PROVE  Append(l \o SubSeq(s, 1, k - 1), s[k]) = l \o SubSeq(s, 1, k)
  BY Zenon DEF GrowsBy
<1>1. SubSeq(s, 1, k) = Append(SubSeq(s, 1, k - 1), s[k])
  <2>1. k \in Nat /\ k <= Len(s) /\ Len(s) \in Nat
    OBVIOUS
  <2> QED
    OBVIOUS
<1>2. SubSeq(s, 1, k - 1) \in Seq(S) /\ s[k] \in S
  OBVIOUS
<1>3. \A p \in Seq(S), x \in S : Append(l \o p, x) = l \o Append(p, x)
  <2> SUFFICES ASSUME NEW p \in Seq(S), NEW x \in S PROVE Append(l \o p, x) = l \o Append(p, x)
    OBVIOUS
  <2>1. <<x>> \in Seq(S) /\ l \o p \in Seq(S)
    OBVIOUS
  <2>2. Append(l \o p, x) = (l \o p) \o <<x>> /\ Append(p, x) = p \o <<x>>
    BY <2>1, AppendIsConcat
  <2>3. (l \o p) \o <<x>> = l \o (p \o <<x>>)
    BY <2>1, ConcatAssociative
  <2> QED
    BY <2>2, <2>3, Zenon
<1> QED
  BY <1>1, <1>2, <1>3, Zenon

\* "announce-list" has a list of trackers, each a list of its own.
Announces(tf, ann, k) == [tf EXCEPT !.announce_list = tf.announce_list \o SubSeq(ann, 1, k)]

LEMMA AnnounceListEntry ==
  ASSUME NEW hear \in BOOLEAN, NEW op \in Stack, NEW depth \in Nat, hear <=> depth > 0,
         NEW fs, fs # 1, NEW prev, NEW file, file.length = 0, NEW tf \in Torrents,
           NEW ann \in Seq(Words)
  PROVE  Reads(hear, Rest(op, depth, fs, prev, file, tf),
               Str("announce-list") \o List([k \in DOMAIN ann |-> Strs(<<ann[k]>>)]),
               Rest(op, depth, fs, prev, file, Announces(tf, ann, Len(ann))))
<1> DEFINE items == [k \in DOMAIN ann |-> Strs(<<ann[k]>>)]
           lop == <<"l">> \o op
           deep == Deeper(depth)
           c(k) == Core(lop, "announce-list", 1, deep, fs, prev, <<>>, file,
             Announces(tf, ann, k))
           cores == [k \in 1 .. Len(ann) + 1 |-> c(k - 1)]
<1>0. GrowsBy(ann, Words)
  BY PrefixGrows
<1>1. "announce-list" \in Keys \ {"files"} /\ "announce-list" \in Words /\
        "announce-list" # "NOTHING"
  BY DEF Keys, Words
<1>2. deep \in Nat /\ (hear <=> deep > 0) /\ lop \in Stack
  BY Stacks DEF Deeper, Marks
<1>3. /\ items \in Seq(Seq(Tokens)) /\ Len(items) = Len(ann) /\ Len(ann) \in Nat
      /\ \A k \in 1 .. Len(ann) : ann[k] \in Words /\ items[k] = Strs(<<ann[k]>>)
  <2> DEFINE Q == Seq(Tokens)
  <2>1. \A k \in 1 .. Len(ann) : ann[k] \in Words /\ Strs(<<ann[k]>>) \in Q
    <3> SUFFICES ASSUME NEW k \in 1 .. Len(ann) PROVE ann[k] \in Words /\ Strs(<<ann[k]>>) \in Q
      OBVIOUS
    <3>1. ann[k] \in Words
      OBVIOUS
    <3> QED
      BY <3>1, OneStr, Typed
  <2> HIDE DEF Q
  <2>2. DOMAIN ann = 1 .. Len(ann) /\ Len(ann) \in Nat
    OBVIOUS
  <2>3. items \in [1 .. Len(ann) -> Q]
    BY <2>1, <2>2
  <2>4. items \in Seq(Q) /\ Len(items) = Len(ann)
    BY <2>2, <2>3
  <2> QED
    BY <2>1, <2>2, <2>4 DEF Q
<1>4. Announces(tf, ann, 0) = tf
  BY DEF Announces, Torrents
<1>5. ASSUME NEW k \in 1 .. Len(ann)
      PROVE  Reads(hear, c(k - 1), items[k], c(k))
  <2> DEFINE a == ann[k]
             tfa == Announces(tf, ann, k - 1)
             tfb == [tfa EXCEPT !.announce_list = Append(@, a)]
             llop == <<"l">> \o lop
             d == Core(llop, "announce-list", 1 + 1, Deeper(deep), fs, prev, <<>>, file, tfa)
             e == Core(llop, "announce-list", 1 + 1, Deeper(deep), fs, prev, <<>>, file, tfb)
  <2>1. tfb = Announces(tf, ann, k)
    <3> DEFINE l == tf.announce_list \o SubSeq(ann, 1, k - 1)
    <3>1. tfb = [tf EXCEPT !.announce_list = Append(l, a)]
      BY AnnounceTwice DEF Announces
    <3>2. Append(l, a) = tf.announce_list \o SubSeq(ann, 1, k)
      <4>1. tf.announce_list \in Seq(Words)
        BY DEF Torrents
      <4> QED
        BY <1>0, <4>1, Zenon DEF GrowsBy
    <3> QED
      BY <3>1, <3>2, Zenon DEF Announces
  <2>2. a \in Words /\ Deeper(deep) \in Nat /\ (hear <=> Deeper(deep) > 0) /\ llop \in Stack
    BY <1>2, <1>3, Stacks DEF Deeper, Marks
  <2>3. Str(a) = Bytes(a, 0) /\ items[k]
          = List(StrOf(<<a>>)) /\ StrOf(<<a>>) \in Seq(Seq(Tokens))
        /\ FlattenSeq(StrOf(<<a>>)) = Str(a)
    BY <1>3, <2>2, OneStr, Typed
  <2>4. ValueSets("announce-list", fs, prev, <<>>, file, tfa, a, 0, "announce-list", prev, <<>>,
          file, tfb)
    BY ValuesSet
  <2> HIDE DEF tfa, tfb, a, items, llop
  <2>5. Reads(hear, d, Bytes(a, 0), e)
    BY <1>1, <2>2, <2>4, ValueReads
  <2>6. Reads(hear, d, FlattenSeq(StrOf(<<a>>)), e)
    BY <2>3, <2>5, Zenon
  <2>7. Finishes("announce-list", <<>>, file, tfb, "announce-list", <<>>, file, tfb)
    BY FinishesNothing
  <2>8. Reads(hear, Core(lop, "announce-list", 1, deep, fs, prev, <<>>, file, tfa),
          List(StrOf(<<a>>)),
              Closed(lop, "announce-list", 1, deep, fs, prev, <<>>, file, tfb))
    <3> HIDE DEF lop, deep
    <3> QED
      BY <1>1, <1>2, <2>3, <2>6, <2>7, ListReads DEF llop
  <2>9. Closed(lop, "announce-list", 1, deep, fs, prev, <<>>, file, tfb)
          = Core(lop, "announce-list", 1, deep, fs, prev, <<>>, file, tfb)
    <3>1. 1 > 0
      OBVIOUS
    <3> QED
      BY <3>1, Zenon DEF Closed
  <2> QED
    BY <2>1, <2>3, <2>8, <2>9, Zenon DEF tfa
<1>6. ReadsEach(hear, cores, items)
  <2> SUFFICES ASSUME NEW k \in 1 .. Len(items)
                        PROVE Reads(hear, cores[k], items[k], cores[k + 1])
    BY Zenon DEF ReadsEach
  <2>1. k \in 1 .. Len(ann) + 1 /\ k + 1 \in 1 .. Len(ann) + 1 /\ (k + 1) - 1 = k /\
          k \in 1 .. Len(ann)
    BY <1>3
  <2> HIDE DEF c, items
  <2>2. cores[k] = c(k - 1) /\ cores[k + 1] = c(k)
    BY <2>1
  <2> HIDE DEF cores
  <2> QED
    BY <1>5, <2>1, <2>2
<1>7. cores[1] = c(0) /\ cores[Len(items) + 1] = c(Len(ann))
  <2> HIDE DEF c, items
  <2>1. 1 \in 1 .. Len(ann) + 1 /\ Len(ann) + 1 \in 1 .. Len(ann) + 1 /\ 1 - 1 = 0 /\
          (Len(ann) + 1) - 1 = Len(ann)
    BY <1>3
  <2> QED
    BY <1>3, <2>1
<1> DEFINE tfz == Announces(tf, ann, Len(ann))
<1> HIDE DEF cores, items
<1>8. Reads(hear, c(0), FlattenSeq(items), c(Len(ann)))
  <2> HIDE DEF c
  <2>1. Reads(hear, cores[1], FlattenSeq(items), cores[Len(items) + 1])
    BY <1>3, <1>6, ReadsAll
  <2> QED
    BY <1>7, <2>1, Zenon
<1> HIDE DEF tfz
<1>9. Reads(hear, Core(op, "announce-list", 0, depth, fs, prev, <<>>, file, tf), List(items),
            Closed(op, "announce-list", 0, depth, fs, prev, <<>>, file, tfz))
  <2>1. Finishes("announce-list", <<>>, file, tfz, "announce-list", <<>>, file, tfz)
    BY FinishesNothing
  <2>2. Reads(hear, Core(<<"l">> \o op, "announce-list", 0 + 1, Deeper(depth), fs, prev, <<>>,
          file, tf), FlattenSeq(items),
              Core(<<"l">> \o op, "announce-list", 0 + 1, Deeper(depth), fs, prev, <<>>, file,
                tfz))
    <3>1. 0 + 1 = 1
      OBVIOUS
    <3> QED
      BY <1>4, <1>8, <3>1, Zenon DEF tfz
  <2> HIDE DEF lop, deep
  <2> QED
    BY <1>1, <1>3, <2>1, <2>2, ListReads
<1>10. Closed(op, "announce-list", 0, depth, fs, prev, <<>>, file, tfz)
         = Rest(op, depth, fs, prev, file, tfz)
  <2>1. ~(0 > 0) /\ Left(fs) = fs
    BY DEF Left
  <2> QED
    BY <2>1, Zenon DEF Closed, Rest
<1>11. Reads(hear, Rest(op, depth, fs, prev, file, tf), Str("announce-list"),
             Core(op, "announce-list", 0, depth, fs, prev, <<>>, file, tf))
  BY <1>1, KeyReads DEF Rest
<1>12. Str("announce-list") \in Seq(Tokens) /\ List(items) \in Seq(Tokens)
  BY <1>1, <1>3, Typed
<1>13. Reads(hear, Rest(op, depth, fs, prev, file, tf), Str("announce-list") \o List(items),
             Rest(op, depth, fs, prev, file, tfz))
  BY <1>9, <1>10, <1>11, <1>12, ReadsMore
<1> QED
  BY <1>13, Zenon DEF tfz, items

\* A list of two strings.
LEMMA ListOfTwo ==
  ASSUME NEW hear \in BOOLEAN, NEW op \in Stack, NEW depth \in Nat, hear <=> depth > 0,
         NEW fs, fs # 1, NEW prev, NEW file, file.length = 0, NEW tf,
         NEW flag, flag # "NOTHING", NEW a \in Words, NEW b \in Words,
         NEW m, NEW flag2, NEW prev2, NEW tf2,
         Reads(hear, Core(<<"l">> \o op, flag, 1, Deeper(depth), fs, prev, <<>>, file, tf),
           Str(a), m),
         Reads(hear, m, Str(b),
           Core(<<"l">> \o op, flag2, 1, Deeper(depth), fs, prev2, <<>>, file, tf2))
  PROVE  Reads(hear, Core(op, flag, 0, depth, fs, prev, <<>>, file, tf), Strs(<<a, b>>),
               Rest(op, depth, fs, prev2, file, tf2))
<1> DEFINE p == Core(<<"l">> \o op, flag, 1, Deeper(depth), fs, prev, <<>>, file, tf)
           q == Core(<<"l">> \o op, flag2, 1, Deeper(depth), fs, prev2, <<>>, file, tf2)
           items == StrOf(<<a, b>>)
<1>1. items \in Seq(Seq(Tokens)) /\ Strs(<<a, b>>) = List(items) /\ FlattenSeq(items)
        = Str(a) \o Str(b)
  BY TwoStrs
<1>2. Str(a) \in Seq(Tokens) /\ Str(b) \in Seq(Tokens)
  BY Typed
<1>3. Reads(hear, p, Str(a) \o Str(b), q)
  <2> HIDE DEF p, q
  <2>1. Reads(hear, p, Str(a), m) /\ Reads(hear, m, Str(b), q)
    BY DEF p, q
  <2> QED
    BY <1>2, <2>1, ReadsMore
<1> HIDE DEF items
<1>4. Finishes(flag2, <<>>, file, tf2, flag2, <<>>, file, tf2)
  BY FinishesNothing
<1>5. Reads(hear, Core(op, flag, 0, depth, fs, prev, <<>>, file, tf), List(items),
            Closed(op, flag2, 0, depth, fs, prev2, <<>>, file, tf2))
  <2>1. Reads(hear, p, FlattenSeq(items), q)
    BY <1>1, <1>3, Zenon
  <2>2. 0 + 1 = 1 /\ 0 \in Nat
    OBVIOUS
  <2> QED
    BY <1>1, <1>4, <2>1, <2>2, ListReads
<1>6. Closed(op, flag2, 0, depth, fs, prev2, <<>>, file, tf2)
        = Rest(op, depth, fs, prev2, file, tf2)
  <2>1. ~(0 > 0) /\ Left(fs) = fs
    BY DEF Left
  <2> QED
    BY <2>1, Zenon DEF Closed, Rest
<1> QED
  BY <1>1, <1>5, <1>6, Zenon

\* "url-list" is a list of strings.
LEMMA UrlListEntry ==
  ASSUME NEW hear \in BOOLEAN, NEW op \in Stack, NEW depth \in Nat, hear <=> depth > 0,
         NEW fs, fs # 1, NEW prev, NEW file, file.length = 0, NEW tf \in Torrents,
         NEW a \in Words, NEW b \in Words, tf.url_list = <<>>
  PROVE  Reads(hear, Rest(op, depth, fs, prev, file, tf), Str("url-list") \o Strs(<<a, b>>),
               Rest(op, depth, fs, prev, file, [tf EXCEPT !.url_list = <<a, b>>]))
<1> DEFINE lop == <<"l">> \o op
           deep == Deeper(depth)
           tfa == [tf EXCEPT !.url_list = Append(@, a)]
           tfb == [tfa EXCEPT !.url_list = Append(@, b)]
           p == Core(lop, "url-list", 1, deep, fs, prev, <<>>, file, tf)
           m == Core(lop, "url-list", 1, deep, fs, prev, <<>>, file, tfa)
           q == Core(lop, "url-list", 1, deep, fs, prev, <<>>, file, tfb)
           c == Core(op, "url-list", 0, depth, fs, prev, <<>>, file, tf)
<1>1. "url-list" \in Keys \ {"files"} /\ "url-list" \in Words /\ "url-list" # "NOTHING"
  BY DEF Keys, Words
<1>2. deep \in Nat /\ (hear <=> deep > 0) /\ lop \in Stack
  BY Stacks DEF Deeper, Marks
<1>3. tfb = [tf EXCEPT !.url_list = <<a, b>>]
  <2>1. tfa = [tf EXCEPT !.url_list = <<a>>]
    <3>1. Append(<<>>, a) = <<a>>
      OBVIOUS
    <3> QED
      BY <3>1, Zenon
  <2>2. tfa.url_list = <<a>>
    BY <2>1 DEF Torrents
  <2>3. tfb = [tfa EXCEPT !.url_list = <<a, b>>]
    BY <2>2, Pair, Zenon
  <2> DEFINE v == <<a>>
             w == <<a, b>>
  <2> HIDE DEF v, w
  <2>4. [[tf EXCEPT !.url_list = v] EXCEPT !.url_list = w] = [tf EXCEPT !.url_list = w]
    BY DEF Torrents
  <2> QED
    BY <2>1, <2>3, <2>4, Zenon DEF v, w
<1>4. /\ ValueSets("url-list", fs, prev, <<>>, file, tf, a, 0, "url-list", prev, <<>>, file,
           tfa)
      /\ ValueSets("url-list", fs, prev, <<>>, file, tfa, b, 0, "url-list", prev, <<>>, file,
           tfb)
  BY ValuesSet
<1> HIDE DEF tfa, tfb
<1>5. Reads(hear, p, Bytes(a, 0), m) /\ Reads(hear, m, Bytes(b, 0), q)
  <2> HIDE DEF lop, deep
  <2>1. Reads(hear, p, Bytes(a, 0), m)
    BY <1>1, <1>2, <1>4, ValueReads
  <2>2. Reads(hear, m, Bytes(b, 0), q)
    BY <1>1, <1>2, <1>4, ValueReads
  <2> QED
    BY <2>1, <2>2
<1>6. Str(a) = Bytes(a, 0) /\ Str(b) = Bytes(b, 0)
  BY Typed
<1>7. Reads(hear, p, Str(a), m) /\ Reads(hear, m, Str(b), q)
  BY <1>5, <1>6, Zenon
<1>8. Reads(hear, c, Strs(<<a, b>>), Rest(op, depth, fs, prev, file, tfb))
  <2> HIDE DEF m
  <2> QED
    BY <1>1, <1>7, ListOfTwo
<1>9. Reads(hear, Rest(op, depth, fs, prev, file, tf), Str("url-list"), c)
  BY <1>1, KeyReads DEF Rest
<1>10. Str("url-list") \in Seq(Tokens) /\ Strs(<<a, b>>) \in Seq(Tokens)
  BY <1>1, TwoStrs, Typed
<1> HIDE DEF c
<1>11. Reads(hear, Rest(op, depth, fs, prev, file, tf), Str("url-list") \o Strs(<<a, b>>),
             Rest(op, depth, fs, prev, file, tfb))
  BY <1>8, <1>9, <1>10, ReadsMore
<1> QED
  BY <1>3, <1>11, Zenon

\* A list under a key the parser does not know: its first string is taken for
\* the key's value, its second for another key.
LEMMA UnknownListEntry ==
  ASSUME NEW hear \in BOOLEAN, NEW op \in Stack, NEW depth \in Nat, hear <=> depth > 0,
         NEW fs, fs # 1, NEW prev, NEW file, file.length = 0, NEW tf,
         NEW key \in Words \ Keys, NEW a \in Words, NEW b \in Words \ Keys
  PROVE  Reads(hear, Rest(op, depth, fs, prev, file, tf), Str(key) \o Strs(<<a, b>>),
               Rest(op, depth, fs, b, file, [tf EXCEPT !.otherInfo = Append(@, <<key, a>>)]))
<1> DEFINE lop == <<"l">> \o op
           deep == Deeper(depth)
           tfa == [tf EXCEPT !.otherInfo = Append(@, <<key, a>>)]
           p == Core(lop, "OTHER", 1, deep, fs, key, <<>>, file, tf)
           m == Core(lop, "NOTHING", 1, deep, fs, "", <<>>, file, tfa)
           q == Core(lop, "OTHER", 1, deep, fs, b, <<>>, file, tfa)
           c == Core(op, "OTHER", 0, depth, fs, key, <<>>, file, tf)
<1>2. deep \in Nat /\ (hear <=> deep > 0) /\ lop \in Stack
  BY Stacks DEF Deeper, Marks
<1>1. "OTHER" # "NOTHING"
  OBVIOUS
<1>4. ValueSets("OTHER", fs, key, <<>>, file, tf, a, 0, "NOTHING", "", <<>>, file, tfa)
  BY ValuesSet
<1> HIDE DEF tfa
<1>5. Reads(hear, p, Bytes(a, 0), m) /\ Reads(hear, m, Str(b), q)
  <2> HIDE DEF lop, deep
  <2>1. Reads(hear, p, Bytes(a, 0), m)
    <3> DEFINE f == "OTHER"
               g == "NOTHING"
               r == <<>>
               e == ""
    <3>1. ValueSets(f, fs, key, r, file, tf, a, 0, g, e, r, file, tfa) /\ f # "NOTHING" /\
            0 \in Nat
      BY <1>1, <1>4
    <3> HIDE DEF f, g, r, e
    <3>2. Reads(hear, Core(lop, f, 1, deep, fs, key, r, file, tf), Bytes(a, 0),
            Core(lop, g, 1, deep, fs, e, r, file, tfa))
      BY <1>2, <3>1, ValueReads
    <3> QED
      BY <3>2 DEF f, g, r, e
  <2>2. Reads(hear, m, Str(b), q)
    BY <1>2, UnknownReads
  <2> QED
    BY <2>1, <2>2
<1>7. Reads(hear, p, Str(a), m)
  BY <1>5, Typed
<1>8. Reads(hear, c, Strs(<<a, b>>), Rest(op, depth, fs, b, file, tfa))
  <2> HIDE DEF m
  <2> QED
    BY <1>5, <1>7, ListOfTwo
<1>9. Reads(hear, Rest(op, depth, fs, prev, file, tf), Str(key), c)
  BY UnknownReads DEF Rest
<1>10. Str(key) \in Seq(Tokens) /\ Strs(<<a, b>>) \in Seq(Tokens)
  BY TwoStrs, Typed
<1> HIDE DEF c
<1>11. Reads(hear, Rest(op, depth, fs, prev, file, tf), Str(key) \o Strs(<<a, b>>),
             Rest(op, depth, fs, b, file, tfa))
  BY <1>8, <1>9, <1>10, ReadsMore
<1> QED
  BY <1>11 DEF tfa

----------------------------------------------------------------------------
(* The dictionary of a file in "files".                                     *)

LEMMA ReadsSeven ==
  ASSUME NEW hear \in BOOLEAN,
         NEW x1 \in Seq(Tokens),
         NEW x2 \in Seq(Tokens),
         NEW x3 \in Seq(Tokens),
         NEW x4 \in Seq(Tokens),
         NEW x5 \in Seq(Tokens),
         NEW x6 \in Seq(Tokens),
         NEW x7 \in Seq(Tokens),
         NEW p1, NEW p2, NEW p3, NEW p4, NEW p5, NEW p6, NEW p7, NEW p8,
         Reads(hear, p1, x1, p2),
         Reads(hear, p2, x2, p3),
         Reads(hear, p3, x3, p4),
         Reads(hear, p4, x4, p5),
         Reads(hear, p5, x5, p6),
         Reads(hear, p6, x6, p7),
         Reads(hear, p7, x7, p8)
  PROVE  <<x1, x2, x3, x4, x5, x6, x7>> \in Seq(Seq(Tokens)) /\
           Reads(hear, p1, FlattenSeq(<<x1, x2, x3, x4, x5, x6, x7>>), p8)
<1> DEFINE parts == <<x1, x2, x3, x4, x5, x6, x7>>
           cores == <<p1, p2, p3, p4, p5, p6, p7, p8>>
           Q == Seq(Tokens)
<1>1. /\ parts \in Seq(Q) /\ Len(parts) = 7
      /\ parts[1] = x1 /\ parts[2] = x2 /\ parts[3] = x3 /\ parts[4] = x4 /\ parts[5] = x5 /\
           parts[6] = x6 /\ parts[7] = x7
  <2> HIDE DEF Q
  <2>1. x1 \in Q /\ x2 \in Q /\ x3 \in Q /\ x4 \in Q /\ x5 \in Q /\ x6 \in Q /\ x7 \in Q
    BY DEF Q
  <2> QED
    BY <2>1
<1>2. /\ cores[1] = p1 /\ cores[2] = p2 /\ cores[3] = p3 /\ cores[4] = p4 /\ cores[5] = p5 /\
           cores[6] = p6 /\ cores[7] = p7 /\ cores[8] = p8
      /\ cores[7 + 1] = p8
  OBVIOUS
<1> HIDE DEF parts, cores, Q
<1>3. ReadsEach(hear, cores, parts)
  <2> SUFFICES ASSUME NEW k \in 1 .. 7 PROVE Reads(hear, cores[k], parts[k], cores[k + 1])
    BY <1>1 DEF ReadsEach
  <2>1. CASE k = 1
    <3>1. k + 1 = 2
      BY <2>1
    <3> QED
      BY <1>1, <1>2, <2>1, <3>1, Zenon
  <2>2. CASE k = 2
    <3>1. k + 1 = 3
      BY <2>2
    <3> QED
      BY <1>1, <1>2, <2>2, <3>1, Zenon
  <2>3. CASE k = 3
    <3>1. k + 1 = 4
      BY <2>3
    <3> QED
      BY <1>1, <1>2, <2>3, <3>1, Zenon
  <2>4. CASE k = 4
    <3>1. k + 1 = 5
      BY <2>4
    <3> QED
      BY <1>1, <1>2, <2>4, <3>1, Zenon
  <2>5. CASE k = 5
    <3>1. k + 1 = 6
      BY <2>5
    <3> QED
      BY <1>1, <1>2, <2>5, <3>1, Zenon
  <2>6. CASE k = 6
    <3>1. k + 1 = 7
      BY <2>6
    <3> QED
      BY <1>1, <1>2, <2>6, <3>1, Zenon
  <2>7. CASE k = 7
    <3>1. k + 1 = 8
      BY <2>7
    <3> QED
      BY <1>1, <1>2, <2>7, <3>1, Zenon
  <2> QED
    BY <2>1, <2>2, <2>3, <2>4, <2>5, <2>6, <2>7
<1>4. Reads(hear, cores[1], FlattenSeq(parts), cores[Len(parts) + 1])
  BY <1>1, <1>3, ReadsAll DEF Q
<1> QED
  BY <1>1, <1>2, <1>4 DEF parts, Q

\* Within "files" a dictionary is counted without a key before it.
LEMMA DictReads ==
  ASSUME NEW hear \in BOOLEAN, NEW op \in Stack, NEW cnt \in Nat \ {0}, NEW depth \in Nat,
           hear <=> depth > 0,
         NEW prev, NEW file, NEW tf, NEW entries \in Seq(Seq(Tokens)), NEW prev2, NEW file2,
           NEW tf2,
         Reads(hear, Core(<<"d">> \o op, "NOTHING", cnt + 1, Deeper(depth), 1, prev, <<>>, file,
           tf),
               FlattenSeq(entries),
               Core(<<"d">> \o op, "NOTHING", cnt + 1, Deeper(depth), 1, prev2, <<>>, file2,
                 tf2)),
         NEW file3, NEW tf3, Finishes("NOTHING", <<>>, file2, tf2, "NOTHING", <<>>, file3, tf3)
  PROVE  Reads(hear, Core(op, "NOTHING", cnt, depth, 1, prev, <<>>, file, tf), Dict(entries),
               Core(op, "NOTHING", cnt, depth, 1, prev2, <<>>, file3, tf3))
<1> DEFINE a == Core(op, "NOTHING", cnt, depth, 1, prev, <<>>, file, tf)
           b == Core(<<"d">> \o op, "NOTHING", cnt + 1, Deeper(depth), 1, prev, <<>>, file, tf)
           c == Core(<<"d">> \o op, "NOTHING", cnt + 1, Deeper(depth), 1, prev2, <<>>, file2,
             tf2)
           d == Core(op, "NOTHING", cnt, depth, 1, prev2, <<>>, file3, tf3)
           inner == FlattenSeq(entries)
<1>1. Mark("d") \in Tokens /\ Mark("e") \in Tokens
  BY TokenTypes DEF Marks
<1>2. Reads(hear, a, <<Mark("d")>>, b)
  <2>1. a.infoCounter = depth /\ b.infoCounter = Deeper(depth)
    BY CoreDepth
  <2>2. Does(a, Mark("d"), b)
    BY DoesDict
  <2>3. Deeper(depth) > 0 <=> depth > 0
    BY DEF Deeper
  <2> HIDE DEF a, b
  <2> QED
    BY <1>1, <2>1, <2>2, <2>3, ReadsWhatItDoes
<1>3. Reads(hear, c, <<Mark("e")>>, d)
  <2>1. Reads(hear, c, <<Mark("e")>>,
          Closed(op, "NOTHING", cnt, depth, 1, prev2, <<>>, file3, tf3))
    BY ClosingReads DEF Marks
  <2>2. Closed(op, "NOTHING", cnt, depth, 1, prev2, <<>>, file3, tf3) = d
    <3>1. cnt > 0
      OBVIOUS
    <3> QED
      BY <3>1, Zenon DEF Closed
  <2> QED
    BY <2>1, <2>2, Zenon
<1>4. Reads(hear, b, inner, c) /\ inner \in Seq(Tokens)
  BY FlattenType
<1> HIDE DEF a, b, c, d
<1>5. Dict(entries) = (<<Mark("d")>> \o inner) \o <<Mark("e")>>
  <2>1. Token("d") = <<Mark("d")>> /\ Token("e") = <<Mark("e")>>
    BY TokenTypes DEF Marks
  <2> QED
    BY <2>1, Zenon DEF Dict
<1> HIDE DEF inner
<1>6. <<Mark("d")>> \in Seq(Tokens) /\ <<Mark("e")>> \in Seq(Tokens) /\ <<Mark("d")>> \o
        inner \in Seq(Tokens)
  BY <1>1, <1>4
<1>7. Reads(hear, a, <<Mark("d")>> \o inner, c)
  BY <1>2, <1>4, <1>6, ReadsMore, Zenon
<1>8. Reads(hear, a, (<<Mark("d")>> \o inner) \o <<Mark("e")>>, d)
  BY <1>3, <1>6, <1>7, ReadsMore, Zenon
<1> QED
  BY <1>5, <1>8, Zenon DEF a, d

\* The strings of a path are gathered one by one.
LEMMA RoadReads ==
  ASSUME NEW hear \in BOOLEAN, NEW op \in Stack, NEW cnt, NEW depth \in Nat, hear <=> depth > 0,
         NEW fs, NEW prev, NEW file, NEW tf, NEW path \in Seq(Words)
  PROVE  Reads(hear, Core(op, "path", cnt, depth, fs, prev, <<>>, file, tf),
           FlattenSeq(StrOf(path)),
               Core(op, "path", cnt, depth, fs, prev, path, file, tf))
<1> DEFINE c(k) == Core(op, "path", cnt, depth, fs, prev, SubSeq(path, 1, k), file, tf)
           cores == [k \in 1 .. Len(path) + 1 |-> c(k - 1)]
           parts == StrOf(path)
<1>1. /\ parts \in Seq(Seq(Tokens)) /\ Len(parts) = Len(path) /\ Len(path) \in Nat
      /\ \A k \in 1 .. Len(path) : parts[k] = Str(path[k]) /\ path[k] \in Words
  BY StrOfType
<1> HIDE DEF parts
<1>2. ASSUME NEW k \in 1 .. Len(path) PROVE Reads(hear, c(k - 1), parts[k], c(k))
  <2> DEFINE road == SubSeq(path, 1, k - 1)
             more == Append(road, path[k])
             x == path[k]
  <2>1. SubSeq(path, 1, k) = more
    <3>1. k \in Nat /\ k <= Len(path) /\ Len(path) \in Nat
      OBVIOUS
    <3> QED
      OBVIOUS
  <2>2. x \in Words /\ parts[k] = Bytes(x, 0)
    BY <1>1, Typed
  <2>3. ValueSets("path", fs, prev, road, file, tf, x, 0, "path", prev, more, file, tf)
    BY ValuesSet
  <2>4. "path" # "NOTHING" /\ 0 \in Nat
    OBVIOUS
  <2> HIDE DEF road, more, x
  <2>5. Reads(hear, Core(op, "path", cnt, depth, fs, prev, road, file, tf), Bytes(x, 0),
              Core(op, "path", cnt, depth, fs, prev, more, file, tf))
    BY <2>2, <2>3, <2>4, ValueReads
  <2> QED
    BY <2>1, <2>2, <2>5, Zenon DEF road
<1>3. c(0) = Core(op, "path", cnt, depth, fs, prev, <<>>, file, tf)
  <2>1. SubSeq(path, 1, 0) = <<>>
    OBVIOUS
  <2> QED
    BY <2>1, Zenon
<1>4. c(Len(path)) = Core(op, "path", cnt, depth, fs, prev, path, file, tf)
  <2>1. SubSeq(path, 1, Len(path)) = path
    OBVIOUS
  <2> QED
    BY <2>1, Zenon
<1> HIDE DEF c
<1>5. ReadsEach(hear, cores, parts)
  <2> SUFFICES ASSUME NEW k \in 1 .. Len(path)
                        PROVE Reads(hear, cores[k], parts[k], cores[k + 1])
    BY <1>1 DEF ReadsEach
  <2>1. k \in 1 .. Len(path) + 1 /\ k + 1 \in 1 .. Len(path) + 1 /\ (k + 1) - 1 = k
    BY <1>1
  <2>2. cores[k] = c(k - 1) /\ cores[k + 1] = c(k)
    BY <2>1
  <2> QED
    BY <1>2, <2>2, Zenon
<1>6. cores[1] = c(0) /\ cores[Len(parts) + 1] = c(Len(path))
  <2>1. 1 \in 1 .. Len(path) + 1 /\ Len(path) + 1 \in 1 .. Len(path) + 1 /\ 1 - 1 = 0
        /\ (Len(path) + 1) - 1 = Len(path)
    BY <1>1
  <2> QED
    BY <1>1, <2>1
<1> HIDE DEF cores
<1>7. Reads(hear, cores[1], FlattenSeq(parts), cores[Len(parts) + 1])
  BY <1>1, <1>5, ReadsAll
<1> QED
  BY <1>3, <1>4, <1>6, <1>7, Zenon DEF parts

\* The entries of a file: length, md5sum and path.
LEMMA FileParts ==
  ASSUME NEW hear \in BOOLEAN, NEW op \in Stack, NEW cnt \in Nat \ {0}, NEW depth \in Nat,
           hear <=> depth > 0,
         NEW prev, NEW file, NEW tf
  PROVE  /\ \A n \in Nat : \A file2, tf2 :
              Finishes("NOTHING", <<>>, [file EXCEPT !.length = n], tf, "NOTHING", <<>>, file2,
                tf2) =>
                /\ Str("length") \o Number(n) \in Seq(Tokens)
                /\ Reads(hear, Core(op, "NOTHING", cnt, depth, 1, prev, <<>>, file, tf),
                         Str("length") \o Number(n),
                         Core(op, "NOTHING", cnt, depth, 1, prev, <<>>, file2, tf2))
         /\ \A str \in Words :
              /\ Str("md5sum") \o Str(str) \in Seq(Tokens)
              /\ Reads(hear, Core(op, "NOTHING", cnt, depth, 1, prev, <<>>, file, tf),
                       Str("md5sum") \o Str(str),
                       Core(op, "NOTHING", cnt, depth, 1, prev, <<>>,
                         [file EXCEPT !.md5sum = str], tf))
<1>1. "length" \in Keys \ {"files"} /\ "md5sum" \in Keys \ {"files"} /\ "md5sum" # "NOTHING" /\
        1 # 0
  BY DEF Keys
<1>2. "length" \in Words /\ "md5sum" \in Words
  BY <1>1 DEF Words
<1> DEFINE a == Core(op, "NOTHING", cnt, depth, 1, prev, <<>>, file, tf)
<1>3. ASSUME NEW n \in Nat, NEW file2, NEW tf2,
             Finishes("NOTHING", <<>>, [file EXCEPT !.length = n], tf, "NOTHING", <<>>, file2,
               tf2)
      PROVE  /\ Str("length") \o Number(n) \in Seq(Tokens)
             /\ Reads(hear, a, Str("length") \o Number(n),
                      Core(op, "NOTHING", cnt, depth, 1, prev, <<>>, file2, tf2))
  <2> DEFINE b == Core(op, "length", cnt, depth, 1, prev, <<>>, file, tf)
             c == Core(op, "NOTHING", cnt, depth, 1, prev, <<>>, file2, tf2)
             file1 == [file EXCEPT !.length = n]
  <2>1. Reads(hear, a, Str("length"), b)
    BY <1>1, KeyReads
  <2>2. NumberSets("length", 1, file, tf, n, file1, tf)
    BY <1>1, NumbersSet
  <2>3. Finishes("NOTHING", <<>>, file1, tf, "NOTHING", <<>>, file2, tf2)
    BY <1>3
  <2> HIDE DEF file1
  <2>4. cnt \in Nat /\ cnt > 0
    OBVIOUS
  <2>5. Reads(hear, b, Number(n), c)
    BY <2>2, <2>3, <2>4, NumberReads
  <2>6. Str("length") \in Seq(Tokens) /\ Number(n) \in Seq(Tokens)
    BY <1>2, Typed
  <2> HIDE DEF a, b, c
  <2> QED
    BY <2>1, <2>5, <2>6, TwoRead DEF c
<1>4. ASSUME NEW str \in Words
      PROVE  /\ Str("md5sum") \o Str(str) \in Seq(Tokens)
             /\ Reads(hear, a, Str("md5sum") \o Str(str),
                      Core(op, "NOTHING", cnt, depth, 1, prev, <<>>,
                        [file EXCEPT !.md5sum = str], tf))
  <2> DEFINE file2 == [file EXCEPT !.md5sum = str]
             b == Core(op, "md5sum", cnt, depth, 1, prev, <<>>, file, tf)
             c == Core(op, "NOTHING", cnt, depth, 1, prev, <<>>, file2, tf)
  <2>1. Reads(hear, a, Str("md5sum"), b)
    BY <1>1, KeyReads
  <2>2. ValueSets("md5sum", 1, prev, <<>>, file, tf, str, 0, "NOTHING", prev, <<>>, file2, tf)
    BY <1>1, ValuesSet
  <2> HIDE DEF file2
  <2>3. Reads(hear, b, Bytes(str, 0), c)
    BY <1>1, <2>2, ValueReads
  <2>4. Str("md5sum") \in Seq(Tokens) /\ Str(str) \in Seq(Tokens) /\ Str(str) = Bytes(str, 0)
    BY <1>2, Typed
  <2> HIDE DEF a, b, c
  <2>5. Reads(hear, b, Str(str), c)
    BY <2>3, <2>4
  <2>6. Str("md5sum") \o Str(str) \in Seq(Tokens) /\
          Reads(hear, a, Str("md5sum") \o Str(str), c)
    BY <2>1, <2>4, <2>5, TwoRead
  <2> QED
    BY <2>6 DEF c, file2
<1> QED
  BY <1>3, <1>4

LEMMA PathPart ==
  ASSUME NEW hear \in BOOLEAN, NEW op \in Stack, NEW cnt \in Nat \ {0}, NEW depth \in Nat,
           hear <=> depth > 0,
         NEW prev, NEW file, NEW tf, NEW path \in Seq(Words), path # <<>>,
         file.path = <<>> \/ file.length = 0
  PROVE  /\ Str("path") \o Strs(path) \in Seq(Tokens)
         /\ Reads(hear, Core(op, "NOTHING", cnt, depth, 1, prev, <<>>, file, tf), Str("path") \o
              Strs(path),
                  Core(op, "NOTHING", cnt, depth, 1, prev, <<>>, [file EXCEPT !.path = path],
                    tf))
<1> DEFINE file2 == [file EXCEPT !.path = path]
           lop == <<"l">> \o op
           deep == Deeper(depth)
           a == Core(op, "NOTHING", cnt, depth, 1, prev, <<>>, file, tf)
           b == Core(op, "path", cnt, depth, 1, prev, <<>>, file, tf)
           c == Core(op, "NOTHING", cnt, depth, 1, prev, <<>>, file2, tf)
           items == StrOf(path)
<1>1. "path" \in Keys \ {"files"} /\ "path" # "NOTHING" /\ "path" \in Words
  BY DEF Keys, Words
<1>2. deep \in Nat /\ (hear <=> deep > 0) /\ lop \in Stack
  BY Stacks DEF Deeper, Marks
<1>3. Reads(hear, a, Str("path"), b)
  BY <1>1, KeyReads
<1>4. items \in Seq(Seq(Tokens)) /\ Strs(path) = List(items)
  BY StrOfType
<1>5. Reads(hear, Core(lop, "path", cnt + 1, deep, 1, prev, <<>>, file, tf), FlattenSeq(items),
            Core(lop, "path", cnt + 1, deep, 1, prev, path, file, tf))
  <2> HIDE DEF lop, deep
  <2> QED
    BY <1>2, RoadReads
<1>6. Finishes("path", path, file, tf, "NOTHING", <<>>, file2, tf)
  BY FinishesPath
<1> HIDE DEF file2, items
<1>7. Reads(hear, b, List(items), Closed(op, "NOTHING", cnt, depth, 1, prev, <<>>, file2, tf))
  <2>1. cnt \in Nat
    OBVIOUS
  <2> QED
    BY <1>1, <1>4, <1>5, <1>6, <2>1, ListReads
<1>8. Closed(op, "NOTHING", cnt, depth, 1, prev, <<>>, file2, tf) = c
  <2>1. cnt > 0
    OBVIOUS
  <2> QED
    BY <2>1, Zenon DEF Closed
<1>9. Str("path") \in Seq(Tokens) /\ Strs(path) \in Seq(Tokens)
  BY <1>1, <1>4, Typed
<1>10. Reads(hear, b, Strs(path), c)
  BY <1>4, <1>7, <1>8, Zenon
<1> HIDE DEF a, b, c
<1>11. Str("path") \o Strs(path) \in Seq(Tokens) /\ Reads(hear, a, Str("path") \o Strs(path), c)
  BY <1>3, <1>9, <1>10, TwoRead
<1> QED
  BY <1>11 DEF a, c, file2

\* An entry that is there only in some torrents: read, or passed over.
LEMMA OptionCores ==
  ASSUME NEW hear \in BOOLEAN, NEW a, NEW b, NEW t, NEW option, NEW x, Reads(hear, a, x, b)
  PROVE  Reads(hear, a, Entry(t, option, x), a) \/ Reads(hear, a, Entry(t, option, x), b)
<1>1. CASE option \in t.options
  <2>1. Entry(t, option, x) = x
    BY <1>1, Zenon DEF Entry
  <2> QED
    BY <2>1, Zenon
<1>2. CASE option \notin t.options
  <2>1. Entry(t, option, x) = <<>>
    BY <1>2, Zenon DEF Entry
  <2>2. Reads(hear, a, <<>>, a)
    BY ReadsNothing, Zenon
  <2> QED
    BY <2>1, <2>2, Zenon
<1> QED
  BY <1>1, <1>2

LEMMA EntryType ==
  ASSUME NEW t, NEW option, NEW x \in Seq(Tokens)
  PROVE  Entry(t, option, x) \in Seq(Tokens)
<1>1. Entry(t, option, x) = x \/ Entry(t, option, x) = <<>>
  BY Zenon DEF Entry
<1>2. <<>> \in Seq(Tokens)
  OBVIOUS
<1> QED
  BY <1>1, <1>2

\* A torrent with its list of files and otherInfo as read so far.
Notes == Seq(Words \X Words)
Of(tf, files, notes) == [tf EXCEPT !.files = files, !.otherInfo = notes]
Noted(tf, key, str) == [tf EXCEPT !.otherInfo = Append(@, <<key, str>>)]

LEMMA OfFields ==
  ASSUME NEW tf \in Torrents, NEW files \in Seq(Files), NEW notes \in Notes
  PROVE  /\ Of(tf, files, notes) \in Torrents /\ Of(tf, files, notes).files = files
         /\ Of(tf, tf.files, tf.otherInfo) = tf /\ tf.otherInfo \in Notes
         /\ \A g : [Of(tf, files, notes) EXCEPT !.files = Append(@, g)]
                     = Of(tf, Append(files, g), notes)
         /\ \A key \in Words, str \in Words :
              \E more \in Notes : Noted(Of(tf, files, notes), key, str) = Of(tf, files, more)
<1>1. Of(tf, files, notes) \in Torrents
  BY DEF Of, Torrents, Notes
<1>2. Of(tf, files, notes).files = files /\ Of(tf, files, notes).otherInfo = notes
  BY DEF Of, Torrents
<1>3. Of(tf, tf.files, tf.otherInfo) = tf /\ tf.otherInfo \in Notes
  BY DEF Of, Torrents, Notes
<1>4. ASSUME NEW g
      PROVE  [Of(tf, files, notes) EXCEPT !.files = Append(@, g)] = Of(tf, Append(files, g), notes)
  <2> DEFINE more == Append(files, g)
             u == Of(tf, files, notes)
  <2>1. [u EXCEPT !.files = Append(@, g)] = [u EXCEPT !.files = more]
    BY <1>2, Zenon
  <2> HIDE DEF more
  <2>2. [u EXCEPT !.files = more] = Of(tf, more, notes)
    BY DEF Of, Torrents
  <2> QED
    BY <2>1, <2>2, Zenon DEF more
<1>5. ASSUME NEW key \in Words, NEW str \in Words
      PROVE  \E more \in Notes : Noted(Of(tf, files, notes), key, str) = Of(tf, files, more)
  <2> DEFINE x == <<key, str>>
             O == Words \X Words
             more == Append(notes, x)
             u == Of(tf, files, notes)
  <2>1. x \in O
    OBVIOUS
  <2> HIDE DEF x, O
  <2>2. more \in Notes
    BY <2>1 DEF Notes, O
  <2>3. [u EXCEPT !.otherInfo = Append(@, x)] = [u EXCEPT !.otherInfo = more]
    BY <1>2, Zenon
  <2>4. Noted(u, key, str) = [u EXCEPT !.otherInfo = more]
    BY <2>3, Zenon DEF Noted, x
  <2> HIDE DEF more
  <2>5. [u EXCEPT !.otherInfo = more] = Of(tf, files, more)
    BY DEF Of, Torrents
  <2> QED
    BY <2>2, <2>4, <2>5, Zenon
<1> QED
  BY <1>1, <1>2, <1>3, <1>4, <1>5

\* An "e" appends the file if it has both its parts.
Done(file, files, file2, files2) ==
  IF file.path # <<>> /\ file.length # 0
    THEN file2 = EmptyFile /\ files2 = Append(files, file)
    ELSE file2 = file /\ files2 = files

LEMMA DoneFinishes ==
  ASSUME NEW tf \in Torrents, NEW files \in Seq(Files), NEW notes \in Notes,
         NEW file, NEW file2, NEW files2, Done(file, files, file2, files2)
  PROVE  Finishes("NOTHING", <<>>, file, Of(tf, files, notes),
                  "NOTHING", <<>>, file2, Of(tf, files2, notes))
<1> DEFINE u == Of(tf, files, notes)
<1>1. CASE file.path # <<>> /\ file.length # 0
  <2> DEFINE v == [u EXCEPT !.files = Append(@, file)]
  <2>0. files2 = Append(files, file) /\ file2 = EmptyFile
    BY <1>1, Zenon DEF Done
  <2>01. v = Of(tf, Append(files, file), notes)
    BY OfFields
  <2>1. v = Of(tf, files2, notes) /\ file2 = EmptyFile
    BY <2>0, <2>01, Zenon
  <2> HIDE DEF u
  <2>2. Finishes("NOTHING", <<>>, file, u, "NOTHING", <<>>, EmptyFile, v)
    BY <1>1, FinishesFile
  <2> QED
    BY <2>1, <2>2, Zenon DEF u
<1>2. CASE ~(file.path # <<>> /\ file.length # 0)
  <2>1. file2 = file /\ files2 = files
    BY <1>2, Zenon DEF Done
  <2> HIDE DEF u
  <2>2. Finishes("NOTHING", <<>>, file, u, "NOTHING", <<>>, file, u)
    BY <1>2, FinishesNothing
  <2> QED
    BY <2>1, <2>2, Zenon DEF u
<1> QED
  BY <1>1, <1>2

LEMMA EmptyFields == EmptyFile \in Files /\ EmptyFile.length = 0 /\ EmptyFile.path = <<>>
<1> DEFINE e == ""
           p == <<>>
<1>1. e \in Words
  BY DEF Words
<1>2. p \in Seq(Words)
  OBVIOUS
<1>3. EmptyFile = [length |-> 0, path |-> p, md5sum |-> e]
  BY Zenon DEF EmptyFile
<1> HIDE DEF e, p
<1>4. EmptyFile \in Files /\ EmptyFile.length = 0 /\ EmptyFile.path = p
  BY <1>1, <1>2, <1>3 DEF Files
<1> QED
  BY <1>4 DEF p

\* A second "e" appends nothing.
LEMMA DoneAgain ==
  ASSUME NEW file, NEW files, NEW file2, NEW files2, Done(file, files, file2, files2)
  PROVE  Done(file2, files2, file2, files2)
<1>1. CASE file.path # <<>> /\ file.length # 0
  <2>1. file2 = EmptyFile /\ EmptyFile.length = 0
    BY <1>1, EmptyFields DEF Done
  <2> QED
    BY <2>1 DEF Done
<1>2. CASE ~(file.path # <<>> /\ file.length # 0)
  BY <1>2 DEF Done
<1> QED
  BY <1>1, <1>2

\* A key of a file that the parser does not know, and its string.
LEMMA UnknownTextPart ==
  ASSUME NEW hear \in BOOLEAN, NEW op \in Stack, NEW cnt \in Nat \ {0}, NEW depth \in Nat,
           hear <=> depth > 0,
         NEW prev, NEW file, NEW tf, NEW key \in Words \ Keys, NEW str \in Words
  PROVE  /\ Str(key) \o Str(str) \in Seq(Tokens)
         /\ Reads(hear, Core(op, "NOTHING", cnt, depth, 1, prev, <<>>, file, tf),
                  Str(key) \o Str(str),
                  Core(op, "NOTHING", cnt, depth, 1, "", <<>>, file, Noted(tf, key, str)))
<1> DEFINE tf2 == Noted(tf, key, str)
           a == Core(op, "NOTHING", cnt, depth, 1, prev, <<>>, file, tf)
           b == Core(op, "OTHER", cnt, depth, 1, key, <<>>, file, tf)
           c == Core(op, "NOTHING", cnt, depth, 1, "", <<>>, file, tf2)
<1>1. ValueSets("OTHER", 1, key, <<>>, file, tf, str, 0, "NOTHING", "", <<>>, file, tf2)
  BY ValuesSet DEF Noted
<1> HIDE DEF tf2
<1>2. Reads(hear, a, Str(key), b)
  BY UnknownReads
<1>3. Reads(hear, b, Bytes(str, 0), c)
  BY <1>1, ValueReads
<1>4. Str(key) \in Seq(Tokens) /\ Str(str) \in Seq(Tokens) /\ Str(str) = Bytes(str, 0)
  BY Typed
<1> HIDE DEF a, b, c
<1>5. Reads(hear, b, Str(str), c)
  BY <1>3, <1>4
<1>6. Str(key) \o Str(str) \in Seq(Tokens) /\ Reads(hear, a, Str(key) \o Str(str), c)
  BY <1>2, <1>4, <1>5, TwoRead
<1> QED
  BY <1>6 DEF a, c, tf2

\* ... and its integer, which is passed over.
LEMMA UnknownNumberPart ==
  ASSUME NEW hear \in BOOLEAN, NEW op \in Stack, NEW cnt \in Nat \ {0}, NEW depth \in Nat,
           hear <=> depth > 0,
         NEW prev, NEW file, file.path = <<>> \/ file.length = 0, NEW tf,
         NEW key \in Words \ Keys, NEW num \in Nat
  PROVE  /\ Str(key) \o Number(num) \in Seq(Tokens)
         /\ Reads(hear, Core(op, "NOTHING", cnt, depth, 1, prev, <<>>, file, tf),
                  Str(key) \o Number(num),
                  Core(op, "NOTHING", cnt, depth, 1, key, <<>>, file, tf))
<1> DEFINE a == Core(op, "NOTHING", cnt, depth, 1, prev, <<>>, file, tf)
           b == Core(op, "OTHER", cnt, depth, 1, key, <<>>, file, tf)
           c == Core(op, "NOTHING", cnt, depth, 1, key, <<>>, file, tf)
<1>1. NumberSets("OTHER", 1, file, tf, num, file, tf)
  BY NumbersSet
<1>2. Reads(hear, a, Str(key), b)
  BY UnknownReads
<1>3. Finishes("NOTHING", <<>>, file, tf, "NOTHING", <<>>, file, tf)
  BY FinishesNothing
<1>4. cnt \in Nat /\ cnt > 0
  OBVIOUS
<1>5. Reads(hear, b, Number(num), c)
  BY <1>1, <1>3, <1>4, NumberReads
<1>6. Str(key) \in Seq(Tokens) /\ Number(num) \in Seq(Tokens)
  BY Typed
<1> HIDE DEF a, b, c
<1>7. Str(key) \o Number(num) \in Seq(Tokens) /\ Reads(hear, a, Str(key) \o Number(num), c)
  BY <1>2, <1>5, <1>6, TwoRead
<1> QED
  BY <1>7 DEF a, c

\* ... and a list of one string; its "e" may append the file.
LEMMA UnknownListPart ==
  ASSUME NEW hear \in BOOLEAN, NEW op \in Stack, NEW cnt \in Nat \ {0}, NEW depth \in Nat,
           hear <=> depth > 0,
         NEW prev, NEW file, NEW tf, NEW key \in Words \ Keys, NEW str \in Words,
         NEW file2, NEW tf2,
         Finishes("NOTHING", <<>>, file, Noted(tf, key, str), "NOTHING", <<>>, file2, tf2)
  PROVE  /\ Str(key) \o Strs(<<str>>) \in Seq(Tokens)
         /\ Reads(hear, Core(op, "NOTHING", cnt, depth, 1, prev, <<>>, file, tf),
                  Str(key) \o Strs(<<str>>),
                  Core(op, "NOTHING", cnt, depth, 1, "", <<>>, file2, tf2))
<1> DEFINE lop == <<"l">> \o op
           deep == Deeper(depth)
           more == cnt + 1
           tfn == Noted(tf, key, str)
           items == StrOf(<<str>>)
           a == Core(op, "NOTHING", cnt, depth, 1, prev, <<>>, file, tf)
           b == Core(op, "OTHER", cnt, depth, 1, key, <<>>, file, tf)
           c == Core(op, "NOTHING", cnt, depth, 1, "", <<>>, file2, tf2)
           p == Core(lop, "OTHER", more, deep, 1, key, <<>>, file, tf)
           q == Core(lop, "NOTHING", more, deep, 1, "", <<>>, file, tfn)
<1>1. deep \in Nat /\ (hear <=> deep > 0) /\ lop \in Stack
  BY Stacks DEF Deeper, Marks
<1>2. ValueSets("OTHER", 1, key, <<>>, file, tf, str, 0, "NOTHING", "", <<>>, file, tfn)
  BY ValuesSet DEF Noted
<1>3. Finishes("NOTHING", <<>>, file, tfn, "NOTHING", <<>>, file2, tf2)
  OBVIOUS
<1> HIDE DEF tfn
<1>4. Reads(hear, p, Bytes(str, 0), q)
  <2> HIDE DEF lop, deep, more
  <2> DEFINE f == "OTHER"
             g == "NOTHING"
             r == <<>>
             e == ""
  <2>1. ValueSets(f, 1, key, r, file, tf, str, 0, g, e, r, file, tfn) /\ f # "NOTHING" /\ 0 \in Nat
    BY <1>2
  <2> HIDE DEF f, g, r, e
  <2>2. Reads(hear, Core(lop, f, more, deep, 1, key, r, file, tf), Bytes(str, 0),
              Core(lop, g, more, deep, 1, e, r, file, tfn))
    BY <1>1, <2>1, ValueReads
  <2> QED
    BY <2>2 DEF f, g, r, e
<1>5. /\ items \in Seq(Seq(Tokens)) /\ FlattenSeq(items) = Str(str) /\ Strs(<<str>>) = List(items)
      /\ Str(str) = Bytes(str, 0) /\ Str(key) \in Seq(Tokens)
  BY OneStr, Typed
<1> HIDE DEF items
<1>6. List(items) \in Seq(Tokens)
  BY <1>5, Typed
<1>7. Reads(hear, b, List(items), Closed(op, "NOTHING", cnt, depth, 1, "", <<>>, file2, tf2))
  <2>1. Reads(hear, p, FlattenSeq(items), q)
    BY <1>4, <1>5, Zenon
  <2>2. cnt \in Nat /\ "OTHER" # "NOTHING"
    OBVIOUS
  <2> QED
    BY <1>3, <1>5, <2>1, <2>2, ListReads
<1>8. Closed(op, "NOTHING", cnt, depth, 1, "", <<>>, file2, tf2) = c
  <2>1. cnt > 0
    OBVIOUS
  <2> QED
    BY <2>1, Zenon DEF Closed
<1>9. Reads(hear, a, Str(key), b)
  BY UnknownReads
<1>10. Reads(hear, b, Strs(<<str>>), c) /\ Strs(<<str>>) \in Seq(Tokens)
  BY <1>5, <1>6, <1>7, <1>8, Zenon
<1> HIDE DEF a, b, c
<1>11. Str(key) \o Strs(<<str>>) \in Seq(Tokens) /\ Reads(hear, a, Str(key) \o Strs(<<str>>), c)
  BY <1>5, <1>9, <1>10, TwoRead
<1> QED
  BY <1>11 DEF a, c

\* Such keys in some torrents: they add at most to otherInfo.
LEMMA TextOption ==
  ASSUME NEW hear \in BOOLEAN, NEW op \in Stack, NEW cnt \in Nat \ {0}, NEW depth \in Nat,
           hear <=> depth > 0,
         NEW prev, NEW file, NEW tf \in Torrents, NEW files \in Seq(Files), NEW notes \in Notes,
         NEW t, NEW key \in Words \ Keys, NEW str \in Words
  PROVE  \E prev2 : \E notes2 \in Notes :
           Reads(hear, Core(op, "NOTHING", cnt, depth, 1, prev, <<>>, file, Of(tf, files, notes)),
                 Entry(t, key, Str(key) \o Str(str)),
                 Core(op, "NOTHING", cnt, depth, 1, prev2, <<>>, file, Of(tf, files, notes2)))
<1> DEFINE core(e, n) == Core(op, "NOTHING", cnt, depth, 1, e, <<>>, file, Of(tf, files, n))
           u == Of(tf, files, notes)
           x == Str(key) \o Str(str)
<1>1. PICK more \in Notes : Noted(u, key, str) = Of(tf, files, more)
  BY OfFields
<1>2. Reads(hear, core(prev, notes), x, core("", more))
  <2> HIDE DEF u
  <2>1. Reads(hear, Core(op, "NOTHING", cnt, depth, 1, prev, <<>>, file, u), x,
              Core(op, "NOTHING", cnt, depth, 1, "", <<>>, file, Noted(u, key, str)))
    BY UnknownTextPart
  <2> QED
    BY <1>1, <2>1, Zenon DEF u
<1> HIDE DEF core, x
<1>3. \/ Reads(hear, core(prev, notes), Entry(t, key, x), core(prev, notes))
      \/ Reads(hear, core(prev, notes), Entry(t, key, x), core("", more))
  BY <1>2, OptionCores
<1> QED
  BY <1>1, <1>3, Zenon DEF core, x

LEMMA NumberOption ==
  ASSUME NEW hear \in BOOLEAN, NEW op \in Stack, NEW cnt \in Nat \ {0}, NEW depth \in Nat,
           hear <=> depth > 0,
         NEW prev, NEW file, file.path = <<>> \/ file.length = 0, NEW tf,
         NEW t, NEW key \in Words \ Keys, NEW num \in Nat
  PROVE  \E prev2 :
           Reads(hear, Core(op, "NOTHING", cnt, depth, 1, prev, <<>>, file, tf),
                 Entry(t, key, Str(key) \o Number(num)),
                 Core(op, "NOTHING", cnt, depth, 1, prev2, <<>>, file, tf))
<1> DEFINE core(e) == Core(op, "NOTHING", cnt, depth, 1, e, <<>>, file, tf)
           x == Str(key) \o Number(num)
<1>1. Reads(hear, core(prev), x, core(key))
  BY UnknownNumberPart
<1> HIDE DEF core, x
<1>2. Reads(hear, core(prev), Entry(t, key, x), core(prev))
      \/ Reads(hear, core(prev), Entry(t, key, x), core(key))
  BY <1>1, OptionCores
<1> QED
  BY <1>2, Zenon DEF core, x

\* Whether the list's "e" appends the file or the next one does is the same.
LEMMA ListOption ==
  ASSUME NEW hear \in BOOLEAN, NEW op \in Stack, NEW cnt \in Nat \ {0}, NEW depth \in Nat,
           hear <=> depth > 0,
         NEW prev, NEW file, NEW tf \in Torrents, NEW files \in Seq(Files), NEW notes \in Notes,
         NEW t, NEW key \in Words \ Keys, NEW str \in Words,
         NEW file2, NEW files2 \in Seq(Files), Done(file, files, file2, files2)
  PROVE  \E prev2, file3 : \E files3 \in Seq(Files) : \E notes2 \in Notes :
           /\ Done(file3, files3, file2, files2)
           /\ Reads(hear,
                    Core(op, "NOTHING", cnt, depth, 1, prev, <<>>, file, Of(tf, files, notes)),
                    Entry(t, key, Str(key) \o Strs(<<str>>)),
                    Core(op, "NOTHING", cnt, depth, 1, prev2, <<>>, file3, Of(tf, files3, notes2)))
<1> DEFINE core(e, g, l, n) == Core(op, "NOTHING", cnt, depth, 1, e, <<>>, g, Of(tf, l, n))
           u == Of(tf, files, notes)
           x == Str(key) \o Strs(<<str>>)
<1>1. PICK more \in Notes : Noted(u, key, str) = Of(tf, files, more)
  BY OfFields
<1>2. Reads(hear, core(prev, file, files, notes), x, core("", file2, files2, more))
  <2> DEFINE v == Of(tf, files2, more)
             w == Of(tf, files, more)
  <2>1. Finishes("NOTHING", <<>>, file, w, "NOTHING", <<>>, file2, v)
    BY DoneFinishes
  <2>2. Finishes("NOTHING", <<>>, file, Noted(u, key, str), "NOTHING", <<>>, file2, v)
    BY <1>1, <2>1, Zenon
  <2> HIDE DEF u, v
  <2>3. Reads(hear, Core(op, "NOTHING", cnt, depth, 1, prev, <<>>, file, u), x,
              Core(op, "NOTHING", cnt, depth, 1, "", <<>>, file2, v))
    BY <2>2, UnknownListPart
  <2> QED
    BY <2>3, Zenon DEF u, v
<1>3. Done(file2, files2, file2, files2)
  BY DoneAgain
<1> HIDE DEF core, x
<1>4. \/ Reads(hear, core(prev, file, files, notes), Entry(t, key, x),
               core(prev, file, files, notes))
      \/ Reads(hear, core(prev, file, files, notes), Entry(t, key, x),
               core("", file2, files2, more))
  BY <1>2, OptionCores
<1> QED
  BY <1>1, <1>3, <1>4, Zenon DEF core, x

\* Between two dictionaries of "files".
InFiles(op, depth, prev, file, tf) == Core(op, "NOTHING", 1, depth, 1, prev, <<>>, file, tf)

WithSum(t, file) == IF "md5sum" \in t.options THEN [file EXCEPT !.md5sum = "md5"] ELSE file

Described == [length : Nat, path : Seq(Words) \ {<<>>}]

\* The seven entries of a file.
FilePart(t, f, k) ==
  CASE k = 1 -> Entry(t, "attr", Str("attr") \o Str("x"))
    [] k = 2 -> Str("length") \o Number(f.length)
    [] k = 3 -> Entry(t, "md5sum", Str("md5sum") \o Str("md5"))
    [] k = 4 -> Entry(t, "mtime", Str("mtime") \o Number(7))
    [] k = 5 -> Str("path") \o Strs(f.path)
    [] k = 6 -> Entry(t, "sha1", Str("sha1") \o Str("y"))
    [] k = 7 -> Entry(t, "symlink path", Str("symlink path") \o Strs(<<"x">>))

LEMMA FileStrings ==
  /\ {"attr", "mtime", "sha1", "symlink path"} \subseteq Words \ Keys
  /\ {"length", "md5sum", "path", "md5", "x", "y"} \subseteq Words
BY DEF Words, Keys

LEMMA FileEntryParts ==
  ASSUME NEW t, NEW f \in Described
  PROVE  /\ FileEntry(t, f) = Dict(<<FilePart(t, f, 1), FilePart(t, f, 2), FilePart(t, f, 3),
                                     FilePart(t, f, 4), FilePart(t, f, 5), FilePart(t, f, 6),
                                     FilePart(t, f, 7)>>)
         /\ \A k \in 1 .. 7 : FilePart(t, f, k) \in Seq(Tokens)
         /\ FilePart(t, f, 1) = Entry(t, "attr", Str("attr") \o Str("x"))
         /\ FilePart(t, f, 2) = Str("length") \o Number(f.length)
         /\ FilePart(t, f, 3) = Entry(t, "md5sum", Str("md5sum") \o Str("md5"))
         /\ FilePart(t, f, 4) = Entry(t, "mtime", Str("mtime") \o Number(7))
         /\ FilePart(t, f, 5) = Str("path") \o Strs(f.path)
         /\ FilePart(t, f, 6) = Entry(t, "sha1", Str("sha1") \o Str("y"))
         /\ FilePart(t, f, 7) = Entry(t, "symlink path", Str("symlink path") \o Strs(<<"x">>))
<1> DEFINE a == "attr"
           m == "mtime"
           s == "sha1"
           l == "symlink path"
           n == f.length
           path == f.path
<1>1. /\ FilePart(t, f, 1) = Entry(t, a, Str(a) \o Str("x"))
      /\ FilePart(t, f, 2) = Str("length") \o Number(n)
      /\ FilePart(t, f, 3) = Entry(t, "md5sum", Str("md5sum") \o Str("md5"))
      /\ FilePart(t, f, 4) = Entry(t, m, Str(m) \o Number(7))
      /\ FilePart(t, f, 5) = Str("path") \o Strs(path)
      /\ FilePart(t, f, 6) = Entry(t, s, Str(s) \o Str("y"))
      /\ FilePart(t, f, 7) = Entry(t, l, Str(l) \o Strs(<<"x">>))
  BY DEF FilePart
<1>2. a \in Words /\ m \in Words /\ s \in Words /\ l \in Words
      /\ "length" \in Words /\ "md5sum" \in Words /\ "path" \in Words /\ "md5" \in Words
      /\ "x" \in Words /\ "y" \in Words
  BY FileStrings
<1>3. n \in Nat /\ path \in Seq(Words) /\ 7 \in Nat
  BY DEF Described
<1>4. FileEntry(t, f) = Dict(<<FilePart(t, f, 1), FilePart(t, f, 2), FilePart(t, f, 3),
                               FilePart(t, f, 4), FilePart(t, f, 5), FilePart(t, f, 6),
                               FilePart(t, f, 7)>>)
  BY <1>1, Zenon DEF FileEntry
<1> HIDE DEF a, m, s, l, n, path
<1>5. \A str \in Words : Str(str) \in Seq(Tokens)
  BY Typed
<1>6. Number(n) \in Seq(Tokens) /\ Number(7) \in Seq(Tokens)
  BY <1>3, Typed
<1>7. Strs(path) \in Seq(Tokens)
  BY <1>3, StrOfType, Typed
<1>8. Strs(<<"x">>) \in Seq(Tokens)
  <2> DEFINE x == "x"
  <2>1. x \in Words
    BY <1>2
  <2> HIDE DEF x
  <2>2. Strs(<<x>>) = List(StrOf(<<x>>)) /\ StrOf(<<x>>) \in Seq(Seq(Tokens))
    BY <2>1, OneStr
  <2>3. Strs(<<x>>) \in Seq(Tokens)
    BY <2>2, Typed, Zenon
  <2> QED
    BY <2>3 DEF x
<1>9. \A u, v \in Seq(Tokens) : u \o v \in Seq(Tokens)
  OBVIOUS
<1>10. \A option : \A x \in Seq(Tokens) : Entry(t, option, x) \in Seq(Tokens)
  BY EntryType
<1>11. FilePart(t, f, 1) \in Seq(Tokens)
  <2>1. Str(a) \o Str("x") \in Seq(Tokens)
    BY <1>2, <1>5, <1>9, Zenon
  <2>2. Entry(t, a, Str(a) \o Str("x")) \in Seq(Tokens)
    BY <1>10, <2>1, Zenon
  <2> QED
    BY <1>1, <2>2, Zenon
<1>12. FilePart(t, f, 2) \in Seq(Tokens)
  BY <1>1, <1>2, <1>5, <1>6, <1>9, Zenon
<1>13. FilePart(t, f, 3) \in Seq(Tokens)
  <2>1. Str("md5sum") \o Str("md5") \in Seq(Tokens)
    BY <1>2, <1>5, <1>9, Zenon
  <2>2. Entry(t, "md5sum", Str("md5sum") \o Str("md5")) \in Seq(Tokens)
    BY <1>10, <2>1, Zenon
  <2> QED
    BY <1>1, <2>2, Zenon
<1>14. FilePart(t, f, 4) \in Seq(Tokens)
  <2>1. Str(m) \o Number(7) \in Seq(Tokens)
    BY <1>2, <1>5, <1>6, <1>9, Zenon
  <2>2. Entry(t, m, Str(m) \o Number(7)) \in Seq(Tokens)
    BY <1>10, <2>1, Zenon
  <2> QED
    BY <1>1, <2>2, Zenon
<1>15. FilePart(t, f, 5) \in Seq(Tokens)
  BY <1>1, <1>2, <1>5, <1>7, <1>9, Zenon
<1>16. FilePart(t, f, 6) \in Seq(Tokens)
  <2>1. Str(s) \o Str("y") \in Seq(Tokens)
    BY <1>2, <1>5, <1>9, Zenon
  <2>2. Entry(t, s, Str(s) \o Str("y")) \in Seq(Tokens)
    BY <1>10, <2>1, Zenon
  <2> QED
    BY <1>1, <2>2, Zenon
<1>17. FilePart(t, f, 7) \in Seq(Tokens)
  <2>1. Str(l) \o Strs(<<"x">>) \in Seq(Tokens)
    BY <1>2, <1>5, <1>8, <1>9, Zenon
  <2>2. Entry(t, l, Str(l) \o Strs(<<"x">>)) \in Seq(Tokens)
    BY <1>10, <2>1, Zenon
  <2> QED
    BY <1>1, <2>2, Zenon
<1>18. \A k \in 1 .. 7 : k = 1 \/ k = 2 \/ k = 3 \/ k = 4 \/ k = 5 \/ k = 6 \/ k = 7
  OBVIOUS
<1>19. \A k \in 1 .. 7 : FilePart(t, f, k) \in Seq(Tokens)
  BY <1>11, <1>12, <1>13, <1>14, <1>15, <1>16, <1>17, <1>18, Zenon
<1> QED
  BY <1>1, <1>4, <1>19, Zenon DEF a, m, s, l, n, path

\* A file may be appended after its length, and after its path.
FileDone(t, f, file, files, file2, files2, file3, files3) ==
  /\ Done([file EXCEPT !.length = f.length], files, file2, files2)
  /\ WithSum(t, file2).path = <<>> \/ WithSum(t, file2).length = 0
  /\ Done([WithSum(t, file2) EXCEPT !.path = f.path], files2, file3, files3)

\* One file of "files".
LEMMA FileReads ==
  ASSUME NEW hear \in BOOLEAN, NEW op \in Stack, NEW depth \in Nat, hear <=> depth > 0,
         NEW prev, NEW file, NEW tf \in Torrents, NEW files \in Seq(Files), NEW notes \in Notes,
         NEW t, NEW f \in Described,
         NEW file2, NEW files2 \in Seq(Files), NEW file3, NEW files3 \in Seq(Files),
         FileDone(t, f, file, files, file2, files2, file3, files3)
  PROVE  \E prev2 : \E notes2 \in Notes :
           Reads(hear, InFiles(op, depth, prev, file, Of(tf, files, notes)), FileEntry(t, f),
                 InFiles(op, depth, prev2, file3, Of(tf, files3, notes2)))
<1> DEFINE dop == <<"d">> \o op
           deep == Deeper(depth)
           core(e, g, l, n) == Core(dop, "NOTHING", 2, deep, 1, e, <<>>, g, Of(tf, l, n))
           len == f.length
           path == f.path
           file1 == [file EXCEPT !.length = len]
           summed == WithSum(t, file2)
           file4 == [summed EXCEPT !.path = path]
           part(k) == FilePart(t, f, k)
<1>1. deep \in Nat /\ (hear <=> deep > 0) /\ dop \in Stack /\ 2 \in Nat \ {0}
  <2>1. "d" \in Marks
    BY DEF Marks
  <2>2. dop \in Stack
    BY <2>1, Stacks
  <2> QED
    BY <2>2 DEF Deeper
<1>2. len \in Nat /\ path \in Seq(Words) /\ path # <<>>
  BY DEF Described
<1>3. /\ \A k \in 1 .. 7 : part(k) \in Seq(Tokens)
      /\ FileEntry(t, f) = Dict(<<part(1), part(2), part(3), part(4), part(5), part(6), part(7)>>)
  BY FileEntryParts
<1>4. Done(file1, files, file2, files2) /\ Done(file4, files2, file3, files3)
      /\ (summed.path = <<>> \/ summed.length = 0)
  BY Zenon DEF FileDone
<1>5. \E e1 : \E n1 \in Notes :
        Reads(hear, core(prev, file, files, notes), part(1), core(e1, file, files, n1))
  <2> DEFINE key == "attr"
             str == "x"
  <2>1. key \in Words \ Keys /\ str \in Words
    BY FileStrings
  <2>2. part(1) = Entry(t, key, Str(key) \o Str(str))
    BY FileEntryParts, Zenon
  <2> HIDE DEF dop, deep, key, str, part
  <2>3. \E e1 : \E n1 \in Notes :
          Reads(hear, Core(dop, "NOTHING", 2, deep, 1, prev, <<>>, file, Of(tf, files, notes)),
                Entry(t, key, Str(key) \o Str(str)),
                Core(dop, "NOTHING", 2, deep, 1, e1, <<>>, file, Of(tf, files, n1)))
    BY <1>1, <2>1, TextOption
  <2> QED
    BY <2>2, <2>3, Zenon
<1> HIDE DEF core, part, file1, file4, summed, len, path
<1>6. PICK e1 : \E n1 \in Notes :
        Reads(hear, core(prev, file, files, notes), part(1), core(e1, file, files, n1))
  BY <1>5, Zenon
<1>61. PICK n1 \in Notes :
         Reads(hear, core(prev, file, files, notes), part(1), core(e1, file, files, n1))
  BY <1>6, Zenon
<1>7. Reads(hear, core(e1, file, files, n1), part(2), core(e1, file2, files2, n1))
  <2>1. part(2) = Str("length") \o Number(len)
    BY FileEntryParts, Zenon DEF part, len
  <2> DEFINE u == Of(tf, files, n1)
             v == Of(tf, files2, n1)
  <2>2. Finishes("NOTHING", <<>>, file1, u, "NOTHING", <<>>, file2, v)
    BY <1>4, DoneFinishes
  <2> HIDE DEF u, v, dop, deep
  <2>3. Reads(hear, Core(dop, "NOTHING", 2, deep, 1, e1, <<>>, file, u),
              Str("length") \o Number(len),
              Core(dop, "NOTHING", 2, deep, 1, e1, <<>>, file2, v))
    BY <1>1, <1>2, <2>2, FileParts DEF file1
  <2> QED
    BY <2>1, <2>3, Zenon DEF core, u, v
<1>8. Reads(hear, core(e1, file2, files2, n1), part(3), core(e1, summed, files2, n1))
  <2> DEFINE u == Of(tf, files2, n1)
             str == "md5"
             y == Str("md5sum") \o Str(str)
             a == Core(dop, "NOTHING", 2, deep, 1, e1, <<>>, file2, u)
             b == Core(dop, "NOTHING", 2, deep, 1, e1, <<>>, [file2 EXCEPT !.md5sum = str], u)
  <2>0. str \in Words
    BY FileStrings
  <2>1. part(3) = Entry(t, "md5sum", y) /\ str \in Words
    BY FileEntryParts, <2>0, Zenon DEF part
  <2>2. CASE "md5sum" \in t.options
    <3>1. Entry(t, "md5sum", y) = y /\ summed = [file2 EXCEPT !.md5sum = str]
      BY <2>2, Zenon DEF Entry, WithSum, summed
    <3>2. Reads(hear, a, y, b)
      <4> HIDE DEF u, dop, deep, str
      <4> QED
        BY <1>1, <2>1, FileParts
    <3> QED
      BY <2>1, <3>1, <3>2, Zenon DEF core
  <2>3. CASE "md5sum" \notin t.options
    <3>1. Entry(t, "md5sum", y) = <<>> /\ summed = file2
      BY <2>3, Zenon DEF Entry, WithSum, summed
    <3>2. Reads(hear, a, <<>>, a)
      BY ReadsNothing, Zenon
    <3> QED
      BY <2>1, <3>1, <3>2, Zenon DEF core
  <2> QED
    BY <2>2, <2>3
<1>9. \E e4 : Reads(hear, core(e1, summed, files2, n1), part(4), core(e4, summed, files2, n1))
  <2> DEFINE key == "mtime"
             num == 7
             u == Of(tf, files2, n1)
  <2>0. key \in Words \ Keys /\ num \in Nat
    BY FileStrings
  <2>1. key \in Words \ Keys /\ num \in Nat /\ part(4) = Entry(t, key, Str(key) \o Number(num))
    BY FileEntryParts, <2>0, Zenon DEF part
  <2> HIDE DEF dop, deep, key, num, u
  <2>2. \E e4 : Reads(hear, Core(dop, "NOTHING", 2, deep, 1, e1, <<>>, summed, u),
                      Entry(t, key, Str(key) \o Number(num)),
                      Core(dop, "NOTHING", 2, deep, 1, e4, <<>>, summed, u))
    BY <1>1, <1>4, <2>1, NumberOption
  <2> QED
    BY <2>1, <2>2, Zenon DEF core, u
<1>10. PICK e4 : Reads(hear, core(e1, summed, files2, n1), part(4), core(e4, summed, files2, n1))
  BY <1>9, Zenon
<1>11. Reads(hear, core(e4, summed, files2, n1), part(5), core(e4, file4, files2, n1))
  <2> DEFINE u == Of(tf, files2, n1)
  <2>1. part(5) = Str("path") \o Strs(path)
    BY FileEntryParts, Zenon DEF part, path
  <2> HIDE DEF dop, deep, u
  <2>2. Reads(hear, Core(dop, "NOTHING", 2, deep, 1, e4, <<>>, summed, u),
              Str("path") \o Strs(path),
              Core(dop, "NOTHING", 2, deep, 1, e4, <<>>, [summed EXCEPT !.path = path], u))
    BY <1>1, <1>2, <1>4, PathPart
  <2> QED
    BY <2>1, <2>2, Zenon DEF core, u, file4
<1>12. \E e6 : \E n6 \in Notes :
         Reads(hear, core(e4, file4, files2, n1), part(6), core(e6, file4, files2, n6))
  <2> DEFINE key == "sha1"
             str == "y"
  <2>1. key \in Words \ Keys /\ str \in Words
    BY FileStrings
  <2>2. part(6) = Entry(t, key, Str(key) \o Str(str))
    BY FileEntryParts, Zenon DEF part
  <2> HIDE DEF dop, deep, key, str
  <2>3. \E e6 : \E n6 \in Notes :
          Reads(hear, Core(dop, "NOTHING", 2, deep, 1, e4, <<>>, file4, Of(tf, files2, n1)),
                Entry(t, key, Str(key) \o Str(str)),
                Core(dop, "NOTHING", 2, deep, 1, e6, <<>>, file4, Of(tf, files2, n6)))
    BY <1>1, <2>1, TextOption
  <2> QED
    BY <2>2, <2>3, Zenon DEF core
<1>13. PICK e6 : \E n6 \in Notes :
         Reads(hear, core(e4, file4, files2, n1), part(6), core(e6, file4, files2, n6))
  BY <1>12, Zenon
<1>131. PICK n6 \in Notes :
          Reads(hear, core(e4, file4, files2, n1), part(6), core(e6, file4, files2, n6))
  BY <1>13, Zenon
<1>14. \E e7, g7 : \E l7 \in Seq(Files) : \E n7 \in Notes :
         /\ Done(g7, l7, file3, files3)
         /\ Reads(hear, core(e6, file4, files2, n6), part(7), core(e7, g7, l7, n7))
  <2> DEFINE key == "symlink path"
             str == "x"
  <2>1. key \in Words \ Keys /\ str \in Words
    BY FileStrings
  <2>2. part(7) = Entry(t, key, Str(key) \o Strs(<<str>>))
    BY FileEntryParts, Zenon DEF part
  <2> HIDE DEF dop, deep, key, str
  <2>3. \E e7, g7 : \E l7 \in Seq(Files) : \E n7 \in Notes :
         /\ Done(g7, l7, file3, files3)
         /\ Reads(hear, Core(dop, "NOTHING", 2, deep, 1, e6, <<>>, file4, Of(tf, files2, n6)),
                  Entry(t, key, Str(key) \o Strs(<<str>>)),
                  Core(dop, "NOTHING", 2, deep, 1, e7, <<>>, g7, Of(tf, l7, n7)))
    <3> DEFINE y == Strs(<<str>>)
    <3>1. Done(file4, files2, file3, files3)
      BY <1>4
    <3> HIDE DEF file4
    <3> QED
      BY <1>1, <2>1, <3>1, ListOption, SMTT(40)
  <2> QED
    BY <2>2, <2>3, Zenon DEF core
<1>15. PICK e7, g7 : \E l7 \in Seq(Files) : \E n7 \in Notes :
         /\ Done(g7, l7, file3, files3)
         /\ Reads(hear, core(e6, file4, files2, n6), part(7), core(e7, g7, l7, n7))
  BY <1>14, Zenon
<1>151. PICK l7 \in Seq(Files) : \E n7 \in Notes :
          /\ Done(g7, l7, file3, files3)
          /\ Reads(hear, core(e6, file4, files2, n6), part(7), core(e7, g7, l7, n7))
  BY <1>15, Zenon
<1>152. PICK n7 \in Notes :
          /\ Done(g7, l7, file3, files3)
          /\ Reads(hear, core(e6, file4, files2, n6), part(7), core(e7, g7, l7, n7))
  BY <1>151, Zenon
<1> DEFINE entries == <<part(1), part(2), part(3), part(4), part(5), part(6), part(7)>>
<1>16. /\ entries \in Seq(Seq(Tokens))
       /\ Reads(hear, core(prev, file, files, notes), FlattenSeq(entries), core(e7, g7, l7, n7))
  <2>1. /\ part(1) \in Seq(Tokens) /\ part(2) \in Seq(Tokens) /\ part(3) \in Seq(Tokens)
        /\ part(4) \in Seq(Tokens) /\ part(5) \in Seq(Tokens) /\ part(6) \in Seq(Tokens)
        /\ part(7) \in Seq(Tokens)
    BY <1>3
  <2> DEFINE x1 == part(1)
             x2 == part(2)
             x3 == part(3)
             x4 == part(4)
             x5 == part(5)
             x6 == part(6)
             x7 == part(7)
             p1 == core(prev, file, files, notes)
             p2 == core(e1, file, files, n1)
             p3 == core(e1, file2, files2, n1)
             p4 == core(e1, summed, files2, n1)
             p5 == core(e4, summed, files2, n1)
             p6 == core(e4, file4, files2, n1)
             p7 == core(e6, file4, files2, n6)
             p8 == core(e7, g7, l7, n7)
  <2>2. /\ Reads(hear, p1, x1, p2) /\ Reads(hear, p2, x2, p3) /\ Reads(hear, p3, x3, p4)
        /\ Reads(hear, p4, x4, p5) /\ Reads(hear, p5, x5, p6) /\ Reads(hear, p6, x6, p7)
        /\ Reads(hear, p7, x7, p8)
    BY <1>61, <1>7, <1>8, <1>10, <1>11, <1>131, <1>152, Zenon
  <2>3. /\ x1 \in Seq(Tokens) /\ x2 \in Seq(Tokens) /\ x3 \in Seq(Tokens)
        /\ x4 \in Seq(Tokens) /\ x5 \in Seq(Tokens) /\ x6 \in Seq(Tokens)
        /\ x7 \in Seq(Tokens)
    BY <2>1, Zenon
  <2>4. entries = <<x1, x2, x3, x4, x5, x6, x7>>
    OBVIOUS
  <2> HIDE DEF x1, x2, x3, x4, x5, x6, x7, p1, p2, p3, p4, p5, p6, p7, p8, entries
  <2>5. /\ <<x1, x2, x3, x4, x5, x6, x7>> \in Seq(Seq(Tokens))
        /\ Reads(hear, p1, FlattenSeq(<<x1, x2, x3, x4, x5, x6, x7>>), p8)
    BY <2>2, <2>3, ReadsSeven
  <2> QED
    BY <2>4, <2>5, Zenon DEF p1, p8
<1> HIDE DEF entries
<1>17. Finishes("NOTHING", <<>>, g7, Of(tf, l7, n7), "NOTHING", <<>>, file3, Of(tf, files3, n7))
  BY <1>152, DoneFinishes
<1> DEFINE u == Of(tf, files, notes)
           v == Of(tf, l7, n7)
           w == Of(tf, files3, n7)
<1>18. Reads(hear, InFiles(op, depth, prev, file, u), Dict(entries),
             InFiles(op, depth, e7, file3, w))
  <2>1. 1 + 1 = 2 /\ 1 \in Nat \ {0}
    OBVIOUS
  <2>2. Reads(hear, Core(dop, "NOTHING", 2, deep, 1, prev, <<>>, file, u), FlattenSeq(entries),
              Core(dop, "NOTHING", 2, deep, 1, e7, <<>>, g7, v))
    BY <1>16, Zenon DEF core, u, v
  <2>3. Finishes("NOTHING", <<>>, g7, v, "NOTHING", <<>>, file3, w)
    BY <1>17
  <2> HIDE DEF u, v, w
  <2> QED
    BY <1>16, <2>1, <2>2, <2>3, DictReads DEF InFiles
<1>19. FileEntry(t, f) = Dict(entries)
  BY <1>3, Zenon DEF entries
<1> QED
  BY <1>18, <1>19, Zenon DEF u, w

\* What a file adds to the list, and what of it is left over for the next.
Grown(files, f, file, files2, file2) ==
  /\ file2 \in Files /\ file2.length = 0 /\ files2 \in Seq(Files)
  /\ f.length = 0 => files2 = files
  /\ f.length # 0 => \E g \in Files :
       /\ files2 = Append(files, g) /\ g.length = f.length
       /\ file.path = <<>> => g.path = f.path /\ file2.path = <<>>

LEMMA LengthFields ==
  ASSUME NEW file \in Files, NEW n \in Nat
  PROVE  /\ [file EXCEPT !.length = n] \in Files
         /\ [file EXCEPT !.length = n].length = n
         /\ [file EXCEPT !.length = n].path = file.path
BY DEF Files

LEMMA PathFields ==
  ASSUME NEW file \in Files, NEW path \in Seq(Words)
  PROVE  /\ [file EXCEPT !.path = path] \in Files
         /\ [file EXCEPT !.path = path].length = file.length
         /\ [file EXCEPT !.path = path].path = path
BY DEF Files

LEMMA SumFields ==
  ASSUME NEW file \in Files, NEW t
  PROVE  /\ WithSum(t, file) \in Files /\ WithSum(t, file).length = file.length
         /\ WithSum(t, file).path = file.path
<1> DEFINE summed == [file EXCEPT !.md5sum = "md5"]
<1>1. "md5" \in Words
  BY DEF Words
<1>2. summed \in Files /\ summed.length = file.length /\ summed.path = file.path
  BY <1>1 DEF Files
<1> HIDE DEF summed
<1>3. WithSum(t, file) = summed \/ WithSum(t, file) = file
  BY Zenon DEF WithSum, summed
<1> QED
  BY <1>2, <1>3

LEMMA OneFile ==
  ASSUME NEW hear \in BOOLEAN, NEW op \in Stack, NEW depth \in Nat, hear <=> depth > 0,
         NEW prev, NEW file \in Files, file.length = 0,
         NEW tf \in Torrents, NEW files \in Seq(Files), NEW notes \in Notes,
         NEW t, NEW f \in Described
  PROVE  \E files2, file2, prev2 : \E notes2 \in Notes :
           /\ Grown(files, f, file, files2, file2)
           /\ Reads(hear, InFiles(op, depth, prev, file, Of(tf, files, notes)), FileEntry(t, f),
                    InFiles(op, depth, prev2, file2, Of(tf, files2, notes2)))
<1> DEFINE n == f.length
           path == f.path
           file1 == [file EXCEPT !.length = n]
<1>1. n \in Nat /\ path \in Seq(Words) /\ path # <<>>
  BY DEF Described
<1>2. file1 \in Files /\ file1.length = n /\ file1.path = file.path
  BY <1>1, LengthFields
<1>3. EmptyFile \in Files /\ EmptyFile.length = 0 /\ EmptyFile.path = <<>>
  BY EmptyFields
<1>4. \A g \in Files : Append(files, g) \in Seq(Files)
  OBVIOUS
<1>5. ASSUME NEW g \in Files
      PROVE  /\ WithSum(t, g) \in Files /\ WithSum(t, g).length = g.length
             /\ WithSum(t, g).path = g.path
             /\ [g EXCEPT !.path = path] \in Files /\ [g EXCEPT !.path = path].length = g.length
             /\ [g EXCEPT !.path = path].path = path
  <2>1. WithSum(t, g) \in Files /\ WithSum(t, g).length = g.length
        /\ WithSum(t, g).path = g.path
    BY SumFields, Zenon
  <2>2. path \in Seq(Words)
    BY <1>1
  <2> HIDE DEF path
  <2>3. [g EXCEPT !.path = path] \in Files /\ [g EXCEPT !.path = path].length = g.length
        /\ [g EXCEPT !.path = path].path = path
    BY <2>2, PathFields
  <2> QED
    BY <2>1, <2>3, Zenon
<1> SUFFICES ASSUME TRUE
             PROVE  \E file2, file3 : \E files2, files3 \in Seq(Files) :
                      /\ FileDone(t, f, file, files, file2, files2, file3, files3)
                      /\ Grown(files, f, file, files3, file3)
  <2>0. PICK file2, file3 : \E files2, files3 \in Seq(Files) :
               /\ FileDone(t, f, file, files, file2, files2, file3, files3)
               /\ Grown(files, f, file, files3, file3)
    BY Zenon
  <2>1. PICK files2, files3 \in Seq(Files) :
               /\ FileDone(t, f, file, files, file2, files2, file3, files3)
               /\ Grown(files, f, file, files3, file3)
    BY <2>0, Zenon
  <2>2. \E prev2 : \E notes2 \in Notes :
          Reads(hear, InFiles(op, depth, prev, file, Of(tf, files, notes)), FileEntry(t, f),
                InFiles(op, depth, prev2, file3, Of(tf, files3, notes2)))
    <3> HIDE DEF n, path, file1
    <3>1. FileDone(t, f, file, files, file2, files2, file3, files3)
      BY <2>1, Zenon
    <3> QED
      BY <3>1, FileReads, ZenonT(60)
  <2> QED
    BY <2>1, <2>2, Zenon
<1> HIDE DEF n, path, file1
<1>6. CASE n = 0 \/ file.path = <<>>
  <2> DEFINE summed == WithSum(t, file1)
             file4 == [summed EXCEPT !.path = path]
  <2>1. summed \in Files /\ summed.length = n /\ summed.path = file.path
    BY <1>2, <1>5, Zenon
  <2>2. file4 \in Files /\ file4.length = n /\ file4.path = path
    <3> HIDE DEF summed
    <3> QED
      BY <1>5, <2>1, Zenon
  <2>3. Done(file1, files, file1, files)
    BY <1>2, <1>6 DEF Done
  <2>4. summed.path = <<>> \/ summed.length = 0
    BY <1>6, <2>1
  <2> HIDE DEF file4
  <2>5. CASE n = 0
    <3>1. Done(file4, files, file4, files)
      BY <2>2, <2>5 DEF Done
    <3>2. Grown(files, f, file, files, file4)
      BY <1>2, <2>2, <2>5, Zenon DEF Grown, n
    <3> QED
      BY <2>3, <2>4, <3>1, <3>2, Zenon DEF file4, FileDone, file1, n, path
  <2>6. CASE n # 0
    <3> DEFINE more == Append(files, file4)
    <3>1. Done(file4, files, EmptyFile, more) /\ more \in Seq(Files)
      BY <1>1, <1>4, <2>2, <2>6 DEF Done
    <3>2. Grown(files, f, file, more, EmptyFile)
      BY <1>3, <2>2, <2>6, <3>1, Zenon DEF Grown, n, path
    <3> HIDE DEF more
    <3> QED
      BY <2>3, <2>4, <3>1, <3>2, Zenon DEF file4, FileDone, file1, n, path
  <2> QED
    BY <2>5, <2>6
<1>7. CASE n # 0 /\ file.path # <<>>
  <2> DEFINE summed == WithSum(t, EmptyFile)
             file4 == [summed EXCEPT !.path = path]
             more == Append(files, file1)
  <2>1. summed \in Files /\ summed.length = 0 /\ summed.path = <<>>
    BY <1>3, <1>5, Zenon
  <2>2. file4 \in Files /\ file4.length = 0
    <3> HIDE DEF summed
    <3> QED
      BY <1>5, <2>1, Zenon
  <2>3. Done(file1, files, EmptyFile, more) /\ more \in Seq(Files)
    BY <1>2, <1>4, <1>7 DEF Done
  <2> HIDE DEF file4
  <2>4. Done(file4, more, file4, more)
    BY <2>2 DEF Done
  <2>5. Grown(files, f, file, more, file4)
    BY <1>2, <1>7, <2>2, <2>3, Zenon DEF Grown, n
  <2> HIDE DEF more
  <2> QED
    BY <2>1, <2>3, <2>4, <2>5, Zenon DEF file4, FileDone, file1, n, path
<1> QED
  BY <1>6, <1>7

----------------------------------------------------------------------------
(* The list of files.                                                       *)

LengthsOf(files) == [k \in DOMAIN files |-> files[k].length]
Full(files) == [k \in DOMAIN files |-> IF files[k].length > 0 THEN <<files[k].length>>
  ELSE <<>>]

\* The parser's files after the first k of the torrent's.
Found(files, k, lens, files2, file2) ==
  /\ files2 \in Seq(Files) /\ file2 \in Files /\ file2.length = 0
  /\ LengthsOf(files2) = lens[k]
  /\ (\A j \in 1 .. k : files[j].length # 0) =>
       /\ file2.path = <<>> /\ Len(files2) = k
       /\ \A j \in 1 .. k : files2[j].path = files[j].path

LEMMA LengthsAppend ==
  ASSUME NEW files \in Seq(Files), NEW g \in Files
  PROVE  /\ LengthsOf(files) \in Seq(Nat) /\ Len(LengthsOf(files)) = Len(files)
         /\ LengthsOf(Append(files, g)) = Append(LengthsOf(files), g.length)
<1> DEFINE more == Append(files, g)
           a == LengthsOf(files)
           b == LengthsOf(more)
           n == Len(files)
           c == Append(a, g.length)
<1>1. n \in Nat /\ DOMAIN files = 1 .. n /\ \A k \in 1 .. n : files[k] \in Files
  OBVIOUS
<1>2. more \in Seq(Files) /\ Len(more) = n + 1 /\ DOMAIN more = 1 .. n + 1
      /\ more[n + 1] = g /\ \A k \in 1 .. n : more[k] = files[k]
  OBVIOUS
<1> HIDE DEF more, n
<1>3. \A f \in Files : f.length \in Nat
  BY DEF Files
<1>4. a = [k \in 1 .. n |-> files[k].length] /\ b = [k \in 1 .. n + 1 |-> more[k].length]
  BY <1>1, <1>2, Zenon DEF LengthsOf
<1>5. a \in Seq(Nat) /\ Len(a) = n
  BY <1>1, <1>3, <1>4
<1>6. \A k \in 1 .. n : a[k] = files[k].length
  BY <1>4
<1> HIDE DEF a
<1>7. c \in [1 .. n + 1 -> Nat] /\ c[n + 1] = g.length /\ \A k \in 1 .. n : c[k] = a[k]
  <2> DEFINE x == g.length
  <2>1. x \in Nat
    BY <1>3
  <2> HIDE DEF x
  <2>2. Append(a, x) \in Seq(Nat) /\ Len(Append(a, x)) = n + 1
    BY <1>5, <2>1
  <2>3. Append(a, x)[n + 1] = x
    BY <1>5, <2>1
  <2>4. \A k \in 1 .. n : Append(a, x)[k] = a[k]
    BY <1>5, <2>1
  <2>5. Append(a, x) \in [1 .. n + 1 -> Nat]
    <3> DEFINE w == Append(a, x)
    <3> HIDE DEF w
    <3>1. w \in Seq(Nat) /\ Len(w) = n + 1
      BY <2>2 DEF w
    <3>2. w \in [1 .. Len(w) -> Nat]
      BY <3>1
    <3> QED
      BY <3>1, <3>2 DEF w
  <2> QED
    BY <2>3, <2>4, <2>5, Zenon DEF x
<1>8. \A k \in 1 .. n + 1 : more[k] \in Files /\ b[k] = more[k].length
  BY <1>1, <1>2, <1>4
<1>9. b \in [1 .. n + 1 -> Nat]
  <2> DEFINE h(k) == more[k].length
  <2>1. \A k \in 1 .. n + 1 : h(k) \in Nat
    BY <1>3, <1>8
  <2>2. b = [k \in 1 .. n + 1 |-> h(k)]
    BY <1>4
  <2> HIDE DEF h, b
  <2> QED
    BY <2>1, <2>2
<1> HIDE DEF b, c
<1>10. EqualOn(b, c, 1 .. n + 1)
  <2> SUFFICES ASSUME NEW k \in 1 .. n + 1 PROVE b[k] = c[k]
    BY DEF EqualOn
  <2>1. CASE k = n + 1
    BY <1>2, <1>7, <1>8, <2>1
  <2>2. CASE k \in 1 .. n
    BY <1>2, <1>6, <1>7, <1>8, <2>2
  <2> QED
    BY <1>1, <2>1, <2>2
<1>11. b = c
  BY <1>7, <1>9, <1>10, SameFunction
<1> QED
  BY <1>5, <1>11 DEF a, b, c, n, more

LEMMA FullType ==
  ASSUME NEW files \in Seq(Described)
  PROVE  /\ Full(files) \in Seq(Seq(Nat)) /\ Len(Full(files)) = Len(files)
         /\ \A k \in 1 .. Len(files) :
              /\ files[k] \in Described /\ files[k].length \in Nat
              /\ files[k].length = 0 => Full(files)[k] = <<>>
              /\ files[k].length # 0 => Full(files)[k] = <<files[k].length>>
<1> DEFINE n == Len(files)
           p(k) == IF files[k].length > 0 THEN <<files[k].length>> ELSE <<>>
           Q == Seq(Nat)
<1>1. n \in Nat /\ DOMAIN files = 1 .. n /\ \A k \in 1 .. n : files[k] \in Described
  OBVIOUS
<1> HIDE DEF n
<1>2. ASSUME NEW k \in 1 .. n
      PROVE  /\ files[k].length \in Nat /\ p(k) \in Q
             /\ files[k].length = 0 => p(k) = <<>>
             /\ files[k].length # 0 => p(k) = <<files[k].length>>
  <2> DEFINE l == files[k].length
  <2>1. l \in Nat
    BY <1>1 DEF Described
  <2> HIDE DEF l
  <2>2. l = 0 => ~(l > 0)
    BY <2>1
  <2>3. l # 0 => l > 0
    BY <2>1
  <2>4. <<l>> \in Q /\ <<>> \in Q
    BY <2>1
  <2> HIDE DEF Q
  <2> QED
    BY <2>1, <2>2, <2>3, <2>4, Zenon DEF l
<1>3. Full(files) = [k \in 1 .. n |-> p(k)]
  BY <1>1 DEF Full
<1> HIDE DEF p, Q
<1>4. Full(files) \in Seq(Q) /\ Len(Full(files)) = n
  BY <1>1, <1>2, <1>3
<1>5. \A k \in 1 .. n : Full(files)[k] = p(k)
  BY <1>3
<1> QED
  BY <1>1, <1>2, <1>4, <1>5, Zenon DEF n, p, Q

LEMMA FoundGrows ==
  ASSUME NEW files \in Seq(Described), NEW lens, Concatenates(lens, Nat, Full(files)),
         NEW k \in 1 .. Len(files), NEW files2, NEW file2,
           Found(files, k - 1, lens, files2, file2),
         NEW files3, NEW file3, Grown(files2, files[k], file2, files3, file3)
  PROVE  Found(files, k, lens, files3, file3)
<1> DEFINE f == files[k]
           full == Full(files)
<1>1. files2 \in Seq(Files) /\ file2 \in Files /\ file2.length = 0 /\
        LengthsOf(files2) = lens[k - 1]
  BY Zenon DEF Found
<1>2. file3 \in Files /\ file3.length = 0 /\ files3 \in Seq(Files)
  BY Zenon DEF Grown
<1>3. f \in Described /\ f.length \in Nat /\ (f.length = 0 => full[k] = <<>>)
      /\ (f.length # 0 => full[k] = <<f.length>>) /\ Len(full)
           = Len(files) /\ full \in Seq(Seq(Nat))
  BY FullType, Zenon
<1> HIDE DEF full
<1>4. lens[k] = lens[k - 1] \o full[k] /\ lens[k - 1] \in Seq(Nat)
  <2>1. k \in 1 .. Len(full) /\ k - 1 \in 0 .. Len(full)
    BY <1>3
  <2> QED
    BY <2>1 DEF Concatenates, full
<1>5. k - 1 \in Nat /\ k \in Nat
  OBVIOUS
<1>6. CASE f.length = 0
  <2>1. files3 = files2
    BY <1>6, Zenon DEF Grown
  <2>2. lens[k] = lens[k - 1]
    <3>1. lens[k - 1] \o <<>> = lens[k - 1]
      BY <1>4, ConcatEmptySeq
    <3> QED
      BY <1>3, <1>4, <1>6, <3>1, Zenon
  <2>3. ~\A j \in 1 .. k : files[j].length # 0
    <3>1. k \in 1 .. k
      BY <1>5
    <3> QED
      BY <1>6, <3>1, Zenon
  <2> QED
    BY <1>1, <1>2, <2>1, <2>2, <2>3, Zenon DEF Found
<1>7. CASE f.length # 0
  <2>1. PICK g \in Files : /\ files3 = Append(files2, g) /\ g.length = f.length
                           /\ file2.path = <<>> => g.path = f.path /\ file3.path = <<>>
    BY <1>7, Zenon DEF Grown
  <2>2. LengthsOf(files3) = lens[k]
    <3>1. LengthsOf(files3) = Append(lens[k - 1], f.length)
      BY <1>1, <2>1, LengthsAppend
    <3>2. \A q \in Seq(Nat), x \in Nat : Append(q, x) = q \o <<x>>
      BY AppendIsConcat
    <3> QED
      BY <1>3, <1>4, <1>7, <3>1, <3>2, Zenon
  <2>3. ASSUME \A j \in 1 .. k : files[j].length # 0
        PROVE  /\ file3.path = <<>> /\ Len(files3) = k
               /\ \A j \in 1 .. k : files3[j].path = files[j].path
    <3>1. \A j \in 1 .. k - 1 : files[j].length # 0
      BY <1>5, <2>3
    <3>2. file2.path = <<>> /\ Len(files2) = k - 1 /\
            \A j \in 1 .. k - 1 : files2[j].path = files[j].path
      BY <3>1, Zenon DEF Found
    <3>3. files3[k] = g /\ Len(files3) = k /\ \A j \in 1 .. k - 1 : files3[j] = files2[j]
      BY <1>1, <1>5, <2>1, <3>2
    <3>4. ASSUME NEW j \in 1 .. k PROVE files3[j].path = files[j].path
      <4>1. CASE j = k
        BY <2>1, <3>2, <3>3, <4>1
      <4>2. CASE j \in 1 .. k - 1
        BY <3>2, <3>3, <4>2
      <4> QED
        BY <1>5, <4>1, <4>2
    <3> QED
      BY <2>1, <3>2, <3>3, <3>4
  <2> QED
    BY <1>2, <2>2, <2>3, Zenon DEF Found
<1> QED
  BY <1>6, <1>7

\* The files as ParserFindsAll promises them.
FilesRight(files, files2) ==
  /\ files2 \in Seq(Files) /\ LengthsOf(files2) = FlattenSeq(Full(files))
  /\ (\A k \in 1 .. Len(files) : files[k].length # 0) =>
       Len(files2) = Len(files) /\ \A k \in 1 .. Len(files) : files2[k].path = files[k].path

Entries(t) == [k \in DOMAIN t.files |-> FileEntry(t, t.files[k])]

LEMMA EntriesType ==
  ASSUME NEW t, t.files \in Seq(Described)
  PROVE  /\ Entries(t) \in Seq(Seq(Tokens)) /\ Len(Entries(t))
              = Len(t.files) /\ Len(t.files) \in Nat
         /\ \A k \in 1 .. Len(t.files) : Entries(t)[k]
              = FileEntry(t, t.files[k]) /\ t.files[k] \in Described
<1> DEFINE n == Len(t.files)
           Q == Seq(Tokens)
           p(k) == FileEntry(t, t.files[k])
<1>1. n \in Nat /\ DOMAIN t.files = 1 .. n /\ \A k \in 1 .. n : t.files[k] \in Described
  OBVIOUS
<1>2. \A f \in Described : FileEntry(t, f) \in Q
  <2> SUFFICES ASSUME NEW f \in Described PROVE FileEntry(t, f) \in Seq(Tokens)
    OBVIOUS
  <2> DEFINE part(k) == FilePart(t, f, k)
             R == Seq(Tokens)
             entries == <<part(1), part(2), part(3), part(4), part(5), part(6), part(7)>>
  <2>1. FileEntry(t, f) = Dict(entries) /\ \A k \in 1 .. 7 : part(k) \in R
    BY FileEntryParts
  <2>2. entries \in Seq(R)
    <3> HIDE DEF part, R
    <3> QED
      BY <2>1
  <2> HIDE DEF entries
  <2> QED
    BY <2>1, <2>2, Typed, Zenon DEF R
<1> HIDE DEF n, Q
<1>3. \A k \in 1 .. n : p(k) \in Q
  BY <1>1, <1>2, Zenon
<1>4. Entries(t) = [k \in 1 .. n |-> p(k)]
  BY <1>1 DEF Entries
<1> HIDE DEF p
<1>5. Entries(t) \in Seq(Q) /\ Len(Entries(t)) = n /\ \A k \in 1 .. n : Entries(t)[k] = p(k)
  BY <1>1, <1>3, <1>4
<1> QED
  BY <1>1, <1>5, Zenon DEF n, Q, p

\* All of them, by induction on their number.
LEMMA EachFileReads ==
  ASSUME NEW hear \in BOOLEAN, NEW op \in Stack, NEW depth \in Nat, hear <=> depth > 0,
         NEW prev, NEW tf \in Torrents, tf.files = <<>>, NEW t, t.files \in Seq(Described)
  PROVE  \E files2, file2, prev2 : \E notes2 \in Notes :
           /\ FilesRight(t.files, files2) /\ file2 \in Files /\ file2.length = 0
           /\ Reads(hear, InFiles(op, depth, prev, EmptyFile, tf), FlattenSeq(Entries(t)),
                    InFiles(op, depth, prev2, file2, Of(tf, files2, notes2)))
<1> DEFINE n == Len(t.files)
           parts == Entries(t)
           full == Full(t.files)
           a == InFiles(op, depth, prev, EmptyFile, tf)
<1>1. /\ parts \in Seq(Seq(Tokens)) /\ Len(parts) = n /\ n \in Nat
      /\ \A k \in 1 .. n : parts[k] = FileEntry(t, t.files[k]) /\ t.files[k] \in Described
  BY EntriesType
<1>2. full \in Seq(Seq(Nat)) /\ Len(full) = n
  BY FullType
<1> HIDE DEF parts, n, full
<1>3. PICK flat : Concatenates(flat, Tokens, parts)
  BY <1>1, FlattenSteps
<1>4. PICK lens : Concatenates(lens, Nat, full)
  BY <1>2, FlattenSteps
<1>5. /\ flat[0] = <<>> /\ FlattenSeq(parts) = flat[n] /\
           \A k \in 0 .. n : flat[k] \in Seq(Tokens)
      /\ \A k \in 1 .. n : flat[k] = flat[k - 1] \o parts[k]
  BY <1>1, <1>3 DEF Concatenates
<1>6. lens[0] = <<>> /\ FlattenSeq(full) = lens[n]
  BY <1>2, <1>4 DEF Concatenates
<1> DEFINE R(k, files2, file2, e, notes) ==
             Reads(hear, a, flat[k], InFiles(op, depth, e, file2, Of(tf, files2, notes)))
           P(k) == \E files2, file2, e : \E notes \in Notes :
             Found(t.files, k, lens, files2, file2) /\ R(k, files2, file2, e, notes)
           T == {k \in Nat : k <= n => P(k)}
<1>7. P(0)
  <2> DEFINE none == tf.files
             notes == tf.otherInfo
  <2>1. Found(t.files, 0, lens, <<>>, EmptyFile)
    <3>1. EmptyFile \in Files /\ EmptyFile.length = 0 /\ EmptyFile.path = <<>>
      BY EmptyFields
    <3>2. LengthsOf(<<>>) = <<>>
      BY DEF LengthsOf
    <3>3. <<>> \in Seq(Files) /\ Len(<<>>) = 0 /\ 1 .. 0 = {}
      OBVIOUS
    <3> QED
      BY <1>6, <3>1, <3>2, <3>3, Zenon DEF Found
  <2>2. notes \in Notes /\ Of(tf, none, notes) = tf
    <3>1. <<>> \in Seq(Files) /\ <<>> \in Notes
      BY DEF Notes
    <3> QED
      BY <3>1, OfFields
  <2>3. R(0, none, EmptyFile, prev, notes)
    <3>1. Reads(hear, a, <<>>, a)
      BY ReadsNothing, Zenon
    <3> QED
      BY <1>5, <2>2, <3>1, Zenon
  <2>4. none = <<>>
    OBVIOUS
  <2> QED
    BY <2>1, <2>2, <2>3, <2>4, Zenon
<1>8. ASSUME NEW k \in Nat, k + 1 <= n, P(k) PROVE P(k + 1)
  <2>0. PICK files2, file2, e : \E notes \in Notes :
          Found(t.files, k, lens, files2, file2) /\ R(k, files2, file2, e, notes)
    BY <1>8, Zenon
  <2>1. PICK notes \in Notes :
          Found(t.files, k, lens, files2, file2) /\ R(k, files2, file2, e, notes)
    BY <2>0, Zenon
  <2> DEFINE l == k + 1
             f == t.files[l]
             b == InFiles(op, depth, e, file2, Of(tf, files2, notes))
  <2>2. l \in 1 .. n /\ l - 1 = k /\ k \in 0 .. n
    BY <1>1, <1>8
  <2>3. files2 \in Seq(Files) /\ file2 \in Files /\ file2.length = 0
    BY <2>1, Zenon DEF Found
  <2>4. f \in Described /\ parts[l] = FileEntry(t, f)
    BY <1>1, <2>2
  <2> HIDE DEF f
  <2>5. FileEntry(t, f) \in Seq(Tokens)
    <3>1. parts[l] \in Seq(Tokens)
      BY <1>1, <2>2
    <3> QED
      BY <2>4, <3>1
  <2>6. \E files3, file3, e3 : \E notes3 \in Notes :
          /\ Grown(files2, f, file2, files3, file3)
          /\ Reads(hear, b, FileEntry(t, f),
                   InFiles(op, depth, e3, file3, Of(tf, files3, notes3)))
    BY <2>3, <2>4, OneFile
  <2>61. PICK files3, file3, e3 : \E notes3 \in Notes :
          /\ Grown(files2, f, file2, files3, file3)
          /\ Reads(hear, b, FileEntry(t, f),
                   InFiles(op, depth, e3, file3, Of(tf, files3, notes3)))
    BY <2>6, Zenon
  <2>7. PICK notes3 \in Notes :
          /\ Grown(files2, f, file2, files3, file3)
          /\ Reads(hear, b, FileEntry(t, f),
                   InFiles(op, depth, e3, file3, Of(tf, files3, notes3)))
    BY <2>61, Zenon
  <2>8. Found(t.files, l, lens, files3, file3)
    <3>1. Found(t.files, l - 1, lens, files2, file2) /\ l \in 1 .. Len(t.files)
          /\ Concatenates(lens, Nat, Full(t.files)) /\
               Grown(files2, t.files[l], file2, files3, file3)
      BY <1>4, <2>1, <2>2, <2>7, Zenon DEF f, n, full
    <3> HIDE DEF l
    <3> QED
      BY <3>1, FoundGrows
  <2>9. Reads(hear, a, flat[k], b) /\ flat[k] \in Seq(Tokens)
          /\ flat[l] = flat[k] \o FileEntry(t, f)
    BY <1>5, <2>1, <2>2, <2>4, Zenon
  <2>10. R(l, files3, file3, e3, notes3)
    <3> DEFINE c == InFiles(op, depth, e3, file3, Of(tf, files3, notes3))
    <3>1. Reads(hear, b, FileEntry(t, f), c)
      BY <2>7, Zenon
    <3> HIDE DEF a, b, c
    <3>2. Reads(hear, a, flat[k] \o FileEntry(t, f), c)
      BY <2>5, <2>9, <3>1, ReadsMore
    <3> QED
      BY <2>9, <3>2, Zenon DEF c
  <2> QED
    BY <2>8, <2>10, Zenon
<1> HIDE DEF P
<1>9. 0 \in T
  BY <1>7
<1>10. ASSUME NEW k \in Nat, k \in T PROVE k + 1 \in T
  <2> SUFFICES ASSUME k + 1 <= n PROVE P(k + 1)
    OBVIOUS
  <2>1. k <= n
    BY <1>1
  <2> QED
    BY <1>8, <1>10, <2>1
<1> HIDE DEF T
<1>11. \A k \in Nat : k \in T
  BY <1>9, <1>10, Induction
<1>12. P(n)
  BY <1>1, <1>11 DEF T
<1>121. PICK files2, file2, e : \E notes \in Notes :
          Found(t.files, n, lens, files2, file2) /\ R(n, files2, file2, e, notes)
  BY <1>12, Zenon DEF P
<1>13. PICK notes \in Notes :
          Found(t.files, n, lens, files2, file2) /\ R(n, files2, file2, e, notes)
  BY <1>121, Zenon
<1>14. FilesRight(t.files, files2) /\ file2 \in Files /\ file2.length = 0
  BY <1>6, <1>13, Zenon DEF Found, FilesRight, n, full
<1> QED
  BY <1>5, <1>13, <1>14, Zenon DEF parts

\* The entry "files" as a whole.
LEMMA FilesEntry ==
  ASSUME NEW hear \in BOOLEAN, NEW op \in Stack, NEW depth \in Nat, hear <=> depth > 0,
         NEW prev, NEW tf \in Torrents, tf.files = <<>>, NEW t, t.files \in Seq(Described)
  PROVE  /\ Str("files") \o List(Entries(t)) \in Seq(Tokens)
         /\ \E files2, file2, prev2 : \E notes2 \in Notes :
              /\ FilesRight(t.files, files2) /\ file2 \in Files /\ file2.length = 0
              /\ Reads(hear, Rest(op, depth, 0, prev, EmptyFile, tf), Str("files") \o
                   List(Entries(t)),
                       Rest(op, depth, -1, prev2, file2, Of(tf, files2, notes2)))
<1> DEFINE lop == <<"l">> \o op
           deep == Deeper(depth)
           a == Rest(op, depth, 0, prev, EmptyFile, tf)
           b == Core(op, "NOTHING", 0, depth, 1, prev, <<>>, EmptyFile, tf)
           items == Entries(t)
<1>1. deep \in Nat /\ (hear <=> deep > 0) /\ lop \in Stack
  BY Stacks DEF Deeper, Marks
<1>2. Reads(hear, a, Str("files"), b)
  BY FilesReads DEF Rest
<1>3. items \in Seq(Seq(Tokens)) /\ "files" \in Words
  BY EntriesType DEF Words, Keys
<1> HIDE DEF lop, deep
<1>31. PICK files2, file2, e : \E notes2 \in Notes :
        /\ FilesRight(t.files, files2) /\ file2 \in Files /\ file2.length = 0
        /\ Reads(hear, InFiles(lop, deep, prev, EmptyFile, tf), FlattenSeq(items),
                 InFiles(lop, deep, e, file2, Of(tf, files2, notes2)))
  BY <1>1, EachFileReads
<1>4. PICK notes2 \in Notes :
        /\ FilesRight(t.files, files2) /\ file2 \in Files /\ file2.length = 0
        /\ Reads(hear, InFiles(lop, deep, prev, EmptyFile, tf), FlattenSeq(items),
                 InFiles(lop, deep, e, file2, Of(tf, files2, notes2)))
  BY <1>31, Zenon
<1> DEFINE tf2 == Of(tf, files2, notes2)
<1> HIDE DEF items, tf2
<1>5. Finishes("NOTHING", <<>>, file2, tf2, "NOTHING", <<>>, file2, tf2)
  BY <1>4, FinishesNothing
<1>6. Reads(hear, b, List(items), Closed(op, "NOTHING", 0, depth, 1, e, <<>>, file2, tf2))
  <2>1. 0 + 1 = 1 /\ 0 \in Nat
    OBVIOUS
  <2>2. Reads(hear, Core(lop, "NOTHING", 0 + 1, deep, 1, prev, <<>>, EmptyFile, tf),
          FlattenSeq(items),
              Core(lop, "NOTHING", 0 + 1, deep, 1, e, <<>>, file2, tf2))
    BY <1>4, <2>1, Zenon DEF InFiles, tf2
  <2> QED
    BY <1>3, <1>5, <2>1, <2>2, ListReads DEF lop, deep
<1>7. Closed(op, "NOTHING", 0, depth, 1, e, <<>>, file2, tf2)
        = Rest(op, depth, -1, e, file2, tf2)
  <2>1. ~(0 > 0) /\ Left(1) = -1
    BY DEF Left
  <2> QED
    BY <2>1, Zenon DEF Closed, Rest
<1> DEFINE c == Rest(op, depth, -1, e, file2, tf2)
<1>8. Reads(hear, b, List(items), c)
  BY <1>6, <1>7, Zenon
<1>9. Str("files") \in Seq(Tokens) /\ List(items) \in Seq(Tokens)
  BY <1>3, Typed
<1> HIDE DEF a, b, c
<1>10. Str("files") \o List(items) \in Seq(Tokens) /\
         Reads(hear, a, Str("files") \o List(items), c)
  BY <1>2, <1>8, <1>9, TwoRead
<1> QED
  BY <1>4, <1>10, Zenon DEF a, c, items, tf2

----------------------------------------------------------------------------
(* The info dictionary.                                                     *)

\* What the model's torrents have in common.
Torrent(t) ==
  /\ t.single \in BOOLEAN /\ t.name \in Words
  /\ t.announce \in Seq(Words) /\ t.announce # <<>>
  /\ t.pieceLength \in Nat \ {0} /\ PieceCount(t) \in Nat
  /\ t.files \in Seq(Described) /\ t.files # <<>> /\ (t.single => Len(t.files) = 1)

Chosen(t, option, x, y) == IF option \in t.options THEN x ELSE y

\* An entry that is there only in some torrents.
LEMMA OptionReads ==
  ASSUME NEW hear \in BOOLEAN, NEW op, NEW depth, NEW fs, NEW prev, NEW file, NEW tf, NEW t,
           NEW option,
         NEW x \in Seq(Tokens), NEW prev2, NEW tf2,
         Reads(hear, Rest(op, depth, fs, prev, file, tf), x,
           Rest(op, depth, fs, prev2, file, tf2))
  PROVE  /\ Entry(t, option, x) \in Seq(Tokens)
         /\ Reads(hear, Rest(op, depth, fs, prev, file, tf), Entry(t, option, x),
                  Rest(op, depth, fs, Chosen(t, option, prev2, prev), file,
                    Chosen(t, option, tf2, tf)))
<1> DEFINE a == Rest(op, depth, fs, prev, file, tf)
           b == Rest(op, depth, fs, Chosen(t, option, prev2, prev), file,
             Chosen(t, option, tf2, tf))
<1>1. CASE option \in t.options
  <2>1. Entry(t, option, x) = x /\ Chosen(t, option, prev2, prev) = prev2 /\
          Chosen(t, option, tf2, tf) = tf2
    BY <1>1, Zenon DEF Entry, Chosen
  <2> QED
    BY <2>1, Zenon
<1>2. CASE option \notin t.options
  <2>1. Entry(t, option, x) = <<>> /\ Chosen(t, option, prev2, prev) = prev /\
          Chosen(t, option, tf2, tf) = tf
    BY <1>2, Zenon DEF Entry, Chosen
  <2>2. Reads(hear, a, <<>>, a)
    BY ReadsNothing, Zenon
  <2>3. <<>> \in Seq(Tokens)
    OBVIOUS
  <2> QED
    BY <2>1, <2>2, <2>3, Zenon
<1> QED
  BY <1>1, <1>2

FirstOfInfo(t) ==
  IF t.single THEN Str("length") \o Number(t.files[1].length) ELSE Str("files") \o
    List(Entries(t))

FirstRight(t, tf, tf2) ==
  IF t.single THEN tf2 = [tf EXCEPT !.length = t.files[1].length]
  ELSE \E files2 : \E notes2 \in Notes :
         FilesRight(t.files, files2) /\ tf2 = Of(tf, files2, notes2)

\* The first entry of info: the length of the one file, or the list of files.
LEMMA FirstReads ==
  ASSUME NEW hear \in BOOLEAN, NEW op \in Stack, NEW depth \in Nat, hear <=> depth > 0,
         NEW prev, NEW tf \in Torrents, tf.files = <<>>, NEW t, Torrent(t)
  PROVE  /\ FirstOfInfo(t) \in Seq(Tokens)
         /\ \E fs2, prev2, file2, tf2 :
              /\ fs2 \in {0, -1} /\ file2.length = 0 /\ tf2 \in Torrents /\
                   FirstRight(t, tf, tf2)
              /\ Reads(hear, Rest(op, depth, 0, prev, EmptyFile, tf), FirstOfInfo(t),
                       Rest(op, depth, fs2, prev2, file2, tf2))
<1>1. t.files \in Seq(Described) /\ t.files # <<>> /\ t.single \in BOOLEAN
  BY Zenon DEF Torrent
<1>2. CASE t.single
  <2> DEFINE n == t.files[1].length
             tf2 == [tf EXCEPT !.length = n]
             x == Str("length") \o Number(n)
  <2>1. n \in Nat
    <3>1. t.files[1] \in Described
      BY <1>1
    <3> QED
      BY <3>1 DEF Described
  <2> HIDE DEF n
  <2>2. tf2 \in Torrents
    BY <2>1 DEF Torrents
  <2>3. EmptyFile.length = 0 /\ 0 # 1 /\ "length" \in Keys \ {"files"} /\ "length" \in Words
    BY EmptyFields DEF Keys, Words
  <2>4. NumberSets("length", 0, EmptyFile, tf, n, EmptyFile, tf2)
    BY NumbersSet
  <2> HIDE DEF tf2
  <2>5. Reads(hear, Rest(op, depth, 0, prev, EmptyFile, tf), x,
          Rest(op, depth, 0, prev, EmptyFile, tf2))
    BY <2>1, <2>3, <2>4, NumberEntry
  <2>6. x \in Seq(Tokens)
    <3>1. Str("length") \in Seq(Tokens) /\ Number(n) \in Seq(Tokens)
      BY <2>1, <2>3, Typed
    <3> QED
      BY <3>1
  <2>7. FirstOfInfo(t) = x
    BY <1>2, Zenon DEF FirstOfInfo, n
  <2>8. FirstRight(t, tf, tf2)
    BY <1>2, Zenon DEF FirstRight, tf2, n
  <2>9. 0 \in {0, -1}
    OBVIOUS
  <2> HIDE DEF x
  <2> QED
    BY <2>2, <2>3, <2>5, <2>6, <2>7, <2>8, <2>9, Zenon
<1>3. CASE ~t.single
  <2> DEFINE x == Str("files") \o List(Entries(t))
  <2>1. FirstOfInfo(t) = x
    BY <1>3, Zenon DEF FirstOfInfo
  <2>2. /\ x \in Seq(Tokens)
        /\ \E files2, file2, e : \E notes2 \in Notes :
              /\ FilesRight(t.files, files2) /\ file2 \in Files /\ file2.length = 0
              /\ Reads(hear, Rest(op, depth, 0, prev, EmptyFile, tf), x,
                       Rest(op, depth, -1, e, file2, Of(tf, files2, notes2)))
    BY <1>1, FilesEntry
  <2> HIDE DEF x
  <2>21. PICK files2, file2, e : \E notes2 \in Notes :
          /\ FilesRight(t.files, files2) /\ file2 \in Files /\ file2.length = 0
          /\ Reads(hear, Rest(op, depth, 0, prev, EmptyFile, tf), x,
                   Rest(op, depth, -1, e, file2, Of(tf, files2, notes2)))
    BY <2>2, Zenon
  <2>3. PICK notes2 \in Notes :
          /\ FilesRight(t.files, files2) /\ file2 \in Files /\ file2.length = 0
          /\ Reads(hear, Rest(op, depth, 0, prev, EmptyFile, tf), x,
                   Rest(op, depth, -1, e, file2, Of(tf, files2, notes2)))
    BY <2>21, Zenon
  <2> DEFINE tf2 == Of(tf, files2, notes2)
  <2>4. FirstRight(t, tf, tf2)
    BY <1>3, <2>3, Zenon DEF FirstRight
  <2>5. tf2 \in Torrents
    <3>1. files2 \in Seq(Files)
      BY <2>3, Zenon DEF FilesRight
    <3> QED
      BY <2>3, <3>1, OfFields
  <2>6. -1 \in {0, -1}
    OBVIOUS
  <2> HIDE DEF tf2
  <2>7. Reads(hear, Rest(op, depth, 0, prev, EmptyFile, tf), x,
          Rest(op, depth, -1, e, file2, tf2))
    BY <2>3 DEF tf2
  <2> QED
    BY <2>1, <2>2, <2>3, <2>4, <2>5, <2>6, <2>7, Zenon
<1> QED
  BY <1>1, <1>2, <1>3

\* What the entries after the first set.
SetsInfo(t, tf, tf2) ==
  /\ tf2 \in Torrents /\ tf2.text["name"] = t.name /\ tf2.text["comment"] = tf.text["comment"]
  /\ tf2.pieceLength = t.pieceLength /\ tf2.pieceHashes = tf.pieceHashes + PieceCount(t)
  /\ tf2.announce_list = tf.announce_list /\ tf2.length = tf.length /\ tf2.files = tf.files
  /\ tf2.url_list = tf.url_list

\* The hashes are counted from the length of the string that has them.
LEMMA HashesCounted ==
  ASSUME NEW n \in Nat
  PROVE  HashSize * n \in Nat /\ ((HashSize * n) + HashSize - 1) \div HashSize = n
<1>1. HashSize \in Nat \ {0}
  BY HashSizeAssumption
<1>2. HashSize * n \in Nat
  BY <1>1
<1>3. (HashSize * n) + HashSize - 1 = n * HashSize + (HashSize - 1) /\
        HashSize - 1 \in 0 .. HashSize - 1
  BY <1>1, <1>2
<1>4. (n * HashSize + (HashSize - 1)) \div HashSize = n
  BY <1>1, <1>3, DivMod
<1> QED
  BY <1>2, <1>3, <1>4

Kept(a, b) ==
  /\ b \in Torrents /\ b.announce_list = a.announce_list /\ b.length = a.length
  /\ b.files = a.files /\ b.url_list = a.url_list

Same(a, b) ==
  Kept(a, b) /\ b.text = a.text /\ b.pieceLength = a.pieceLength /\
    b.pieceHashes = a.pieceHashes

NameSet(t, a, b) ==
  /\ Kept(a, b) /\ b.pieceHashes = a.pieceHashes
  /\ b.text["name"] = t.name /\ b.text["comment"] = a.text["comment"]

LengthSet(t, a, b) ==
  /\ Kept(a, b) /\ b.pieceHashes = a.pieceHashes /\ b.text = a.text
  /\ b.pieceLength = t.pieceLength

HashesSet(t, a, b) ==
  /\ Kept(a, b) /\ b.text = a.text /\ b.pieceLength = a.pieceLength
  /\ b.pieceHashes = a.pieceHashes + PieceCount(t)

LEMMA KeptInTurn ==
  ASSUME NEW t, NEW tf, NEW u2, NEW u3, NEW u4, NEW u6, NEW u7,
         NameSet(t, tf, u2), LengthSet(t, u2, u3), HashesSet(t, u3, u4), Same(u4, u6),
           Same(u6, u7)
  PROVE  SetsInfo(t, tf, u7)
<1>1. Kept(tf, u3) /\ u3.pieceHashes = tf.pieceHashes /\ u3.text = u2.text
  BY DEF Kept, NameSet, LengthSet
<1>2. Kept(tf, u4) /\ u4.pieceHashes = tf.pieceHashes + PieceCount(t) /\ u4.text = u2.text
      /\ u4.pieceLength = t.pieceLength
  BY <1>1 DEF Kept, NameSet, LengthSet, HashesSet
<1>3. Kept(tf, u7) /\ u7.pieceHashes = u4.pieceHashes /\ u7.text = u4.text
      /\ u7.pieceLength = u4.pieceLength
  BY <1>2 DEF Kept, Same
<1> QED
  BY <1>2, <1>3 DEF SetsInfo, Kept, NameSet

LEMMA InfoSet ==
  ASSUME NEW t, Torrent(t), NEW tf \in Torrents, NEW u2, NEW u3, NEW u4, NEW u6, NEW u7, NEW o6,
           NEW o7,
         u2 = [tf EXCEPT !.text = [@ EXCEPT !["name"] = t.name]],
         u3 = [u2 EXCEPT !.pieceLength = t.pieceLength],
         u4 = [u3 EXCEPT !.pieceHashes = @ + (HashSize * PieceCount(t) + HashSize - 1) \div HashSize],
         u6 = Chosen(t, "similar", [u4 EXCEPT !.otherInfo = Append(@, <<"similar", "x">>)], u4),
         u7 = Chosen(t, "source", [u6 EXCEPT !.otherInfo = Append(@, <<"source", "name">>)], u6)
  PROVE  SetsInfo(t, tf, u7)
<1>0. /\ t.name \in Words /\ t.pieceLength \in Nat /\ PieceCount(t) \in Nat
      /\ "name" \in Texts /\ "comment" \in Texts /\ "name" # "comment"
  BY DEF Torrent, Texts
<1>1. Kept(tf, u2) /\ u2.pieceHashes = tf.pieceHashes /\ u2.text["name"] = t.name
      /\ u2.text["comment"] = tf.text["comment"]
  <2> DEFINE x == [tf.text EXCEPT !["name"] = t.name]
  <2>1. tf.text \in [Texts -> Words]
    BY DEF Torrents
  <2>2. x \in [Texts -> Words] /\ x["name"] = t.name /\ x["comment"] = tf.text["comment"]
    BY <1>0, <2>1
  <2>3. u2 = [tf EXCEPT !.text = x]
    BY Zenon
  <2> HIDE DEF x
  <2>4. Kept(tf, u2) /\ u2.pieceHashes = tf.pieceHashes /\ u2.text = x
    BY <2>2, <2>3 DEF Torrents, Kept
  <2> QED
    BY <2>2, <2>4, Zenon
<1>2. Kept(u2, u3) /\ u3.pieceHashes = u2.pieceHashes /\ u3.text = u2.text /\
        u3.pieceLength = t.pieceLength
  <2> DEFINE x == t.pieceLength
  <2> HIDE DEF x
  <2>1. u3 = [u2 EXCEPT !.pieceLength = x] /\ x \in Nat /\ u2 \in Torrents
    BY <1>0, <1>1, Zenon DEF x, Kept
  <2>2. Kept(u2, u3) /\ u3.pieceHashes = u2.pieceHashes /\ u3.text = u2.text /\
          u3.pieceLength = x
    BY <2>1 DEF Torrents, Kept
  <2> QED
    BY <2>2 DEF x
<1>3. Kept(u3, u4) /\ u4.text = u3.text /\ u4.pieceLength = u3.pieceLength
      /\ u4.pieceHashes = u3.pieceHashes + PieceCount(t)
  <2> DEFINE x == PieceCount(t)
             y == u3.pieceHashes + x
  <2>1. (HashSize * x + HashSize - 1) \div HashSize = x
    BY <1>0, HashesCounted
  <2>2. u4 = [u3 EXCEPT !.pieceHashes = y]
    BY <2>1, Zenon
  <2> HIDE DEF x
  <2>3. u3 \in Torrents /\ y \in Nat
    <3>1. u3 \in Torrents
      BY <1>2 DEF Kept
    <3>2. u3.pieceHashes \in Nat
      BY <3>1 DEF Torrents
    <3>3. x \in Nat
      BY <1>0 DEF x
    <3> QED
      BY <3>1, <3>2, <3>3
  <2> HIDE DEF y
  <2>4. Kept(u3, u4) /\ u4.text = u3.text /\ u4.pieceLength = u3.pieceLength /\
          u4.pieceHashes = y
    BY <2>2, <2>3 DEF Torrents, Kept
  <2> QED
    BY <2>4 DEF x, y
<1>4. ASSUME NEW a \in Torrents, NEW x \in Words, NEW y \in Words
      PROVE  Same(a, [a EXCEPT !.otherInfo = Append(@, <<x, y>>)])
  <2> DEFINE o == Append(a.otherInfo, <<x, y>>)
             b == [a EXCEPT !.otherInfo = o]
  <2>1. a.otherInfo \in Seq(Words \X Words)
    BY DEF Torrents
  <2>2. o \in Seq(Words \X Words)
    <3> DEFINE z == <<x, y>>
               O == Words \X Words
    <3>1. z \in O
      OBVIOUS
    <3> HIDE DEF z, O
    <3> QED
      BY <2>1, <3>1 DEF O, z
  <2> HIDE DEF o
  <2>3. Same(a, b)
    BY <2>2 DEF Torrents, Kept, Same
  <2> QED
    BY <2>3, Zenon DEF o
<1>5. "similar" \in Words /\ "x" \in Words /\ "source" \in Words /\ "name" \in Words
  BY DEF Words
<1>6. \A a \in Torrents : Same(a, a)
  BY DEF Same, Kept
<1>7. Same(u4, u6)
  <2> DEFINE v == [u4 EXCEPT !.otherInfo = Append(@, <<"similar", "x">>)]
  <2>1. u4 \in Torrents
    BY <1>3 DEF Kept
  <2>2. Same(u4, v)
    BY <1>4, <1>5, <2>1, Zenon
  <2>3. u6 = v \/ u6 = u4
    BY Zenon DEF Chosen
  <2> QED
    BY <1>6, <2>1, <2>2, <2>3, Zenon
<1>8. Same(u6, u7)
  <2> DEFINE v == [u6 EXCEPT !.otherInfo = Append(@, <<"source", "name">>)]
  <2>1. u6 \in Torrents
    BY <1>7 DEF Kept, Same
  <2>2. Same(u6, v)
    BY <1>4, <1>5, <2>1, Zenon
  <2>3. u7 = v \/ u7 = u6
    BY Zenon DEF Chosen
  <2> QED
    BY <1>6, <2>1, <2>2, <2>3, Zenon
<1>9. NameSet(t, tf, u2)
  BY <1>1, Zenon DEF NameSet
<1>10. LengthSet(t, u2, u3)
  BY <1>2, Zenon DEF LengthSet
<1>11. HashesSet(t, u3, u4)
  BY <1>3, Zenon DEF HashesSet
<1> QED
  BY <1>9, <1>10, <1>11, <1>7, <1>8, KeptInTurn, Zenon
InfoEntries(t) ==
  <<FirstOfInfo(t),
    Str("name") \o Str(t.name),
    Str("piece length") \o Number(t.pieceLength),
    Str("pieces") \o Bytes("hashes", HashSize * PieceCount(t)),
    Entry(t, "private", Str("private") \o Number(1)),
    Entry(t, "similar", Str("similar") \o Strs(<<"x", "y">>)),
    Entry(t, "source", Str("source") \o Str("name"))>>

LEMMA InfoIsDict == \A t : Info(t) = Dict(InfoEntries(t))
BY Zenon DEF Info, InfoEntries, FirstOfInfo, Entries

NameGiven(tf, t) == [tf EXCEPT !.text = [@ EXCEPT !["name"] = t.name]]
PieceLengthGiven(tf, t) == [tf EXCEPT !.pieceLength = t.pieceLength]
HashesGiven(tf,
  t) == [tf EXCEPT !.pieceHashes = @ + (HashSize * PieceCount(t) + HashSize - 1) \div HashSize]

LEMMA TextOfInfo ==
  ASSUME NEW hear \in BOOLEAN, NEW op \in Stack, NEW depth \in Nat, hear <=> depth > 0,
         NEW fs, NEW prev, NEW file, NEW tf, NEW t, Torrent(t)
  PROVE  /\ Str("name") \o Str(t.name) \in Seq(Tokens)
         /\ Reads(hear, Rest(op, depth, fs, prev, file, tf), Str("name") \o Str(t.name),
                  Rest(op, depth, fs, prev, file, NameGiven(tf, t)))
<1> DEFINE key == "name"
           str == t.name
           tf2 == NameGiven(tf, t)
<1>1. key \in Keys \ {"files"} /\ key \in Words
  BY DEF Keys, Words
<1>2. str \in Words /\ 0 \in Nat
  BY DEF Torrent
<1>3. ValueSets(key, fs, prev, <<>>, file, tf, str, 0, "NOTHING", prev, <<>>, file, tf2)
  BY ValuesSet DEF NameGiven
<1> HIDE DEF key, str, tf2
<1>4. Reads(hear, Rest(op, depth, fs, prev, file, tf), Str(key) \o Bytes(str, 0),
        Rest(op, depth, fs, prev, file, tf2))
  BY <1>1, <1>2, <1>3, TextEntry
<1>5. Str(str) = Bytes(str, 0) /\ Str(str) \in Seq(Tokens) /\ Str(key) \in Seq(Tokens)
  BY <1>1, <1>2, Typed
<1>6. Str(key) \o Str(str) \in Seq(Tokens)
  BY <1>5
<1> QED
  BY <1>4, <1>5, <1>6, Zenon DEF key, str, tf2

LEMMA PieceLengthOfInfo ==
  ASSUME NEW hear \in BOOLEAN, NEW op \in Stack, NEW depth \in Nat, hear <=> depth > 0,
         NEW fs, fs # 1, NEW prev, NEW file, file.length = 0, NEW tf, NEW t, Torrent(t)
  PROVE  /\ Str("piece length") \o Number(t.pieceLength) \in Seq(Tokens)
         /\ Reads(hear, Rest(op, depth, fs, prev, file, tf), Str("piece length") \o
              Number(t.pieceLength),
                  Rest(op, depth, fs, prev, file, PieceLengthGiven(tf, t)))
<1> DEFINE key == "piece length"
           num == t.pieceLength
           tf2 == PieceLengthGiven(tf, t)
<1>1. key \in Keys \ {"files"} /\ key \in Words
  BY DEF Keys, Words
<1>2. num \in Nat
  BY DEF Torrent
<1>3. NumberSets(key, fs, file, tf, num, file, tf2)
  BY NumbersSet DEF PieceLengthGiven
<1> HIDE DEF key, num, tf2
<1>4. Reads(hear, Rest(op, depth, fs, prev, file, tf), Str(key) \o Number(num),
        Rest(op, depth, fs, prev, file, tf2))
  BY <1>1, <1>2, <1>3, NumberEntry
<1>5. Number(num) \in Seq(Tokens) /\ Str(key) \in Seq(Tokens)
  BY <1>1, <1>2, Typed
<1>6. Str(key) \o Number(num) \in Seq(Tokens)
  BY <1>5
<1> QED
  BY <1>4, <1>6, Zenon DEF key, num, tf2

LEMMA HashesOfInfo ==
  ASSUME NEW hear \in BOOLEAN, NEW op \in Stack, NEW depth \in Nat, hear <=> depth > 0,
         NEW fs, NEW prev, NEW file, NEW tf, NEW t, Torrent(t)
  PROVE  /\ Str("pieces") \o Bytes("hashes", HashSize * PieceCount(t)) \in Seq(Tokens)
         /\ Reads(hear, Rest(op, depth, fs, prev, file, tf),
                  Str("pieces") \o Bytes("hashes", HashSize * PieceCount(t)),
                  Rest(op, depth, fs, prev, file, HashesGiven(tf, t)))
<1> DEFINE key == "pieces"
           str == "hashes"
           num == HashSize * PieceCount(t)
           tf2 == HashesGiven(tf, t)
<1>1. key \in Keys \ {"files"} /\ key \in Words /\ str \in Words
  BY DEF Keys, Words
<1>2. num \in Nat
  <2>1. PieceCount(t) \in Nat
    BY DEF Torrent
  <2> QED
    BY <2>1, HashesCounted
<1>3. ValueSets(key, fs, prev, <<>>, file, tf, str, num, "NOTHING", prev, <<>>, file, tf2)
  BY ValuesSet DEF HashesGiven
<1> HIDE DEF key, str, tf2, num
<1>4. Reads(hear, Rest(op, depth, fs, prev, file, tf), Str(key) \o Bytes(str, num),
        Rest(op, depth, fs, prev, file, tf2))
  BY <1>1, <1>2, <1>3, TextEntry
<1>5. Bytes(str, num) \in Seq(Tokens) /\ Str(key) \in Seq(Tokens)
  BY <1>1, <1>2, Typed
<1>6. Str(key) \o Bytes(str, num) \in Seq(Tokens)
  BY <1>5
<1> QED
  BY <1>4, <1>6, Zenon DEF key, str, num, tf2

LEMMA NotesOfInfo ==
  ASSUME NEW hear \in BOOLEAN, NEW op \in Stack, NEW depth \in Nat, hear <=> depth > 0,
         NEW fs, fs # 1, NEW prev, NEW file, file.length = 0, NEW tf
  PROVE  /\ Str("private") \o Number(1) \in Seq(Tokens)
         /\ Reads(hear, Rest(op, depth, fs, prev, file, tf), Str("private") \o Number(1),
                  Rest(op, depth, fs, "private", file, tf))
         /\ Str("similar") \o Strs(<<"x", "y">>) \in Seq(Tokens)
         /\ Reads(hear, Rest(op, depth, fs, prev, file, tf), Str("similar") \o
              Strs(<<"x", "y">>),
                  Rest(op, depth, fs, "y", file, Noted(tf, "similar", "x")))
         /\ Str("source") \o Str("name") \in Seq(Tokens)
         /\ Reads(hear, Rest(op, depth, fs, prev, file, tf), Str("source") \o Str("name"),
                  Rest(op, depth, fs, "", file, Noted(tf, "source", "name")))
<1> DEFINE key1 == "private"
           key2 == "similar"
           key3 == "source"
           x == "x"
           y == "y"
           name == "name"
<1>1. /\ key1 \in Words \ Keys /\ key2 \in Words \ Keys /\ key3 \in Words \ Keys
      /\ x \in Words /\ y \in Words \ Keys /\ name \in Words
  BY DEF Keys, Words
<1>2. 1 \in Nat
  OBVIOUS
<1> HIDE DEF key1, key2, key3, x, y, name
<1>3. Reads(hear, Rest(op, depth, fs, prev, file, tf), Str(key1) \o Number(1),
        Rest(op, depth, fs, key1, file, tf))
  BY <1>1, <1>2, UnknownNumber
<1>4. Reads(hear, Rest(op, depth, fs, prev, file, tf), Str(key2) \o Strs(<<x, y>>),
            Rest(op, depth, fs, y, file, Noted(tf, key2, x)))
  BY <1>1, UnknownListEntry DEF Noted
<1>5. Reads(hear, Rest(op, depth, fs, prev, file, tf), Str(key3) \o Str(name),
            Rest(op, depth, fs, "", file, Noted(tf, key3, name)))
  BY <1>1, UnknownText DEF Noted
<1>6. /\ Str(key1) \in Seq(Tokens) /\ Str(key2) \in Seq(Tokens) /\ Str(key3) \in Seq(Tokens)
      /\ Str(name) \in Seq(Tokens) /\ Number(1) \in Seq(Tokens)
  BY <1>1, <1>2, Typed
<1>7. Strs(<<x, y>>) \in Seq(Tokens)
  <2>1. StrOf(<<x, y>>) \in Seq(Seq(Tokens)) /\ Strs(<<x, y>>) = List(StrOf(<<x, y>>))
    BY <1>1, TwoStrs
  <2> QED
    BY <2>1, Typed, Zenon
<1>8. \A a \in Seq(Tokens), b \in Seq(Tokens) : a \o b \in Seq(Tokens)
  OBVIOUS
<1>9. Str(key1) \o Number(1) \in Seq(Tokens) /\ Str(key2) \o Strs(<<x, y>>) \in Seq(Tokens)
      /\ Str(key3) \o Str(name) \in Seq(Tokens)
  BY <1>6, <1>7, <1>8, Zenon
<1> QED
  BY <1>3, <1>4, <1>5, <1>9, Zenon DEF key1, key2, key3, x, y, name

\* What the info dictionary sets.
InfoRight(t, tf, tf2) == \E u \in Torrents : FirstRight(t, tf, u) /\ SetsInfo(t, u, tf2)

\* The entries of info, one after the other.
LEMMA InfoEntriesRead ==
  ASSUME NEW op \in Stack, NEW prev, NEW tf \in Torrents, tf.files = <<>>, NEW t, Torrent(t)
  PROVE  /\ InfoEntries(t) \in Seq(Seq(Tokens))
         /\ \E fs2, prev2, file2, tf2 :
              /\ fs2 \in {0, -1} /\ file2.length = 0 /\ InfoRight(t, tf, tf2)
              /\ Reads(TRUE, Rest(op, 1, 0, prev, EmptyFile, tf), FlattenSeq(InfoEntries(t)),
                       Rest(op, 1, fs2, prev2, file2, tf2))
<1>0. TRUE \in BOOLEAN /\ 1 \in Nat /\ (TRUE <=> 1 > 0)
  OBVIOUS
<1>1. /\ FirstOfInfo(t) \in Seq(Tokens)
      /\ \E fs2, e2, file2, tf2 :
           /\ fs2 \in {0, -1} /\ file2.length = 0 /\ tf2 \in Torrents /\ FirstRight(t, tf, tf2)
           /\ Reads(TRUE, Rest(op, 1, 0, prev, EmptyFile, tf), FirstOfInfo(t),
                    Rest(op, 1, fs2, e2, file2, tf2))
  BY <1>0, FirstReads
<1>2. PICK fs, e, file, u :
        /\ fs \in {0, -1} /\ file.length = 0 /\ u \in Torrents /\ FirstRight(t, tf, u)
        /\ Reads(TRUE, Rest(op, 1, 0, prev, EmptyFile, tf), FirstOfInfo(t),
             Rest(op, 1, fs, e, file, u))
  BY <1>1, Zenon
<1> DEFINE u2 == NameGiven(u, t)
           u3 == PieceLengthGiven(u2, t)
           u4 == HashesGiven(u3, t)
           prev5 == Chosen(t, "private", "private", e)
           u6 == Chosen(t, "similar", Noted(u4, "similar", "x"), u4)
           prev6 == Chosen(t, "similar", "y", prev5)
           u7 == Chosen(t, "source", Noted(u6, "source", "name"), u6)
           prev7 == Chosen(t, "source", "", prev6)
           x2 == Str("name") \o Str(t.name)
           x3 == Str("piece length") \o Number(t.pieceLength)
           x4 == Str("pieces") \o Bytes("hashes", HashSize * PieceCount(t))
           y5 == Str("private") \o Number(1)
           y6 == Str("similar") \o Strs(<<"x", "y">>)
           y7 == Str("source") \o Str("name")
           x5 == Entry(t, "private", y5)
           x6 == Entry(t, "similar", y6)
           x7 == Entry(t, "source", y7)
<1>3. fs # 1
  BY <1>2
<1>4. SetsInfo(t, u, u7)
  BY <1>2, InfoSet DEF NameGiven, PieceLengthGiven, HashesGiven, Noted
<1>5. /\ x2 \in Seq(Tokens)
      /\ Reads(TRUE, Rest(op, 1, fs, e, file, u), x2, Rest(op, 1, fs, e, file, u2))
  BY <1>0, TextOfInfo
<1>6. /\ x3 \in Seq(Tokens)
      /\ Reads(TRUE, Rest(op, 1, fs, e, file, u2), x3, Rest(op, 1, fs, e, file, u3))
  <2> HIDE DEF u2
  <2> QED
    BY <1>0, <1>2, <1>3, PieceLengthOfInfo
<1>7. /\ x4 \in Seq(Tokens)
      /\ Reads(TRUE, Rest(op, 1, fs, e, file, u3), x4, Rest(op, 1, fs, e, file, u4))
  <2> HIDE DEF u3
  <2> QED
    BY <1>0, HashesOfInfo
<1> HIDE DEF u4
<1>8. /\ y5 \in Seq(Tokens)
      /\ Reads(TRUE, Rest(op, 1, fs, e, file, u4), y5, Rest(op, 1, fs, "private", file, u4))
  BY <1>0, <1>2, <1>3, NotesOfInfo
<1>9. /\ x5 \in Seq(Tokens)
      /\ Reads(TRUE, Rest(op, 1, fs, e, file, u4), x5, Rest(op, 1, fs, prev5, file, u4))
  <2>1. Chosen(t, "private", u4, u4) = u4
    BY Zenon DEF Chosen
  <2> HIDE DEF y5
  <2>2. /\ x5 \in Seq(Tokens)
        /\ Reads(TRUE, Rest(op, 1, fs, e, file, u4), x5,
                 Rest(op, 1, fs, prev5, file, Chosen(t, "private", u4, u4)))
    BY <1>0, <1>8, OptionReads
  <2> QED
    BY <2>1, <2>2, Zenon
<1> HIDE DEF prev5
<1>10. /\ y6 \in Seq(Tokens)
       /\ Reads(TRUE, Rest(op, 1, fs, prev5, file, u4), y6,
            Rest(op, 1, fs, "y", file, Noted(u4, "similar", "x")))
  BY <1>0, <1>2, <1>3, NotesOfInfo
<1>11. /\ x6 \in Seq(Tokens)
       /\ Reads(TRUE, Rest(op, 1, fs, prev5, file, u4), x6, Rest(op, 1, fs, prev6, file, u6))
  <2> HIDE DEF y6
  <2> QED
    BY <1>0, <1>10, OptionReads
<1> HIDE DEF prev6, u6
<1>12. /\ y7 \in Seq(Tokens)
       /\ Reads(TRUE, Rest(op, 1, fs, prev6, file, u6), y7,
            Rest(op, 1, fs, "", file, Noted(u6, "source", "name")))
  BY <1>0, <1>2, <1>3, NotesOfInfo
<1>13. /\ x7 \in Seq(Tokens)
       /\ Reads(TRUE, Rest(op, 1, fs, prev6, file, u6), x7, Rest(op, 1, fs, prev7, file, u7))
  <2> HIDE DEF y7
  <2> QED
    BY <1>0, <1>12, OptionReads
<1>14. InfoEntries(t) = <<FirstOfInfo(t), x2, x3, x4, x5, x6, x7>>
  BY Zenon DEF InfoEntries
<1> DEFINE p1 == Rest(op, 1, 0, prev, EmptyFile, tf)
           p2 == Rest(op, 1, fs, e, file, u)
           p3 == Rest(op, 1, fs, e, file, u2)
           p4 == Rest(op, 1, fs, e, file, u3)
           p5 == Rest(op, 1, fs, e, file, u4)
           p6 == Rest(op, 1, fs, prev5, file, u4)
           p7 == Rest(op, 1, fs, prev6, file, u6)
           p8 == Rest(op, 1, fs, prev7, file, u7)
           x1 == FirstOfInfo(t)
<1> HIDE DEF u2, u3, u7, prev7, x1, x2, x3, x4, x5, x6, x7
<1>15. /\ Reads(TRUE, p1, x1, p2) /\ Reads(TRUE, p2, x2, p3) /\ Reads(TRUE, p3, x3, p4)
       /\ Reads(TRUE, p4, x4, p5) /\ Reads(TRUE, p5, x5, p6) /\ Reads(TRUE, p6, x6, p7)
       /\ Reads(TRUE, p7, x7, p8) /\ x1 \in Seq(Tokens)
  BY <1>1, <1>2, <1>5, <1>6, <1>7, <1>9, <1>11, <1>13, Zenon DEF x1
<1> HIDE DEF p1, p2, p3, p4, p5, p6, p7, p8
<1>16. /\ <<x1, x2, x3, x4, x5, x6, x7>> \in Seq(Seq(Tokens))
       /\ Reads(TRUE, p1, FlattenSeq(<<x1, x2, x3, x4, x5, x6, x7>>), p8)
  BY <1>0, <1>5, <1>6, <1>7, <1>9, <1>11, <1>13, <1>15, ReadsSeven
<1>17. InfoEntries(t) = <<x1, x2, x3, x4, x5, x6, x7>>
  BY <1>14, Zenon DEF x1
<1>18. InfoRight(t, tf, u7)
  BY <1>2, <1>4, Zenon DEF InfoRight
<1>19. Reads(TRUE, p1, FlattenSeq(InfoEntries(t)), p8) /\ InfoEntries(t) \in Seq(Seq(Tokens))
  BY <1>16, <1>17, Zenon
<1> QED
  BY <1>2, <1>18, <1>19, Zenon DEF p1, p8

\* The dictionary as a whole: its "d" and its "e" are heard too.
LEMMA InfoReads ==
  ASSUME NEW op \in Stack, NEW prev, NEW tf \in Torrents, tf.files = <<>>, NEW t, Torrent(t)
  PROVE  /\ Info(t) \in Seq(Tokens)
         /\ \E fs2, prev2, file2, tf2 :
              /\ fs2 # 1 /\ file2.length = 0 /\ InfoRight(t, tf, tf2)
              /\ Reads(TRUE, Core(op, "info", 0, 0, 0, prev, <<>>, EmptyFile, tf), Info(t),
                       Rest(op, 0, fs2, prev2, file2, tf2))
<1> DEFINE dop == <<"d">> \o op
           items == InfoEntries(t)
           inner == FlattenSeq(items)
           a == Core(op, "info", 0, 0, 0, prev, <<>>, EmptyFile, tf)
           b == Rest(dop, 1, 0, prev, EmptyFile, tf)
<1>0. TRUE \in BOOLEAN
  OBVIOUS
<1>1. dop \in Stack /\ Tail(dop) = op
  BY Stacks DEF Marks
<1> HIDE DEF dop
<1>2. /\ items \in Seq(Seq(Tokens))
      /\ \E fs2, prev2, file2, tf2 :
           /\ fs2 \in {0, -1} /\ file2.length = 0 /\ InfoRight(t, tf, tf2)
           /\ Reads(TRUE, b, FlattenSeq(items), Rest(dop, 1, fs2, prev2, file2, tf2))
  BY <1>1, InfoEntriesRead
<1>3. PICK fs, prev2, file, tf2 :
        /\ fs \in {0, -1} /\ file.length = 0 /\ InfoRight(t, tf, tf2)
        /\ Reads(TRUE, b, FlattenSeq(items), Rest(dop, 1, fs, prev2, file, tf2))
  BY <1>2
<1> DEFINE c == Rest(dop, 1, fs, prev2, file, tf2)
           d == Rest(op, 0, fs, prev2, file, tf2)
<1> HIDE DEF items
<1>4. Mark("d") \in Tokens /\ Mark("e") \in Tokens
  BY TokenTypes DEF Marks
<1>5. Reads(TRUE, a, <<Mark("d")>>, b)
  <2>1. a.infoCounter = 0 /\ b.infoCounter = 1
    BY CoreDepth DEF Rest
  <2>2. Does(a, Mark("d"), b)
    <3>1. Does(a, Mark("d"),
            Core(<<"d">> \o op, "NOTHING", 0, 0 + 1, 0, prev, <<>>, EmptyFile, tf))
      BY DoesInfo
    <3>2. 0 + 1 = 1
      OBVIOUS
    <3> QED
      BY <3>1, <3>2, Zenon DEF Rest, dop
  <2> HIDE DEF a, b
  <2>3. TRUE <=> a.infoCounter > 0 \/ b.infoCounter > 0
    BY <2>1
  <2> QED
    BY <1>0, <1>4, <2>2, <2>3, ReadsWhatItDoes
<1>6. Reads(TRUE, c, <<Mark("e")>>, d)
  <2>1. c.infoCounter = 1 /\ d.infoCounter = 0
    BY CoreDepth DEF Rest
  <2>2. Does(c, Mark("e"), d)
    <3>1. ~(Shallower(0) > 0) /\ Shallower(0) = 0 /\ Shallower(1) = 0
      BY DEF Shallower
    <3>2. Finishes("NOTHING", <<>>, file, tf2, "NOTHING", <<>>, file, tf2)
      BY <1>3, FinishesNothing
    <3>3. Does(Core(dop, "NOTHING", 0, 1, fs, prev2, <<>>, file, tf2), Mark("e"),
               Core(Tail(dop), "NOTHING", Shallower(0), Shallower(1), Left(fs), prev2, <<>>,
                 file, tf2))
      BY <3>1, <3>2, DoesEndOuter
    <3>4. Left(fs) = fs
      BY <1>3 DEF Left
    <3> QED
      BY <1>1, <3>1, <3>3, <3>4, Zenon DEF Rest
  <2> HIDE DEF c, d
  <2>3. TRUE <=> c.infoCounter > 0 \/ d.infoCounter > 0
    BY <2>1
  <2> QED
    BY <1>0, <1>4, <2>2, <2>3, ReadsWhatItDoes
<1>7. inner \in Seq(Tokens) /\ Reads(TRUE, b, inner, c)
  BY <1>2, <1>3, FlattenType
<1>8. Info(t) = (<<Mark("d")>> \o inner) \o <<Mark("e")>>
  <2>1. Token("d") = <<Mark("d")>> /\ Token("e") = <<Mark("e")>>
    BY TokenTypes DEF Marks
  <2>2. Dict(items) = (<<Mark("d")>> \o inner) \o <<Mark("e")>>
    BY <2>1, Zenon DEF Dict
  <2> QED
    BY <2>2, InfoIsDict, Zenon DEF items
<1> HIDE DEF a, b, c, d, inner
<1>9. <<Mark("d")>> \in Seq(Tokens) /\ <<Mark("e")>> \in Seq(Tokens)
  BY <1>4
<1>10. Reads(TRUE, a, <<Mark("d")>> \o inner, c) /\ <<Mark("d")>> \o inner \in Seq(Tokens)
  BY <1>0, <1>5, <1>7, <1>9, TwoRead, Zenon
<1>11. Reads(TRUE, a, (<<Mark("d")>> \o inner) \o <<Mark("e")>>, d)
       /\ (<<Mark("d")>> \o inner) \o <<Mark("e")>> \in Seq(Tokens)
  BY <1>0, <1>6, <1>9, <1>10, TwoRead, Zenon
<1>12. fs # 1
  BY <1>3
<1>13. Info(t) \in Seq(Tokens) /\ Reads(TRUE, a, Info(t), d)
  BY <1>8, <1>11, Zenon
<1> QED
  BY <1>3, <1>12, <1>13, Zenon DEF a, d

----------------------------------------------------------------------------
(* The whole torrent file.                                                  *)

Announced(tf, t) == [tf EXCEPT !.announce_list = Append(@, t.announce[1])]
Commented(tf)    == [tf EXCEPT !.text = [@ EXCEPT !["comment"] = "info"]]
Dated(tf)        == [tf EXCEPT !.creation_date = 7]
Linked(tf)       == [tf EXCEPT !.url_list = <<"u1", "u2">>]

AnnounceList(t) ==
  Str("announce-list") \o List([k \in DOMAIN t.announce |-> Strs(<<t.announce[k]>>)])

LEMMA AnnounceOfTorrent ==
  ASSUME NEW op \in Stack, NEW fs, NEW prev, NEW file, NEW tf, NEW t, Torrent(t)
  PROVE  /\ Str("announce") \o Str(t.announce[1]) \in Seq(Tokens)
         /\ Reads(FALSE, Rest(op, 0, fs, prev, file, tf), Str("announce") \o Str(t.announce[1]),
                  Rest(op, 0, fs, prev, file, Announced(tf, t)))
<1> DEFINE key == "announce"
           str == t.announce[1]
           tf2 == Announced(tf, t)
<1>0. FALSE \in BOOLEAN /\ 0 \in Nat /\ (FALSE <=> 0 > 0)
  OBVIOUS
<1>1. key \in Keys \ {"files"} /\ key \in Words
  BY DEF Keys, Words
<1>2. str \in Words
  BY DEF Torrent
<1>3. ValueSets(key, fs, prev, <<>>, file, tf, str, 0, "NOTHING", prev, <<>>, file, tf2)
  BY ValuesSet, Zenon DEF Announced
<1> HIDE DEF key, str, tf2
<1>4. Reads(FALSE, Rest(op, 0, fs, prev, file, tf), Str(key) \o Bytes(str, 0),
        Rest(op, 0, fs, prev, file, tf2))
  BY <1>0, <1>1, <1>2, <1>3, TextEntry
<1>5. Str(str) = Bytes(str, 0) /\ Str(str) \in Seq(Tokens) /\ Str(key) \in Seq(Tokens)
  BY <1>1, <1>2, Typed
<1>6. Str(key) \o Str(str) \in Seq(Tokens)
  BY <1>5
<1> QED
  BY <1>4, <1>5, <1>6, Zenon DEF key, str, tf2

LEMMA ListOfTorrent ==
  ASSUME NEW op \in Stack, NEW fs, fs # 1, NEW prev, NEW file, file.length = 0,
           NEW tf \in Torrents,
         NEW t, Torrent(t)
  PROVE  /\ AnnounceList(t) \in Seq(Tokens)
         /\ Reads(FALSE, Rest(op, 0, fs, prev, file, tf), AnnounceList(t),
                  Rest(op, 0, fs, prev, file, Announces(tf, t.announce, Len(t.announce))))
<1> DEFINE ann == t.announce
           p(k) == Strs(<<ann[k]>>)
           items == [k \in DOMAIN ann |-> p(k)]
           key == "announce-list"
<1>0. FALSE \in BOOLEAN /\ 0 \in Nat /\ (FALSE <=> 0 > 0)
  OBVIOUS
<1>1. ann \in Seq(Words)
  BY DEF Torrent
<1>2. key \in Words
  BY DEF Keys, Words
<1>3. AnnounceList(t) = Str(key) \o List(items)
  BY Zenon DEF AnnounceList
<1>4. items \in Seq(Seq(Tokens))
  <2> DEFINE Q == Seq(Tokens)
             n == Len(ann)
  <2>1. n \in Nat /\ DOMAIN ann = 1 .. n /\ \A k \in 1 .. n : ann[k] \in Words
    BY <1>1
  <2>2. \A k \in 1 .. n : p(k) \in Q
    <3> SUFFICES ASSUME NEW k \in 1 .. n PROVE p(k) \in Q
      OBVIOUS
    <3> DEFINE w == ann[k]
    <3>1. w \in Words
      BY <2>1
    <3> HIDE DEF w
    <3>2. StrOf(<<w>>) \in Seq(Seq(Tokens)) /\ Strs(<<w>>) = List(StrOf(<<w>>))
      BY <3>1, OneStr
    <3>3. Strs(<<w>>) \in Seq(Tokens)
      BY <3>2, Typed, Zenon
    <3> QED
      BY <3>3 DEF w
  <2> HIDE DEF Q, p, n, ann
  <2>3. items \in [1 .. n -> Q]
    BY <2>1, <2>2
  <2> QED
    BY <2>1, <2>3 DEF Q
<1> HIDE DEF key
<1>5. Str(key) \in Seq(Tokens) /\ List(items) \in Seq(Tokens)
  BY <1>2, <1>4, Typed, Zenon
<1> DEFINE l == List(items)
<1>6. Str(key) \o l \in Seq(Tokens)
  <2> HIDE DEF l
  <2> QED
    BY <1>5 DEF l
<1>7. Reads(FALSE, Rest(op, 0, fs, prev, file, tf), Str(key) \o l,
            Rest(op, 0, fs, prev, file, Announces(tf, ann, Len(ann))))
  BY <1>0, <1>1, AnnounceListEntry DEF key
<1> QED
  BY <1>3, <1>6, <1>7, Zenon DEF ann, l

LEMMA NotesOfTorrent ==
  ASSUME NEW op \in Stack, NEW fs, fs # 1, NEW prev, NEW file, file.length = 0, NEW tf
  PROVE  /\ Str("comment") \o Str("info") \in Seq(Tokens)
         /\ Reads(FALSE, Rest(op, 0, fs, prev, file, tf), Str("comment") \o Str("info"),
                  Rest(op, 0, fs, prev, file, Commented(tf)))
         /\ Str("creation date") \o Number(7) \in Seq(Tokens)
         /\ Reads(FALSE, Rest(op, 0, fs, prev, file, tf), Str("creation date") \o Number(7),
                  Rest(op, 0, fs, prev, file, Dated(tf)))
         /\ Str("encoding") \o Str("UTF-8") \in Seq(Tokens)
         /\ Reads(FALSE, Rest(op, 0, fs, prev, file, tf), Str("encoding") \o Str("UTF-8"),
                  Rest(op, 0, fs, "", file, Noted(tf, "encoding", "UTF-8")))
<1> DEFINE key1 == "comment"
           key2 == "creation date"
           key3 == "encoding"
           info == "info"
           utf == "UTF-8"
           tf1 == Commented(tf)
           tf2 == Dated(tf)
<1>0. FALSE \in BOOLEAN /\ 0 \in Nat /\ 7 \in Nat /\ (FALSE <=> 0 > 0)
  OBVIOUS
<1>1. /\ key1 \in Keys \ {"files"} /\ key1 \in Words
      /\ key3 \in Words \ Keys /\ info \in Words /\ utf \in Words
  BY DEF Keys, Words
<1>2. key2 \in Keys \ {"files"} /\ key2 \in Words
  BY DEF Keys, Words
<1>3. ValueSets(key1, fs, prev, <<>>, file, tf, info, 0, "NOTHING", prev, <<>>, file, tf1)
  BY ValuesSet, Zenon DEF Commented
<1>4. NumberSets(key2, fs, file, tf, 7, file, tf2)
  BY NumbersSet, Zenon DEF Dated
<1> HIDE DEF key1, key2, key3, info, utf, tf1, tf2
<1>5. Reads(FALSE, Rest(op, 0, fs, prev, file, tf), Str(key1) \o Bytes(info, 0),
        Rest(op, 0, fs, prev, file, tf1))
  BY <1>0, <1>1, <1>3, TextEntry
<1>6. Reads(FALSE, Rest(op, 0, fs, prev, file, tf), Str(key2) \o Number(7),
        Rest(op, 0, fs, prev, file, tf2))
  BY <1>0, <1>2, <1>4, NumberEntry
<1>7. Reads(FALSE, Rest(op, 0, fs, prev, file, tf), Str(key3) \o Str(utf),
            Rest(op, 0, fs, "", file, Noted(tf, key3, utf)))
  BY <1>0, <1>1, UnknownText DEF Noted
<1>8. /\ Str(key1) \in Seq(Tokens) /\ Str(key2) \in Seq(Tokens) /\ Str(key3) \in Seq(Tokens)
      /\ Str(info) \in Seq(Tokens) /\ Str(utf) \in Seq(Tokens) /\ Number(7) \in Seq(Tokens)
      /\ Str(info) = Bytes(info, 0)
  BY <1>0, <1>1, <1>2, Typed
<1>9. \A a \in Seq(Tokens), b \in Seq(Tokens) : a \o b \in Seq(Tokens)
  OBVIOUS
<1>10. Str(key1) \o Str(info) \in Seq(Tokens) /\ Str(key2) \o Number(7) \in Seq(Tokens)
       /\ Str(key3) \o Str(utf) \in Seq(Tokens)
  BY <1>8, <1>9, Zenon
<1> QED
  BY <1>5, <1>6, <1>7, <1>8, <1>10, Zenon DEF key1, key2, key3, info, utf, tf1, tf2

LEMMA UrlsOfTorrent ==
  ASSUME NEW op \in Stack, NEW fs, fs # 1, NEW prev, NEW file, file.length = 0,
           NEW tf \in Torrents,
         tf.url_list = <<>>
  PROVE  /\ Str("url-list") \o Strs(<<"u1", "u2">>) \in Seq(Tokens)
         /\ Reads(FALSE, Rest(op, 0, fs, prev, file, tf), Str("url-list") \o
              Strs(<<"u1", "u2">>),
                  Rest(op, 0, fs, prev, file, Linked(tf)))
<1> DEFINE a == "u1"
           b == "u2"
           key == "url-list"
<1>0. FALSE \in BOOLEAN /\ 0 \in Nat /\ (FALSE <=> 0 > 0)
  OBVIOUS
<1>1. a \in Words /\ b \in Words /\ key \in Words
  BY DEF Words, Keys
<1> HIDE DEF a, b
<1>2. Reads(FALSE, Rest(op, 0, fs, prev, file, tf), Str(key) \o Strs(<<a, b>>),
            Rest(op, 0, fs, prev, file, [tf EXCEPT !.url_list = <<a, b>>]))
  BY <1>0, <1>1, UrlListEntry
<1> HIDE DEF key
<1>3. StrOf(<<a, b>>) \in Seq(Seq(Tokens)) /\ Strs(<<a, b>>) = List(StrOf(<<a, b>>))
  BY <1>1, TwoStrs
<1>4. Strs(<<a, b>>) \in Seq(Tokens) /\ Str(key) \in Seq(Tokens)
  BY <1>1, <1>3, Typed, Zenon
<1>5. Str(key) \o Strs(<<a, b>>) \in Seq(Tokens)
  BY <1>4
<1> QED
  BY <1>2, <1>5, Zenon DEF a, b, key, Linked

\* What the entries before "info" set.
Started(t, tf) ==
  /\ tf \in Torrents
  /\ tf.announce_list = IF "announce-list" \in t.options THEN <<t.announce[1]>> \o t.announce
                                                         ELSE <<t.announce[1]>>
  /\ tf.text["comment"] = IF "comment" \in t.options THEN "info" ELSE ""
  /\ tf.pieceHashes = 0 /\ tf.files = <<>> /\ tf.length = 0 /\ tf.url_list = <<>>

\* Nothing but the trackers, the comment, or neither is changed.
Others(a, b) ==
  /\ b \in Torrents /\ b.pieceHashes = a.pieceHashes /\ b.files = a.files /\ b.length = a.length
  /\ b.url_list = a.url_list

LEMMA OthersStay ==
  ASSUME NEW tf \in Torrents, NEW t, Torrent(t)
  PROVE  /\ Others(tf, Announced(tf, t)) /\ Announced(tf, t).text = tf.text
         /\ Announced(tf, t).announce_list = Append(tf.announce_list, t.announce[1])
         /\ Others(tf, Announces(tf, t.announce, Len(t.announce)))
         /\ Announces(tf, t.announce, Len(t.announce)).text = tf.text
         /\ Announces(tf, t.announce, Len(t.announce)).announce_list = tf.announce_list \o
              t.announce
         /\ Others(tf, Commented(tf)) /\ Commented(tf).text["comment"] = "info"
         /\ Commented(tf).announce_list = tf.announce_list
         /\ Others(tf, Dated(tf)) /\ Dated(tf).text = tf.text /\
              Dated(tf).announce_list = tf.announce_list
         /\ Others(tf, Noted(tf, "encoding", "UTF-8"))
         /\ Noted(tf, "encoding", "UTF-8").text = tf.text
         /\ Noted(tf, "encoding", "UTF-8").announce_list = tf.announce_list
<1>0. t.announce \in Seq(Words) /\ t.announce[1] \in Words /\ tf.announce_list \in Seq(Words)
      /\ tf.text \in [Texts -> Words] /\ tf.otherInfo \in Seq(Words \X Words)
  <2>1. t.announce \in Seq(Words) /\ t.announce # <<>>
    BY DEF Torrent
  <2>2. t.announce[1] \in Words
    BY <2>1
  <2>3. tf.announce_list \in Seq(Words) /\ tf.text \in [Texts -> Words] /\
          tf.otherInfo \in Seq(Words \X Words)
    BY DEF Torrents
  <2> QED
    BY <2>1, <2>2, <2>3
<1>1. /\ Others(tf, Announced(tf, t)) /\ Announced(tf, t).text = tf.text
      /\ Announced(tf, t).announce_list = Append(tf.announce_list, t.announce[1])
  <2> DEFINE l == Append(tf.announce_list, t.announce[1])
             u == [tf EXCEPT !.announce_list = l]
  <2>1. l \in Seq(Words)
    BY <1>0
  <2>2. Announced(tf, t) = u
    BY Zenon DEF Announced
  <2> HIDE DEF l
  <2>3. Others(tf, u) /\ u.text = tf.text /\ u.announce_list = l
    BY <2>1 DEF Others, Torrents
  <2> QED
    BY <2>2, <2>3, Zenon DEF l
<1>2. /\ Others(tf, Announces(tf, t.announce, Len(t.announce)))
      /\ Announces(tf, t.announce, Len(t.announce)).text = tf.text
      /\ Announces(tf, t.announce, Len(t.announce)).announce_list = tf.announce_list \o
           t.announce
  <2> DEFINE ann == t.announce
             l == tf.announce_list \o ann
             u == [tf EXCEPT !.announce_list = l]
  <2>1. l \in Seq(Words)
    BY <1>0
  <2>2. SubSeq(ann, 1, Len(ann)) = ann
    BY <1>0
  <2>3. Announces(tf, ann, Len(ann)) = u
    BY <2>2, Zenon DEF Announces
  <2> HIDE DEF l
  <2>4. Others(tf, u) /\ u.text = tf.text /\ u.announce_list = l
    BY <2>1 DEF Others, Torrents
  <2> QED
    BY <2>3, <2>4, Zenon DEF l, ann
<1>3. /\ Others(tf, Commented(tf)) /\ Commented(tf).text["comment"] = "info"
      /\ Commented(tf).announce_list = tf.announce_list
  <2> DEFINE x == [tf.text EXCEPT !["comment"] = "info"]
             u == [tf EXCEPT !.text = x]
  <2>1. "comment" \in Texts /\ "info" \in Words
    BY DEF Texts, Words
  <2>2. x \in [Texts -> Words] /\ x["comment"] = "info"
    BY <1>0, <2>1
  <2>3. Commented(tf) = u
    BY Zenon DEF Commented
  <2> HIDE DEF x
  <2>4. Others(tf, u) /\ u.text = x /\ u.announce_list = tf.announce_list
    BY <2>2 DEF Others, Torrents
  <2> QED
    BY <2>2, <2>3, <2>4, Zenon
<1>4. Others(tf, Dated(tf)) /\ Dated(tf).text = tf.text /\
        Dated(tf).announce_list = tf.announce_list
  <2> DEFINE u == [tf EXCEPT !.creation_date = 7]
  <2>1. Others(tf, u) /\ u.text = tf.text /\ u.announce_list = tf.announce_list
    BY DEF Others, Torrents
  <2> QED
    BY <2>1, Zenon DEF Dated
<1>5. /\ Others(tf, Noted(tf, "encoding", "UTF-8"))
      /\ Noted(tf, "encoding", "UTF-8").text = tf.text
      /\ Noted(tf, "encoding", "UTF-8").announce_list = tf.announce_list
  <2> DEFINE k == "encoding"
             v == "UTF-8"
             o == Append(tf.otherInfo, <<k, v>>)
             u == [tf EXCEPT !.otherInfo = o]
  <2>1. k \in Words /\ v \in Words
    BY DEF Words
  <2> HIDE DEF k, v
  <2>2. o \in Seq(Words \X Words)
    <3> DEFINE z == <<k, v>>
               O == Words \X Words
    <3>1. z \in O
      BY <2>1
    <3> HIDE DEF z, O
    <3> QED
      BY <1>0, <3>1 DEF O, z
  <2>3. Noted(tf, k, v) = u
    BY Zenon DEF Noted
  <2> HIDE DEF o
  <2>4. Others(tf, u) /\ u.text = tf.text /\ u.announce_list = tf.announce_list
    BY <2>2 DEF Others, Torrents
  <2> QED
    BY <2>3, <2>4, Zenon DEF k, v
<1> QED
  BY <1>1, <1>2, <1>3, <1>4, <1>5, Zenon

LEMMA NothingYet ==
  /\ EmptyTorrent \in Torrents /\ EmptyTorrent.announce_list = <<>> /\
       EmptyTorrent.text["comment"] = ""
  /\ EmptyTorrent.pieceHashes = 0 /\ EmptyTorrent.files = <<>> /\ EmptyTorrent.length = 0
  /\ EmptyTorrent.url_list = <<>>
<1> DEFINE e == <<>>
           x == [z \in Texts |-> ""]
<1>1. x \in [Texts -> Words] /\ x["comment"] = ""
  <2>1. "" \in Words /\ "comment" \in Texts
    BY DEF Words, Texts
  <2> QED
    BY <2>1
<1>2. e \in Seq(Words) /\ e \in Seq(Files) /\ e \in Seq(Words \X Words) /\ e \in Seq(Tokens)
  OBVIOUS
<1>3. EmptyTorrent = [announce_list |-> e, text |-> x, creation_date |-> 0,
                      pieceHashes |-> 0, pieceLength |-> 0, length |-> 0, files |-> e,
                      otherInfo |-> e, url_list |-> e, infoHash |-> e]
  BY Zenon DEF EmptyTorrent
<1> HIDE DEF e, x
<1>4. EmptyTorrent \in Torrents
  BY <1>1, <1>2, <1>3 DEF Torrents
<1>5. /\ EmptyTorrent.announce_list = e /\ EmptyTorrent.text = x
      /\ EmptyTorrent.pieceHashes = 0 /\ EmptyTorrent.files = e /\ EmptyTorrent.length = 0
      /\ EmptyTorrent.url_list = e
  BY <1>3
<1> QED
  BY <1>1, <1>4, <1>5, Zenon DEF e

LEMMA AppendFirst == \A x : Append(<<>>, x) = <<x>>
OBVIOUS

LEMMA StartSet ==
  ASSUME NEW t, Torrent(t), NEW u1, NEW u2, NEW u3, NEW u4, NEW u5,
         u1 = Announced(EmptyTorrent, t),
         u2 = Chosen(t, "announce-list", Announces(u1, t.announce, Len(t.announce)), u1),
         u3 = Chosen(t, "comment", Commented(u2), u2),
         u4 = Chosen(t, "creation date", Dated(u3), u3),
         u5 = Chosen(t, "encoding", Noted(u4, "encoding", "UTF-8"), u4)
  PROVE  Started(t, u5) /\ u1 \in Torrents
<1>0. \A a \in Torrents : Others(a, a)
  BY DEF Others
<1>1. Others(EmptyTorrent, u1) /\ u1.text = EmptyTorrent.text /\
        u1.announce_list = <<t.announce[1]>>
  <2>1. u1.announce_list
          = Append(<<>>, t.announce[1]) /\ Others(EmptyTorrent, u1) /\
          u1.text = EmptyTorrent.text
    BY NothingYet, OthersStay, Zenon
  <2>2. Append(<<>>, t.announce[1]) = <<t.announce[1]>>
    BY AppendFirst, Zenon
  <2> QED
    BY <2>1, <2>2, Zenon
<1>11. u1 \in Torrents
  BY <1>1, Zenon DEF Others
<1>2. /\ Others(u1, u2) /\ u2.text = u1.text
      /\ u2.announce_list
           = IF "announce-list" \in t.options THEN <<t.announce[1]>> \o t.announce
                                                             ELSE <<t.announce[1]>>
  <2> DEFINE v == Announces(u1, t.announce, Len(t.announce))
  <2>1. Others(u1, v) /\ v.text = u1.text /\ v.announce_list = u1.announce_list \o t.announce
    BY <1>11, OthersStay, Zenon
  <2> HIDE DEF v
  <2>2. CASE "announce-list" \in t.options
    <3>1. u2 = v
      BY <2>2, Zenon DEF Chosen, v
    <3> QED
      BY <1>1, <2>1, <2>2, <3>1, Zenon
  <2>3. CASE "announce-list" \notin t.options
    <3>1. u2 = u1
      BY <2>3, Zenon DEF Chosen
    <3> QED
      BY <1>0, <1>1, <1>11, <2>3, <3>1, Zenon
  <2> QED
    BY <2>2, <2>3
<1>12. u2 \in Torrents
  BY <1>2, Zenon DEF Others
<1>3. /\ Others(u2, u3) /\ u3.announce_list = u2.announce_list
      /\ u3.text["comment"] = IF "comment" \in t.options THEN "info" ELSE ""
  <2> DEFINE v == Commented(u2)
  <2>1. Others(u2, v) /\ v.text["comment"] = "info" /\ v.announce_list = u2.announce_list
    BY <1>12, OthersStay, Zenon
  <2> HIDE DEF v
  <2>2. CASE "comment" \in t.options
    <3>1. u3 = v
      BY <2>2, Zenon DEF Chosen, v
    <3> QED
      BY <2>1, <2>2, <3>1, Zenon
  <2>3. CASE "comment" \notin t.options
    <3>1. u3 = u2
      BY <2>3, Zenon DEF Chosen
    <3>2. u2.text["comment"] = ""
      BY <1>1, <1>2, NothingYet, Zenon
    <3> QED
      BY <1>0, <1>12, <2>3, <3>1, <3>2, Zenon
  <2> QED
    BY <2>2, <2>3
<1>13. u3 \in Torrents
  BY <1>3, Zenon DEF Others
<1>4. Others(u3, u4) /\ u4.text = u3.text /\ u4.announce_list = u3.announce_list
  <2> DEFINE v == Dated(u3)
  <2>1. Others(u3, v) /\ v.text = u3.text /\ v.announce_list = u3.announce_list
    BY <1>13, OthersStay, Zenon
  <2> HIDE DEF v
  <2>2. u4 = v \/ u4 = u3
    BY Zenon DEF Chosen, v
  <2> QED
    BY <1>0, <1>13, <2>1, <2>2, Zenon
<1>14. u4 \in Torrents
  BY <1>4, Zenon DEF Others
<1>5. Others(u4, u5) /\ u5.text = u4.text /\ u5.announce_list = u4.announce_list
  <2> DEFINE v == Noted(u4, "encoding", "UTF-8")
  <2>1. Others(u4, v) /\ v.text = u4.text /\ v.announce_list = u4.announce_list
    BY <1>14, OthersStay, Zenon
  <2> HIDE DEF v
  <2>2. u5 = v \/ u5 = u4
    BY Zenon DEF Chosen, v
  <2>3. CASE u5 = v
    BY <2>1, <2>3, Zenon
  <2>4. CASE u5 = u4
    BY <1>0, <1>14, <2>4, Zenon
  <2> QED
    BY <2>2, <2>3, <2>4, Zenon
<1>6. /\ u5.announce_list = u2.announce_list /\ u5.text["comment"] = u3.text["comment"]
  <2>1. u4.text = u3.text /\ u5.text = u4.text
    BY <1>4, <1>5, Zenon
  <2>2. u5.text = u3.text
    BY <2>1, Zenon
  <2>3. u3.announce_list = u2.announce_list /\ u4.announce_list = u3.announce_list
        /\ u5.announce_list = u4.announce_list
    BY <1>3, <1>4, <1>5, Zenon
  <2>4. u5.announce_list = u3.announce_list
    BY <2>3, Zenon
  <2>5. u5.announce_list = u2.announce_list
    BY <2>3, <2>4, Zenon
  <2> QED
    BY <2>2, <2>5, Zenon
<1>7. Others(EmptyTorrent, u5)
  <2>1. \A a, b, c : Others(a, b) /\ Others(b, c) => Others(a, c)
    BY Zenon DEF Others
  <2> QED
    BY <1>1, <1>2, <1>3, <1>4, <1>5, <2>1, Zenon
<1>8. u5 \in Torrents /\ u5.pieceHashes = 0 /\ u5.files = <<>> /\ u5.length = 0 /\
        u5.url_list = <<>>
  BY <1>7, NothingYet, Zenon DEF Others
<1> QED
  BY <1>2, <1>3, <1>6, <1>8, <1>11, Zenon DEF Started

LEMMA RunSeven ==
  ASSUME NEW x1 \in Seq(Tokens), NEW x2 \in Seq(Tokens), NEW x3 \in Seq(Tokens),
           NEW x4 \in Seq(Tokens),
         NEW x5 \in Seq(Tokens), NEW x6 \in Seq(Tokens), NEW x7 \in Seq(Tokens),
         NEW s1, NEW s2, NEW s3, NEW s4, NEW s5, NEW s6, NEW s7, NEW s8,
         Run(s1, x1, s2), Run(s2, x2, s3), Run(s3, x3, s4), Run(s4, x4, s5), Run(s5, x5, s6),
         Run(s6, x6, s7), Run(s7, x7, s8)
  PROVE  /\ <<x1, x2, x3, x4, x5, x6, x7>> \in Seq(Seq(Tokens))
         /\ Run(s1, FlattenSeq(<<x1, x2, x3, x4, x5, x6, x7>>), s8)
<1> DEFINE parts == <<x1, x2, x3, x4, x5, x6, x7>>
           Q == Seq(Tokens)
<1>1. /\ parts \in Seq(Q) /\ Len(parts) = 7
      /\ parts[1] = x1 /\ parts[2] = x2 /\ parts[3] = x3 /\ parts[4] = x4
      /\ parts[5] = x5 /\ parts[6] = x6 /\ parts[7] = x7
  <2> HIDE DEF Q
  <2>1. x1 \in Q /\ x2 \in Q /\ x3 \in Q /\ x4 \in Q /\ x5 \in Q /\ x6 \in Q /\ x7 \in Q
    BY DEF Q
  <2> QED
    BY <2>1
<1> HIDE DEF parts
<1>2. PICK flat : Concatenates(flat, Tokens, parts)
  BY <1>1, FlattenSteps
<1> DEFINE a0 == flat[0]
           a1 == flat[1]
           a2 == flat[2]
           a3 == flat[3]
           a4 == flat[4]
           a5 == flat[5]
           a6 == flat[6]
           a7 == flat[7]
<1>3. /\ a0 = <<>> /\ FlattenSeq(parts) = a7
      /\ \A k \in 0 .. 7 : flat[k] \in Q
      /\ \A k \in 1 .. 7 : flat[k] = flat[k - 1] \o parts[k]
  BY <1>1, <1>2 DEF Concatenates
<1>4. a0 \in Q /\ a1 = a0 \o x1
  <2>1. 0 \in 0 .. 7 /\ 1 \in 1 .. 7 /\ 1 - 1 = 0
    OBVIOUS
  <2> QED
    BY <1>1, <1>3, <2>1, Zenon
<1>5. a1 \in Q /\ a2 = a1 \o x2
  <2>1. 1 \in 0 .. 7 /\ 2 \in 1 .. 7 /\ 2 - 1 = 1
    OBVIOUS
  <2> QED
    BY <1>1, <1>3, <2>1, Zenon
<1>6. a2 \in Q /\ a3 = a2 \o x3
  <2>1. 2 \in 0 .. 7 /\ 3 \in 1 .. 7 /\ 3 - 1 = 2
    OBVIOUS
  <2> QED
    BY <1>1, <1>3, <2>1, Zenon
<1>7. a3 \in Q /\ a4 = a3 \o x4
  <2>1. 3 \in 0 .. 7 /\ 4 \in 1 .. 7 /\ 4 - 1 = 3
    OBVIOUS
  <2> QED
    BY <1>1, <1>3, <2>1, Zenon
<1>8. a4 \in Q /\ a5 = a4 \o x5
  <2>1. 4 \in 0 .. 7 /\ 5 \in 1 .. 7 /\ 5 - 1 = 4
    OBVIOUS
  <2> QED
    BY <1>1, <1>3, <2>1, Zenon
<1>9. a5 \in Q /\ a6 = a5 \o x6
  <2>1. 5 \in 0 .. 7 /\ 6 \in 1 .. 7 /\ 6 - 1 = 5
    OBVIOUS
  <2> QED
    BY <1>1, <1>3, <2>1, Zenon
<1>10. a6 \in Q /\ a7 = a6 \o x7
  <2>1. 6 \in 0 .. 7 /\ 7 \in 1 .. 7 /\ 7 - 1 = 6
    OBVIOUS
  <2> QED
    BY <1>1, <1>3, <2>1, Zenon
<1> HIDE DEF a0, a1, a2, a3, a4, a5, a6, a7
<1>11. Run(s1, a0, s1)
  BY <1>3, RunNothing, Zenon
<1>12. Run(s1, a1, s2)
  BY <1>4, <1>11, RunMore, Zenon
<1>13. Run(s1, a2, s3)
  BY <1>5, <1>12, RunMore, Zenon
<1>14. Run(s1, a3, s4)
  BY <1>6, <1>13, RunMore, Zenon
<1>15. Run(s1, a4, s5)
  BY <1>7, <1>14, RunMore, Zenon
<1>16. Run(s1, a5, s6)
  BY <1>8, <1>15, RunMore, Zenon
<1>17. Run(s1, a6, s7)
  BY <1>9, <1>16, RunMore, Zenon
<1>18. Run(s1, a7, s8)
  BY <1>10, <1>17, RunMore, Zenon
<1> QED
  BY <1>1, <1>3, <1>18, Zenon DEF parts, Q

\* What the parser has put into torrentFile when the loop ends.
TorrentRead(t, tf) ==
  /\ tf \in Torrents
  /\ ToSet(tf.announce_list) =
       IF "announce-list" \in t.options THEN ToSet(t.announce) ELSE {t.announce[1]}
  /\ tf.pieceHashes = PieceCount(t) /\ tf.pieceLength = t.pieceLength
  /\ tf.text["name"] = t.name
  /\ tf.text["comment"] = IF "comment" \in t.options THEN "info" ELSE ""
  /\ tf.url_list = IF "url-list" \in t.options THEN <<"u1", "u2">> ELSE <<>>
  /\ IF t.single THEN tf.files = <<>> /\ tf.length = t.files[1].length
                 ELSE tf.length = 0 /\ FilesRight(t.files, tf.files)

LEMMA SetsOf ==
  ASSUME NEW s \in Seq(Words), s # <<>>
  PROVE  ToSet(<<s[1]>>) = {s[1]} /\ ToSet(<<s[1]>> \o s) = ToSet(s)
<1> DEFINE a == s[1]
           one == <<a>>
           both == one \o s
           n == Len(s)
<1>1. n \in Nat \ {0} /\ DOMAIN s = 1 .. n /\ a \in Words
  OBVIOUS
<1>2. ToSet(one) = {a}
  BY DEF ToSet
<1>3. DOMAIN both = 1 .. n + 1 /\ both[1] = a /\ \A k \in 1 .. n : both[k + 1] = s[k]
  BY <1>1
<1> HIDE DEF both, n
<1>4. ASSUME NEW k \in DOMAIN both PROVE both[k] \in ToSet(s)
  <2>1. CASE k = 1
    <3>1. 1 \in DOMAIN s
      BY <1>1
    <3> QED
      BY <1>3, <2>1, <3>1 DEF ToSet
  <2>2. CASE k # 1
    <3>1. k - 1 \in 1 .. n /\ (k - 1) + 1 = k
      BY <1>1, <1>3, <2>2
    <3>2. both[k] = s[k - 1]
      BY <1>3, <3>1
    <3> QED
      BY <1>1, <3>1, <3>2 DEF ToSet
  <2> QED
    BY <2>1, <2>2
<1>5. ASSUME NEW k \in DOMAIN s PROVE s[k] \in ToSet(both)
  <2>1. k + 1 \in DOMAIN both /\ both[k + 1] = s[k]
    BY <1>1, <1>3
  <2> QED
    BY <2>1 DEF ToSet
<1>6. ToSet(both) = ToSet(s)
  BY <1>4, <1>5 DEF ToSet
<1> QED
  BY <1>2, <1>6 DEF both

LEMMA AllRead ==
  ASSUME NEW t, Torrent(t), NEW u5, Started(t, u5), NEW u6, InfoRight(t, u5, u6),
         NEW u7, u7 = Chosen(t, "url-list", Linked(u6), u6)
  PROVE  /\ u6 \in Torrents /\ u6.url_list = <<>>
         /\ TorrentRead(t, u7)
<1>1. PICK u \in Torrents : FirstRight(t, u5, u) /\ SetsInfo(t, u, u6)
  BY Zenon DEF InfoRight
<1>2. u5 \in Torrents /\ u5.files = <<>> /\ u5.length = 0 /\ u5.url_list = <<>> /\
        u5.pieceHashes = 0
  BY Zenon DEF Started
<1>3. /\ u.announce_list = u5.announce_list /\ u.text = u5.text /\ u.pieceHashes = 0 /\
           u.url_list = <<>>
      /\ IF t.single THEN u.files = <<>> /\ u.length = t.files[1].length
                     ELSE u.length = 0 /\ FilesRight(t.files, u.files)
  <2>1. CASE t.single
    <3> DEFINE n == t.files[1].length
    <3>1. u = [u5 EXCEPT !.length = n]
      BY <1>1, <2>1, Zenon DEF FirstRight
    <3> HIDE DEF n
    <3>2. /\ u.announce_list = u5.announce_list /\ u.text = u5.text /\
               u.pieceHashes = u5.pieceHashes
          /\ u.url_list = u5.url_list /\ u.files = u5.files /\ u.length = n
      BY <1>2, <3>1 DEF Torrents
    <3> QED
      BY <1>2, <2>1, <3>2, Zenon DEF n
  <2>2. CASE ~t.single
    <3>0. PICK files2 : \E notes2 \in Notes :
            FilesRight(t.files, files2) /\ u = Of(u5, files2, notes2)
      BY <1>1, <2>2, Zenon DEF FirstRight
    <3>1. PICK notes2 \in Notes :
            FilesRight(t.files, files2) /\ u = Of(u5, files2, notes2)
      BY <3>0, Zenon
    <3>2. /\ u.announce_list = u5.announce_list /\ u.text = u5.text /\
               u.pieceHashes = u5.pieceHashes
          /\ u.url_list = u5.url_list /\ u.files = files2 /\ u.length = u5.length
      BY <1>2, <3>1 DEF Torrents, Of
    <3> QED
      BY <1>2, <2>2, <3>1, <3>2, Zenon
  <2> QED
    BY <2>1, <2>2
<1>4. /\ u6 \in Torrents /\ u6.text["name"] = t.name /\ u6.text["comment"] = u5.text["comment"]
      /\ u6.pieceLength = t.pieceLength /\ u6.announce_list = u5.announce_list
      /\ u6.url_list = <<>>
      /\ IF t.single THEN u6.files = <<>> /\ u6.length = t.files[1].length
                     ELSE u6.length = 0 /\ FilesRight(t.files, u6.files)
  <2>1. /\ u6 \in Torrents /\ u6.text["name"] = t.name /\ u6.text["comment"] = u.text["comment"]
        /\ u6.pieceLength = t.pieceLength /\ u6.announce_list = u.announce_list
        /\ u6.url_list = u.url_list /\ u6.files = u.files /\ u6.length = u.length
    BY <1>1, Zenon DEF SetsInfo
  <2> QED
    BY <1>3, <2>1
<1>5. u6.pieceHashes = PieceCount(t)
  <2>1. u6.pieceHashes = 0 + PieceCount(t)
    BY <1>1, <1>3, Zenon DEF SetsInfo
  <2>2. PieceCount(t) \in Nat
    BY DEF Torrent
  <2> QED
    BY <2>1, <2>2
<1>6. ToSet(u6.announce_list)
        = IF "announce-list" \in t.options THEN ToSet(t.announce) ELSE {t.announce[1]}
  <2>1. t.announce \in Seq(Words) /\ t.announce # <<>>
    BY Zenon DEF Torrent
  <2>2. u6.announce_list = IF "announce-list" \in t.options THEN <<t.announce[1]>> \o t.announce
                                                            ELSE <<t.announce[1]>>
    BY <1>4, Zenon DEF Started
  <2>3. ToSet(<<t.announce[1]>>) = {t.announce[1]} /\ ToSet(<<t.announce[1]>> \o t.announce)
          = ToSet(t.announce)
    BY <2>1, SetsOf
  <2> QED
    BY <2>2, <2>3, Zenon
<1>7. u5.text["comment"] = IF "comment" \in t.options THEN "info" ELSE ""
  BY Zenon DEF Started
<1> DEFINE v == Linked(u6)
<1>8. /\ v \in Torrents /\ v.text = u6.text /\ v.pieceLength = u6.pieceLength
      /\ v.pieceHashes = u6.pieceHashes /\ v.announce_list = u6.announce_list
      /\ v.files = u6.files /\ v.length = u6.length /\ v.url_list = <<"u1", "u2">>
  <2> DEFINE w == <<"u1", "u2">>
  <2>1. w \in Seq(Words)
    <3>1. "u1" \in Words /\ "u2" \in Words
      BY DEF Words
    <3> QED
      BY <3>1
  <2>2. v = [u6 EXCEPT !.url_list = w]
    BY Zenon DEF Linked
  <2> HIDE DEF w, v
  <2>3. /\ v \in Torrents /\ v.text = u6.text /\ v.pieceLength = u6.pieceLength
        /\ v.pieceHashes = u6.pieceHashes /\ v.announce_list = u6.announce_list
        /\ v.files = u6.files /\ v.length = u6.length /\ v.url_list = w
    BY <1>4, <2>1, <2>2 DEF Torrents
  <2> QED
    BY <2>3, Zenon DEF w
<1> HIDE DEF v
<1>9. /\ u7 \in Torrents /\ u7.text = u6.text /\ u7.pieceLength = u6.pieceLength
      /\ u7.pieceHashes = u6.pieceHashes /\ u7.announce_list = u6.announce_list
      /\ u7.files = u6.files /\ u7.length = u6.length
      /\ u7.url_list = IF "url-list" \in t.options THEN <<"u1", "u2">> ELSE <<>>
  <2>1. CASE "url-list" \in t.options
    <3>1. u7 = v
      BY <2>1, Zenon DEF Chosen, v
    <3> QED
      BY <1>8, <2>1, <3>1, Zenon
  <2>2. CASE "url-list" \notin t.options
    <3>1. u7 = u6
      BY <2>2, Zenon DEF Chosen
    <3> QED
      BY <1>4, <2>2, <3>1, Zenon
  <2> QED
    BY <2>1, <2>2
<1>10. TorrentRead(t, u7)
  BY <1>4, <1>5, <1>6, <1>7, <1>9 DEF TorrentRead
<1> QED
  BY <1>4, <1>10

EncodeEntries(t) ==
  <<Str("announce") \o Str(t.announce[1]),
    Entry(t, "announce-list", AnnounceList(t)),
    Entry(t, "comment", Str("comment") \o Str("info")),
    Entry(t, "creation date", Str("creation date") \o Number(7)),
    Entry(t, "encoding", Str("encoding") \o Str("UTF-8")),
    Str("info") \o Info(t),
    Entry(t, "url-list", Str("url-list") \o Strs(<<"u1", "u2">>))>>

LEMMA EncodeIsDict == \A t : Encode(t) = Dict(EncodeEntries(t))
BY Zenon DEF Encode, EncodeEntries, AnnounceList

\* The state of the loop between two entries, with what infoString holds.
Resting(op, fs, prev, file, tf, info) == At(Rest(op, 0, fs, prev, file, tf), info)

\* Before and after the info dictionary infoString does not change.
LEMMA Unheard ==
  ASSUME NEW p, NEW q, NEW x, Reads(FALSE, p, x, q), NEW info \in Seq(Tokens)
  PROVE  Run(At(p, info), x, At(q, info))
BY Zenon DEF Reads, Heard

\* The entries before info.
LEMMA StartReads ==
  ASSUME NEW t, Torrent(t), NEW op \in Stack
  PROVE  \E prev, tf, s2, s3, s4, s5 :
           /\ Started(t, tf)
           /\ Run(Resting(op, 0, "", EmptyFile, EmptyTorrent, <<>>), EncodeEntries(t)[1], s2)
           /\ Run(s2, EncodeEntries(t)[2], s3) /\ Run(s3, EncodeEntries(t)[3], s4)
           /\ Run(s4, EncodeEntries(t)[4], s5)
           /\ Run(s5, EncodeEntries(t)[5], Resting(op, 0, prev, EmptyFile, tf, <<>>))
           /\ \A k \in 1 .. 5 : EncodeEntries(t)[k] \in Seq(Tokens)
<1> DEFINE u0 == EmptyTorrent
           u1 == Announced(u0, t)
           v2 == Announces(u1, t.announce, Len(t.announce))
           u2 == Chosen(t, "announce-list", v2, u1)
           v3 == Commented(u2)
           u3 == Chosen(t, "comment", v3, u2)
           v4 == Dated(u3)
           u4 == Chosen(t, "creation date", v4, u3)
           v5 == Noted(u4, "encoding", "UTF-8")
           u5 == Chosen(t, "encoding", v5, u4)
           y2 == AnnounceList(t)
           y3 == Str("comment") \o Str("info")
           y4 == Str("creation date") \o Number(7)
           y5 == Str("encoding") \o Str("UTF-8")
           x1 == Str("announce") \o Str(t.announce[1])
           x2 == Entry(t, "announce-list", y2)
           x3 == Entry(t, "comment", y3)
           x4 == Entry(t, "creation date", y4)
           x5 == Entry(t, "encoding", y5)
           e == ""
           f == EmptyFile
           prev5 == Chosen(t, "encoding", "", e)
           none == <<>>
<1>0. FALSE \in BOOLEAN /\ 0 \in Nat /\ (FALSE <=> 0 > 0) /\ 0 # 1 /\ none \in Seq(Tokens)
  OBVIOUS
<1>1. Started(t, u5) /\ u1 \in Torrents
  BY StartSet, Zenon
<1>2. f.length = 0
  BY EmptyFields
<1> HIDE DEF f, e
<1>3. x1 \in Seq(Tokens) /\ Reads(FALSE, Rest(op, 0, 0, e, f, u0), x1, Rest(op, 0, 0, e, f, u1))
  BY AnnounceOfTorrent
<1>4. x2 \in Seq(Tokens) /\ Reads(FALSE, Rest(op, 0, 0, e, f, u1), x2, Rest(op, 0, 0, e, f, u2))
  <2> HIDE DEF u1
  <2>1. y2 \in Seq(Tokens) /\
          Reads(FALSE, Rest(op, 0, 0, e, f, u1), y2, Rest(op, 0, 0, e, f, v2))
    BY <1>0, <1>1, <1>2, ListOfTorrent
  <2>2. Chosen(t, "announce-list", e, e) = e
    BY Zenon DEF Chosen
  <2> HIDE DEF y2, v2
  <2>3. /\ x2 \in Seq(Tokens)
        /\ Reads(FALSE, Rest(op, 0, 0, e, f, u1), x2,
             Rest(op, 0, 0, Chosen(t, "announce-list", e, e), f, u2))
    BY <1>0, <2>1, OptionReads
  <2> QED
    BY <2>2, <2>3, Zenon
<1>5. x3 \in Seq(Tokens) /\ Reads(FALSE, Rest(op, 0, 0, e, f, u2), x3, Rest(op, 0, 0, e, f, u3))
  <2> HIDE DEF u2
  <2>1. y3 \in Seq(Tokens) /\
          Reads(FALSE, Rest(op, 0, 0, e, f, u2), y3, Rest(op, 0, 0, e, f, v3))
    BY <1>0, <1>2, NotesOfTorrent
  <2>2. Chosen(t, "comment", e, e) = e
    BY Zenon DEF Chosen
  <2> HIDE DEF y3, v3
  <2>3. /\ x3 \in Seq(Tokens)
        /\ Reads(FALSE, Rest(op, 0, 0, e, f, u2), x3,
             Rest(op, 0, 0, Chosen(t, "comment", e, e), f, u3))
    BY <1>0, <2>1, OptionReads
  <2> QED
    BY <2>2, <2>3, Zenon
<1>6. x4 \in Seq(Tokens) /\ Reads(FALSE, Rest(op, 0, 0, e, f, u3), x4, Rest(op, 0, 0, e, f, u4))
  <2> DEFINE key == "creation date"
             z == Chosen(t, key, e, e)
             w == Chosen(t, key, v4, u3)
  <2> HIDE DEF u3
  <2>1. y4 \in Seq(Tokens) /\
          Reads(FALSE, Rest(op, 0, 0, e, f, u3), y4, Rest(op, 0, 0, e, f, v4))
    BY <1>0, <1>2, NotesOfTorrent, Zenon
  <2>2. z = e
    BY Zenon DEF Chosen
  <2> HIDE DEF y4, v4, key
  <2>3. /\ Entry(t, key, y4) \in Seq(Tokens)
        /\ Reads(FALSE, Rest(op, 0, 0, e, f, u3), Entry(t, key, y4), Rest(op, 0, 0, z, f, w))
    BY <1>0, <2>1, OptionReads
  <2> HIDE DEF z
  <2> QED
    BY <2>2, <2>3, Zenon DEF key
<1>7. x5 \in Seq(Tokens) /\
        Reads(FALSE, Rest(op, 0, 0, e, f, u4), x5, Rest(op, 0, 0, prev5, f, u5))
  <2> HIDE DEF u4
  <2>1. y5 \in Seq(Tokens) /\
          Reads(FALSE, Rest(op, 0, 0, e, f, u4), y5, Rest(op, 0, 0, "", f, v5))
    BY <1>0, <1>2, NotesOfTorrent
  <2> HIDE DEF y5, v5
  <2> QED
    BY <1>0, <2>1, OptionReads
<1>8. /\ EncodeEntries(t)[1] = x1 /\ EncodeEntries(t)[2] = x2 /\ EncodeEntries(t)[3] = x3
      /\ EncodeEntries(t)[4] = x4 /\ EncodeEntries(t)[5] = x5
  <2> HIDE DEF x1, x2, x3, x4, x5
  <2> DEFINE x6 == Str("info") \o Info(t)
             x7 == Entry(t, "url-list", Str("url-list") \o Strs(<<"u1", "u2">>))
  <2>1. EncodeEntries(t) = <<x1, x2, x3, x4, x5, x6, x7>>
    BY Zenon DEF EncodeEntries, x1, x2, x3, x4, x5
  <2> HIDE DEF x6, x7
  <2> QED
    BY <2>1
<1> DEFINE s1 == Resting(op, 0, e, f, u0, none)
           s2 == Resting(op, 0, e, f, u1, none)
           s3 == Resting(op, 0, e, f, u2, none)
           s4 == Resting(op, 0, e, f, u3, none)
           s5 == Resting(op, 0, e, f, u4, none)
           s6 == Resting(op, 0, prev5, f, u5, none)
<1> HIDE DEF x1, x2, x3, x4, x5, u0, u1, u2, u3, u4, u5, none, prev5
<1>9. /\ Run(s1, x1, s2) /\ Run(s2, x2, s3) /\ Run(s3, x3, s4) /\ Run(s4, x4, s5) /\
           Run(s5, x5, s6)
  BY <1>0, <1>3, <1>4, <1>5, <1>6, <1>7, Unheard, Zenon DEF Resting
<1>10. \A k \in 1 .. 5 : EncodeEntries(t)[k] \in Seq(Tokens)
  <2>1. \A k \in 1 .. 5 : k = 1 \/ k = 2 \/ k = 3 \/ k = 4 \/ k = 5
    OBVIOUS
  <2> QED
    BY <1>3, <1>4, <1>5, <1>6, <1>7, <1>8, <2>1, Zenon
<1>11. /\ Run(s1, EncodeEntries(t)[1], s2) /\ Run(s2, EncodeEntries(t)[2], s3)
       /\ Run(s3, EncodeEntries(t)[3], s4) /\ Run(s4, EncodeEntries(t)[4], s5)
       /\ Run(s5, EncodeEntries(t)[5], s6)
  BY <1>8, <1>9, Zenon
<1> HIDE DEF s2, s3, s4, s5
<1> QED
  BY <1>1, <1>10, <1>11, Zenon DEF s1, s6, e, f, u0, none

\* All entries of the torrent file.
LEMMA EntriesRead ==
  ASSUME NEW t, Torrent(t), NEW op \in Stack
  PROVE  /\ EncodeEntries(t) \in Seq(Seq(Tokens)) /\ Info(t) \in Seq(Tokens)
         /\ \E fs, prev, file, tf :
              /\ file.length = 0 /\ TorrentRead(t, tf)
              /\ Run(Resting(op, 0, "", EmptyFile, EmptyTorrent, <<>>),
                   FlattenSeq(EncodeEntries(t)),
                     Resting(op, fs, prev, file, tf, Info(t)))
<1> DEFINE all == EncodeEntries(t)
           x1 == all[1]
           x2 == all[2]
           x3 == all[3]
           x4 == all[4]
           x5 == all[5]
           info == Info(t)
           x6 == Str("info") \o info
           y7 == Str("url-list") \o Strs(<<"u1", "u2">>)
           x7 == Entry(t, "url-list", y7)
           s1 == Resting(op, 0, "", EmptyFile, EmptyTorrent, <<>>)
<1>0. FALSE \in BOOLEAN /\ 0 \in Nat /\ (FALSE <=> 0 > 0) /\ <<>> \in Seq(Tokens)
  OBVIOUS
<1>1. all = <<x1, x2, x3, x4, x5, x6, x7>>
  <2> DEFINE z1 == Str("announce") \o Str(t.announce[1])
             z2 == Entry(t, "announce-list", AnnounceList(t))
             z3 == Entry(t, "comment", Str("comment") \o Str("info"))
             z4 == Entry(t, "creation date", Str("creation date") \o Number(7))
             z5 == Entry(t, "encoding", Str("encoding") \o Str("UTF-8"))
  <2>1. all = <<z1, z2, z3, z4, z5, x6, x7>>
    BY Zenon DEF EncodeEntries
  <2> HIDE DEF z1, z2, z3, z4, z5, x6, x7, all
  <2> QED
    BY <2>1
<1> HIDE DEF all
<1>2. PICK prev, u5, s2, s3, s4, s5 :
        /\ Started(t, u5) /\ Run(s1, x1, s2) /\ Run(s2, x2, s3) /\ Run(s3, x3, s4) /\
             Run(s4, x4, s5)
        /\ Run(s5, x5, Resting(op, 0, prev, EmptyFile, u5, <<>>))
        /\ \A k \in 1 .. 5 : all[k] \in Seq(Tokens)
  BY StartReads, Zenon DEF all
<1>3. x1 \in Seq(Tokens) /\ x2 \in Seq(Tokens) /\ x3 \in Seq(Tokens) /\ x4 \in Seq(Tokens) /\
        x5 \in Seq(Tokens)
  <2> DEFINE Q == Seq(Tokens)
  <2>1. \A k \in 1 .. 5 : all[k] \in Q
    BY <1>2
  <2> HIDE DEF Q
  <2> QED
    BY <2>1 DEF Q
<1>4. u5 \in Torrents /\ u5.files = <<>>
  BY <1>2, Zenon DEF Started
<1> DEFINE p6 == Rest(op, 0, 0, prev, EmptyFile, u5)
           q6 == Core(op, "info", 0, 0, 0, prev, <<>>, EmptyFile, u5)
<1>5. Str("info") \in Seq(Tokens) /\ Reads(FALSE, p6, Str("info"), q6)
  <2> DEFINE key == "info"
  <2>1. key \in Keys \ {"files"} /\ key \in Words
    BY DEF Keys, Words
  <2> HIDE DEF key
  <2>2. Str(key) \in Seq(Tokens)
    BY <2>1, Typed
  <2>3. Reads(FALSE, p6, Str(key), Core(op, key, 0, 0, 0, prev, <<>>, EmptyFile, u5))
    BY <1>0, <2>1, KeyReads DEF Rest
  <2> QED
    BY <2>2, <2>3 DEF key
<1>6. /\ info \in Seq(Tokens)
      /\ \E fs2, prev2, file2, tf2 :
           /\ fs2 # 1 /\ file2.length = 0 /\ InfoRight(t, u5, tf2)
           /\ Reads(TRUE, q6, info, Rest(op, 0, fs2, prev2, file2, tf2))
  BY <1>4, InfoReads
<1> HIDE DEF info
<1>7. PICK fs, prev2, file, u6 :
        /\ fs # 1 /\ file.length = 0 /\ InfoRight(t, u5, u6)
        /\ Reads(TRUE, q6, info, Rest(op, 0, fs, prev2, file, u6))
  BY <1>6
<1> DEFINE p7 == Rest(op, 0, fs, prev2, file, u6)
           v7 == Linked(u6)
           u7 == Chosen(t, "url-list", v7, u6)
           prev7 == Chosen(t, "url-list", prev2, prev2)
           p8 == Rest(op, 0, fs, prev7, file, u7)
<1>8. u6 \in Torrents /\ u6.url_list = <<>> /\ TorrentRead(t, u7)
  BY <1>2, <1>7, AllRead
<1>9. y7 \in Seq(Tokens) /\ Reads(FALSE, p7, y7, Rest(op, 0, fs, prev2, file, v7))
  BY <1>7, <1>8, UrlsOfTorrent
<1>10. x7 \in Seq(Tokens) /\ Reads(FALSE, p7, x7, p8)
  <2> HIDE DEF y7, v7
  <2> QED
    BY <1>0, <1>9, OptionReads
<1> DEFINE s6 == At(p6, <<>>)
           t6 == At(q6, <<>>)
           s7 == At(p7, info)
           s8 == At(p8, info)
<1>11. Run(s6, x6, s7) /\ x6 \in Seq(Tokens)
  <2>1. Run(s6, Str("info"), t6)
    BY <1>0, <1>5, Unheard
  <2>2. Run(t6, info, s7)
    <3>1. Run(At(q6, <<>>), info, At(p7, Heard(TRUE, <<>>, info)))
      BY <1>0, <1>7, Zenon DEF Reads
    <3>2. Heard(TRUE, <<>>, info) = info
      <4>1. <<>> \o info = info
        BY <1>6, ConcatEmptySeq
      <4> QED
        BY <4>1, Zenon DEF Heard
    <3> QED
      BY <3>1, <3>2, Zenon
  <2> HIDE DEF s6, t6, s7
  <2>3. Run(s6, Str("info") \o info, s7)
    BY <1>5, <1>6, <2>1, <2>2, RunMore, Zenon
  <2>4. Str("info") \o info \in Seq(Tokens)
    BY <1>5, <1>6
  <2> QED
    BY <2>3, <2>4
<1> HIDE DEF p7, p8, x7
<1>12. Run(s7, x7, s8)
  BY <1>6, <1>10, Unheard
<1>13. Run(s5, x5, s6)
  BY <1>2, Zenon DEF Resting
<1> HIDE DEF s1, s6, s7, s8, x1, x2, x3, x4, x5, x6
<1>14. /\ <<x1, x2, x3, x4, x5, x6, x7>> \in Seq(Seq(Tokens))
       /\ Run(s1, FlattenSeq(<<x1, x2, x3, x4, x5, x6, x7>>), s8)
  <2>1. Run(s1, x1, s2) /\ Run(s2, x2, s3) /\ Run(s3, x3, s4) /\ Run(s4, x4, s5)
    BY <1>2 DEF x1, x2, x3, x4
  <2> QED
    BY <1>3, <1>10, <1>11, <1>12, <1>13, <2>1, RunSeven
<1>15. all \in Seq(Seq(Tokens)) /\ Run(s1, FlattenSeq(all), s8)
  BY <1>1, <1>14, Zenon
<1>16. Run(s1, FlattenSeq(all), Resting(op, fs, prev7, file, u7, info))
  BY <1>15, Zenon DEF s8, p8, Resting
<1> QED
  BY <1>6, <1>7, <1>8, <1>15, <1>16, Zenon DEF s1, all, info

\* The parser reads the whole torrent file.
LEMMA EncodeReads ==
  ASSUME NEW t, Torrent(t)
  PROVE  /\ Encode(t) \in Seq(Tokens)
         /\ \E s : Run(ParserInit, Encode(t), s) /\ TorrentRead(t, s.tf) /\ s.infoString
              = Info(t)
<1> DEFINE op == <<"d">> \o <<>>
           items == EncodeEntries(t)
           inner == FlattenSeq(items)
           none == <<>>
           e == ""
           a == Core(none, "NOTHING", 0, 0, 0, e, none, EmptyFile, EmptyTorrent)
           b == Rest(op, 0, 0, e, EmptyFile, EmptyTorrent)
           info == Info(t)
<1>0. none \in Seq(Tokens) /\ FALSE \in BOOLEAN
  OBVIOUS
<1>1. op \in Stack
  <2>1. <<"d">> \in Seq(Marks) /\ <<"d">> # <<>> /\ Head(<<"d">>) # "i" /\ op = <<"d">>
    BY DEF Marks
  <2> QED
    BY <2>1, Zenon DEF Stack
<1>2. Mark("d") \in Tokens /\ Mark("e") \in Tokens
  BY TokenTypes DEF Marks
<1>3. ParserInit = At(a, none)
  <2>1. At(a, none) = State(none, "NOTHING", 0, 0, 0, e, none, EmptyFile, EmptyTorrent, none)
    <3> DEFINE f == EmptyFile
               tf == EmptyTorrent
    <3> HIDE DEF none, e, f, tf
    <3>1. At(Core(none, "NOTHING", 0, 0, 0, e, none, f, tf), none)
            = State(none, "NOTHING", 0, 0, 0, e, none, f, tf, none)
      BY AtIs
    <3> QED
      BY <3>1, Zenon DEF f, tf
  <2> QED
    BY <2>1, Zenon DEF ParserInit, State
<1> HIDE DEF e, none
<1>4. Reads(FALSE, a, <<Mark("d")>>, b)
  <2>1. a.infoCounter = 0 /\ b.infoCounter = 0
    BY CoreDepth DEF Rest
  <2>2. Does(a, Mark("d"), b)
    <3> DEFINE nothing == "NOTHING"
               c == IF nothing # "NOTHING" \/ 0 = 1 THEN 0 + 1 ELSE 0
               d == IF nothing # "NOTHING" \/ 0 = 1 THEN Deeper(0) ELSE 0
    <3>1. nothing # "info"
      OBVIOUS
    <3>2. Does(Core(none, nothing, 0, 0, 0, e, none, EmptyFile, EmptyTorrent), Mark("d"),
               Core(<<"d">> \o none, nothing, c, d, 0, e, none, EmptyFile, EmptyTorrent))
      <4> HIDE DEF nothing
      <4> QED
        BY <3>1, DoesDict
    <3>3. c = 0 /\ d = 0
      OBVIOUS
    <3> HIDE DEF c, d
    <3> QED
      BY <3>2, <3>3, Zenon DEF Rest, none
  <2> HIDE DEF a, b
  <2>3. FALSE <=> a.infoCounter > 0 \/ b.infoCounter > 0
    BY <2>1
  <2> QED
    BY <1>0, <1>2, <2>2, <2>3, ReadsWhatItDoes
<1> HIDE DEF op
<1>5. /\ items \in Seq(Seq(Tokens)) /\ info \in Seq(Tokens)
      /\ \E fs, prev, file, tf :
           /\ file.length = 0 /\ TorrentRead(t, tf)
           /\ Run(Resting(op, 0, e, EmptyFile, EmptyTorrent, none), inner,
                Resting(op, fs, prev, file, tf, info))
  BY <1>1, EntriesRead, Zenon DEF e, none
<1> HIDE DEF items, info
<1>6. PICK fs, prev, file, tf :
        /\ file.length = 0 /\ TorrentRead(t, tf)
        /\ Run(Resting(op, 0, e, EmptyFile, EmptyTorrent, none), inner,
             Resting(op, fs, prev, file, tf, info))
  BY <1>5
<1> DEFINE c == Rest(op, 0, fs, prev, file, tf)
           d == Core(Tail(op), "NOTHING", 0, 0, Left(fs), prev, <<>>, file, tf)
           s == At(d, info)
<1>7. Reads(FALSE, c, <<Mark("e")>>, d)
  <2>1. c.infoCounter = 0 /\ d.infoCounter = 0
    BY CoreDepth DEF Rest
  <2>2. Does(c, Mark("e"), d)
    <3>1. ~(Shallower(0) > 0) /\ Shallower(0) = 0
      BY DEF Shallower
    <3>2. Finishes("NOTHING", <<>>, file, tf, "NOTHING", <<>>, file, tf)
      BY <1>6, FinishesNothing
    <3>3. Does(Core(op, "NOTHING", 0, 0, fs, prev, <<>>, file, tf), Mark("e"),
               Core(Tail(op), "NOTHING", Shallower(0), Shallower(0), Left(fs), prev, <<>>, file,
                 tf))
      BY <3>1, <3>2, DoesEndOuter
    <3> QED
      BY <3>1, <3>3, Zenon DEF Rest
  <2> HIDE DEF c, d
  <2>3. FALSE <=> c.infoCounter > 0 \/ d.infoCounter > 0
    BY <2>1
  <2> QED
    BY <1>0, <1>2, <2>2, <2>3, ReadsWhatItDoes
<1>8. s.tf = tf /\ s.infoString = info
  BY DEF At, Core
<1>9. Run(At(a, none), <<Mark("d")>>, At(b, none)) /\ Run(At(c, info), <<Mark("e")>>, s)
  <2> HIDE DEF a, b, c, d
  <2> QED
    BY <1>0, <1>4, <1>5, <1>7, Unheard
<1>10. Run(At(b, none), inner, At(c, info)) /\ inner \in Seq(Tokens)
  <2>1. inner \in Seq(Tokens)
    BY <1>5, FlattenType
  <2> QED
    BY <1>6, <2>1, Zenon DEF Resting
<1>11. Encode(t) = (<<Mark("d")>> \o inner) \o <<Mark("e")>>
  <2>1. Token("d") = <<Mark("d")>> /\ Token("e") = <<Mark("e")>>
    BY TokenTypes DEF Marks
  <2>2. Dict(items) = (<<Mark("d")>> \o inner) \o <<Mark("e")>>
    BY <2>1, Zenon DEF Dict
  <2> QED
    BY <2>2, EncodeIsDict, Zenon DEF items
<1>12. <<Mark("d")>> \in Seq(Tokens) /\ <<Mark("e")>> \in Seq(Tokens) /\ <<Mark("d")>> \o
         inner \in Seq(Tokens)
  <2>1. <<Mark("d")>> \in Seq(Tokens) /\ <<Mark("e")>> \in Seq(Tokens)
    BY <1>2
  <2> HIDE DEF inner
  <2> QED
    BY <1>10, <2>1
<1> HIDE DEF a, b, c, s, inner
<1>13. Run(At(a, none), <<Mark("d")>> \o inner, At(c, info))
  BY <1>9, <1>10, <1>12, RunMore, Zenon
<1>14. Run(At(a, none), (<<Mark("d")>> \o inner) \o <<Mark("e")>>, s)
  BY <1>9, <1>12, <1>13, RunMore, Zenon
<1>15. (<<Mark("d")>> \o inner) \o <<Mark("e")>> \in Seq(Tokens)
  BY <1>12
<1>16. Run(ParserInit, Encode(t), s) /\ Encode(t) \in Seq(Tokens)
  BY <1>3, <1>11, <1>14, <1>15, Zenon
<1> QED
  BY <1>6, <1>8, <1>16, Zenon DEF info
=============================================================================
