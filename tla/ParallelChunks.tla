---------------------------- MODULE ParallelChunks ----------------------------
(***************************************************************************)
(* The algorithms of src/c9y/parallel.h that cut a range in chunks, make a  *)
(* task of each chunk, run the tasks with parallel() and combine what they  *)
(* stored.                                                                  *)
(*                                                                          *)
(* One call of one algorithm.  The loop that cuts is run step by step; then *)
(* the tasks run side by side, and the algorithm goes on when all of them   *)
(* have ended, which is what module Parallel shows of parallel().  Positions*)
(* are counted from 1, and the end of a range of n elements is n + 1.       *)
(*                                                                          *)
(* A std::vector<bool> packs WordBits results in a word.  A task that       *)
(* stores a result there reads the word and writes it back, in two steps.   *)
(*                                                                          *)
(* No name of this module is one of module Parallel: a module can extend    *)
(* both.                                                                    *)
(***************************************************************************)
EXTENDS Integers, Sequences, FiniteSets, SequencesExt

CONSTANTS
  Values,      \* the elements of a range; as keys 0 is Key{}
  Inits,       \* the initial values of a reduction
  MaxLength,   \* bound: the length of a range
  MaxChunk,    \* bound: the chunk size
  WordBits     \* the results in a word of a std::vector<bool>

ASSUME ValuesAssumption == Values \subseteq Nat /\ Inits \subseteq Nat
ASSUME ChunkAssumption == MaxLength \in Nat /\ MaxChunk \in Nat \ {0}
ASSUME WordAssumption == WordBits \in Nat \ {0}

Bools   == {"all_of", "any_of", "none_of"}
Counts  == {"count", "count_if"}
Reduces == {"reduce", "reduce_op"}
Storers == Bools \cup Counts \cup Reduces
Writers == {"generate", "for_each", "transform", "copy"}
Algorithms == Storers \cup Writers \cup {"map_reduce"}

VARIABLES
  algo, input, chunk_size, init,   \* the call
  loop,      \* the loop that cuts: the length of its range and its iterators
  tasks,     \* what it has cut; at: the next element, word: what was read
  results,   \* one per task
  out,       \* per position of the output: what was written there, in order
  shuffled,  \* map_reduce: per key the list of its values
  stage,     \* map_reduce: which of its transforms is running
  answer     \* what was returned; empty until then

request == <<algo, input, chunk_size, init>>
chunkVars == <<request, loop, tasks, results, out, shuffled, stage, answer>>

-----------------------------------------------------------------------------
(* Cutting.                                                                 *)

\* Mutant: the last, shorter chunk is forgotten.
ResultsSizeRoundDown(n, c) == n \div c

\* The number of chunks of size c in n elements.
ResultsSize(n, c) == IF n % c = 0 THEN n \div c ELSE n \div c + 1

\* By how much an iterator moves towards the end of its range.
SafeAdvance(iter, end, count) == IF end - iter < count THEN end - iter ELSE count

LoopStart(n) ==
  [size |-> n, b |-> 1, e |-> 1 + SafeAdvance(1, n + 1, chunk_size), ri |-> 1, ob |-> 1]

RangeEnd == loop.size + 1
NextTask == [b |-> loop.b, e |-> loop.e, ri |-> loop.ri, ob |-> loop.ob,
             at |-> loop.b, word |-> <<>>]

\* Mutant: the iterator of the results stays where it is.
CutSameResult ==
  /\ loop.b # RangeEnd
  /\ tasks' = Append(tasks, NextTask)
  /\ LET n == SafeAdvance(loop.e, RangeEnd, chunk_size) IN
       loop' = [loop EXCEPT !.b = loop.e, !.e = @ + n, !.ob = @ + n]
  /\ UNCHANGED <<request, results, out, shuffled, stage, answer>>

\* One round of the loop.  Every algorithm has its own copy of it; ri is there
\* in those with results, ob in those with an output.
Cut ==
  /\ loop.b # RangeEnd
  /\ tasks' = Append(tasks, NextTask)
  /\ LET n == SafeAdvance(loop.e, RangeEnd, chunk_size) IN
       loop' = [loop EXCEPT !.b = loop.e, !.e = @ + n, !.ri = @ + 1, !.ob = @ + n]
  /\ UNCHANGED <<request, results, out, shuffled, stage, answer>>

-----------------------------------------------------------------------------
(* The tasks, started when the loop is over, and the end of the call.       *)

Runs(k) == loop.b = RangeEnd /\ tasks[k].at # tasks[k].e
AllEnded == loop.b = RangeEnd /\ \A k \in DOMAIN tasks : tasks[k].at = tasks[k].e
Chunk(k) == SubSeq(input, tasks[k].b, tasks[k].e - 1)

\* results[ri] = value
Store(k, value) ==
  /\ Runs(k)
  /\ results' = [results EXCEPT ![tasks[k].ri] = value]
  /\ tasks' = [tasks EXCEPT ![k].at = tasks[k].e]
  /\ UNCHANGED <<request, loop, out, shuffled, stage, answer>>

\* The results that are in one word with result r.
WordOf(r) == {q \in DOMAIN results : (q - 1) \div WordBits = (r - 1) \div WordBits}

\* The same on a std::vector<bool>: the word is read, changed and written.
StoreBit(k, value) ==
  /\ Runs(k)
  /\ \/ /\ tasks[k].word = <<>>
        /\ tasks' = [tasks EXCEPT ![k].word =
             [q \in WordOf(tasks[k].ri) |-> IF q = tasks[k].ri THEN value ELSE results[q]]]
        /\ UNCHANGED results
     \/ /\ tasks[k].word # <<>>
        /\ results' = [q \in DOMAIN results |->
             IF q \in DOMAIN tasks[k].word THEN tasks[k].word[q] ELSE results[q]]
        /\ tasks' = [tasks EXCEPT ![k].at = tasks[k].e, ![k].word = <<>>]
  /\ UNCHANGED <<request, loop, out, shuffled, stage, answer>>

\* The next element of a task writes one position; from: where the task's
\* first element goes.
Write(k, from) ==
  /\ Runs(k)
  /\ LET to == from + tasks[k].at - tasks[k].b IN
       out' = [out EXCEPT ![to] = Append(@, tasks[k].at)]
  /\ tasks' = [tasks EXCEPT ![k].at = @ + 1]
  /\ UNCHANGED <<request, loop, results, shuffled, stage, answer>>

Return(value) ==
  /\ AllEnded /\ answer = <<>>
  /\ answer' = <<value>>
  /\ UNCHANGED <<request, loop, tasks, results, out, shuffled, stage>>

-----------------------------------------------------------------------------
(* The algorithms.                                                          *)

Satisfies(x) == x # 0
IsValue(x)   == x = 1
CountIn(s, Test(_)) == Cardinality({i \in DOMAIN s : Test(s[i])})

\* What a reduction applies: plus, or in its stead an operator of the caller's.
Apply(op, x, y) == IF op = "times" THEN x * y ELSE x + y

\* std::accumulate; and std::reduce, which may take its range in any order.
Fold(op, base, s) ==
  LET partial[n \in 0..Len(s)] ==
        IF n = 0 THEN base ELSE Apply(op, partial[n - 1], s[n])
  IN  partial[Len(s)]

ParallelAllOf ==
  /\ algo = "all_of"
  /\ \/ Cut
     \/ \E k \in DOMAIN tasks : StoreBit(k, \A x \in Range(Chunk(k)) : Satisfies(x))
     \/ Return(\A r \in DOMAIN results : results[r])

ParallelAnyOf ==
  /\ algo = "any_of"
  /\ \/ Cut
     \/ \E k \in DOMAIN tasks : StoreBit(k, \E x \in Range(Chunk(k)) : Satisfies(x))
     \/ Return(\E r \in DOMAIN results : results[r])

ParallelNoneOf ==
  /\ algo = "none_of"
  /\ \/ Cut
     \/ \E k \in DOMAIN tasks : StoreBit(k, \A x \in Range(Chunk(k)) : ~Satisfies(x))
     \/ Return(\A r \in DOMAIN results : results[r])

ParallelCount ==
  /\ algo = "count"
  /\ \/ Cut
     \/ \E k \in DOMAIN tasks : Store(k, CountIn(Chunk(k), IsValue))
     \/ Return(Fold("plus", 0, results))

ParallelCountIf ==
  /\ algo = "count_if"
  /\ \/ Cut
     \/ \E k \in DOMAIN tasks : Store(k, CountIn(Chunk(k), Satisfies))
     \/ Return(Fold("plus", 0, results))

\* The chunks start from the initial value, and so does the whole.
ParallelReduce ==
  /\ algo = "reduce"
  /\ \/ Cut
     \/ \E k \in DOMAIN tasks : Store(k, Fold("plus", init, Chunk(k)))
     \/ Return(Fold("plus", init, results))

\* With an operator of the caller's; here the product.
ParallelReduceOp ==
  /\ algo = "reduce_op"
  /\ \/ Cut
     \/ \E k \in DOMAIN tasks : Store(k, Fold("times", init, Chunk(k)))
     \/ Return(Fold("times", init, results))

ParallelGenerate ==
  /\ algo = "generate"
  /\ Cut \/ (\E k \in DOMAIN tasks : Write(k, tasks[k].b)) \/ Return(out)

ParallelForEach ==
  /\ algo = "for_each"
  /\ Cut \/ (\E k \in DOMAIN tasks : Write(k, tasks[k].b)) \/ Return(out)

\* The output of a chunk starts at ob, which was moved by the length of that
\* chunk, and not by the length of the one before it.
ParallelTransform ==
  /\ algo = "transform"
  /\ Cut \/ (\E k \in DOMAIN tasks : Write(k, tasks[k].ob)) \/ Return(out)

ParallelCopy ==
  /\ algo = "copy"
  /\ Cut \/ (\E k \in DOMAIN tasks : Write(k, tasks[k].ob)) \/ Return(out)

-----------------------------------------------------------------------------
(* map_reduce: a transform of the input to pairs, whose keys are the values *)
(* of the input; a grouping by key; a transform of the groups.  A position  *)
(* that was not written holds the pair of Key{} and OutValue{}.             *)

KeyOf(keys, cell) == IF cell = <<>> THEN 0 ELSE keys[Last(cell)]

\* The cells that hold a pair of key x, in their order.
Group(keys, cells, x) == SelectSeq(cells, LAMBDA cell : KeyOf(keys, cell) = x)

Shuffle ==
  /\ AllEnded /\ stage = "map"
  /\ shuffled' = [x \in {KeyOf(input, out[i]) : i \in DOMAIN out} |-> Group(input, out, x)]
  /\ stage' = "reduce"
  /\ loop' = LoopStart(Cardinality(DOMAIN shuffled'))
  /\ tasks' = <<>>
  /\ out' = [i \in 1..Cardinality(DOMAIN shuffled') |-> <<>>]
  /\ UNCHANGED <<request, results, answer>>

\* A std::map is gone through in the order of its keys.
Ascending(S) ==
  CHOOSE f \in [1..Cardinality(S) -> S] :
    Range(f) = S /\ \A m, n \in DOMAIN f : m < n => f[m] < f[n]

Keys == Ascending(DOMAIN shuffled)
ReducedList(cell) == IF cell = <<>> THEN <<>> ELSE shuffled[Keys[Last(cell)]]

\* A map made of pairs keeps the first one of each key.
Remap ==
  /\ stage = "reduce"
  /\ Return([x \in {KeyOf(Keys, out[i]) : i \in DOMAIN out} |->
       ReducedList(out[SelectInSeq(out, LAMBDA cell : KeyOf(Keys, cell) = x)])])

ParallelMapReduce ==
  /\ algo = "map_reduce"
  /\ Cut \/ (\E k \in DOMAIN tasks : Write(k, tasks[k].ob)) \/ Shuffle \/ Remap

-----------------------------------------------------------------------------
\* Mutant: the results of the predicates start as TRUE.
InitialResultTrue == IF algo \in Bools THEN TRUE ELSE init

\* What the results are before the tasks have stored theirs.
InitialResult == IF algo \in Bools THEN FALSE ELSE init

ChunksInit ==
  /\ algo \in Algorithms
  /\ input \in BoundedSeq(Values, MaxLength)
  /\ chunk_size \in 1..MaxChunk
  /\ init \in IF algo \in Reduces THEN Inits ELSE {0}
  /\ loop = LoopStart(Len(input))
  /\ tasks = <<>>
  /\ results =
       IF algo \in Storers
       THEN [r \in 1..ResultsSize(Len(input), chunk_size) |-> InitialResult] ELSE <<>>
  /\ out = [i \in 1..Len(input) |-> <<>>]
  /\ shuffled = <<>> /\ stage = "map"
  /\ answer = <<>>

ChunksNext ==
  \/ ParallelAllOf \/ ParallelAnyOf \/ ParallelNoneOf
  \/ ParallelCount \/ ParallelCountIf \/ ParallelReduce \/ ParallelReduceOp
  \/ ParallelGenerate \/ ParallelForEach \/ ParallelTransform \/ ParallelCopy
  \/ ParallelMapReduce

ChunksSpec == ChunksInit /\ [][ChunksNext]_chunkVars

-----------------------------------------------------------------------------
(* Properties.                                                              *)

\* The loop stays in its range, cuts chunks that are not empty, and gives
\* each of them a result of its own.
ChunksTypeOK ==
  /\ algo \in Algorithms /\ input \in Seq(Values)
  /\ 1 <= loop.b /\ loop.b <= loop.e /\ loop.e <= RangeEnd
  /\ \A k \in DOMAIN tasks :
       /\ tasks[k].b < tasks[k].e /\ tasks[k].at \in tasks[k].b..tasks[k].e
       /\ algo \in Storers => tasks[k].ri \in DOMAIN results
  /\ \A r \in DOMAIN results : IF algo \in Bools THEN results[r] \in BOOLEAN
                                                  ELSE results[r] \in Nat
  /\ \A i \in DOMAIN out : out[i] \in Seq(1..loop.size)
  /\ stage \in {"map", "reduce"}

\* What the algorithm of the standard library returns; writers write every
\* position once, from the element at that position.
Std ==
  CASE algo = "all_of"    -> \A x \in Range(input) : Satisfies(x)
    [] algo = "any_of"    -> \E x \in Range(input) : Satisfies(x)
    [] algo = "none_of"   -> \A x \in Range(input) : ~Satisfies(x)
    [] algo = "count"     -> CountIn(input, IsValue)
    [] algo = "count_if"  -> CountIn(input, Satisfies)
    [] algo = "reduce"    -> Fold("plus", init, input)
    [] algo = "reduce_op" -> Fold("times", init, input)
    [] algo \in Writers   -> [i \in DOMAIN input |-> <<i>>]
    [] algo = "map_reduce" ->
         [x \in Range(input) |-> Group(input, [i \in DOMAIN input |-> <<i>>], x)]

\* A range of n elements has only chunks of the same length.
Even(n) == n <= chunk_size \/ n % chunk_size = 0
Neutral == IF algo = "reduce" THEN 0 ELSE 1

\* What an answer depends on: a predicate that no other task stores a result
\* beside its own, a reduction that its initial value is neutral, and the
\* algorithms that write an output that all chunks are of one length.
Exact ==
  CASE algo \in Bools -> Len(results) <= 1
    [] algo \in Reduces -> input = <<>> \/ init = Neutral
    [] algo \in {"transform", "copy"} -> Even(Len(input))
    [] algo = "map_reduce" -> Even(Len(input)) /\ Even(Cardinality(Range(input)))
    [] OTHER -> TRUE

\* "Implements a set of standard algorithms but as parallel versions":
\* under those conditions the answer is that of the sequential algorithm,
\* and no two tasks write the same position, however the tasks interleave.
MatchesStd == answer # <<>> /\ Exact => answer[1] = Std

\* Stores that overwrite each other's bits only ever lose a TRUE: when
\* all_of, any_of or none_of returns TRUE that is right, whatever the number
\* of chunks and the interleaving of their tasks.
TrueIsRight == algo \in Bools /\ answer = <<TRUE>> => Std

\* "This function emulates std::transform, but runs in parallel", and the same
\* of std::copy.
TransformMatchesStd ==
  algo \in {"transform", "copy"} /\ answer # <<>> => answer[1] = Std

=============================================================================
