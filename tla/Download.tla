------------------------------ MODULE Download ------------------------------
(***************************************************************************)
(* The download of a file in parts (utils/logic.py, Downloader): the size  *)
(* from a HEAD request, the ranges, a task for each of them, which end in  *)
(* any order, and the parts put together in the file.  A byte is its       *)
(* position in the source; the source does not change.                     *)
(*                                                                         *)
(* Only the status of the first response is looked at.  The HEAD request   *)
(* does not follow redirects and may tell another size; a part may be      *)
(* answered with the body of an error, or with the whole file.             *)
(***************************************************************************)
EXTENDS Integers, Sequences, SequencesExt, FiniteSets

CONSTANTS MaxSize,       \* bound: bytes of the source
          MaxTasks       \* bound: the `threads` asked for

ASSUME DownloadAssumption == MaxSize \in Nat /\ MaxTasks \in Nat

VARIABLES length,        \* bytes of the source
          threads, silent,
          size,          \* Content-Length of the answer to the HEAD request
          dpc,           \* where download() is
          ranges,        \* __get_parts(): the ranges, [first, last]
          fetched,       \* of each range: what its task has brought, or Pending, or Broken
          file           \* what the path holds: bytes, or Earlier

downVars == <<length, threads, silent, size, dpc, ranges, fetched, file>>

Earlier == <<-1>>        \* the file that was there before
Pending == <<-2>>
Broken == <<-3>>
Foreign == <<-4>>        \* bytes that are not those of the range

Bytes(first, last) == [i \in 1 .. last - first + 1 |-> first + i - 1]
Source == Bytes(0, length - 1)

-----------------------------------------------------------------------------
\* range(0, size, step)
Starts(total, step) == {n \in 0 .. total - 1 : n % step = 0}

\* (A plausible slip: the last range is not extended to the end.)
Unextended(total, step) ==
  [i \in 1 .. Cardinality(Starts(total, step)) - 1 |->
     [first |-> (i - 1) * step, last |-> i * step - 1]]

\* One range less than there are starts; the last one reaches to the end.
Parts(total, step) ==
  LET count == Cardinality(Starts(total, step)) - 1
  IN  [i \in 1 .. count |-> [first |-> (i - 1) * step,
                             last |-> IF i = count THEN total - 1 ELSE i * step - 1]]

DownInit ==
  /\ length \in 0 .. MaxSize /\ threads \in 0 .. MaxTasks
  /\ silent \in BOOLEAN /\ size = 0
  /\ dpc = "asked" /\ ranges = <<>> /\ fetched = <<>> /\ file = Earlier

Leaves(pc) == dpc' = pc /\ UNCHANGED <<length, threads, silent>>

\* check(), and the first response is no 200 or does not come.
Refuse == dpc = "asked" /\ Leaves("raised") /\ UNCHANGED <<size, ranges, fetched, file>>

\* threads == 1: the response is written as it comes; a connection that ends
\* early raises, or looks like the end.
Stream ==
  /\ dpc = "asked" /\ threads = 1
  /\ \E n \in 0 .. length :
       file' = Bytes(0, n - 1) /\ (Leaves("done") \/ (n < length /\ Leaves("raised")))
  /\ UNCHANGED <<size, ranges, fetched>>

\* The file is emptied before the parts are known: a HEAD that fails, or a step
\* of 0, for more threads than bytes, leaves it so.
Split ==
  /\ dpc = "asked" /\ threads > 1 /\ file' = <<>>
  /\ \/ Leaves("raised") /\ UNCHANGED <<size, ranges, fetched>>
     \/ \E told \in 0 .. MaxSize :
          /\ told \div threads > 0 /\ Leaves("fetching")
          /\ size' = told /\ ranges' = Parts(told, told \div threads)
          /\ fetched' = [i \in DOMAIN ranges' |-> Pending]

\* What there is of a range.
InRange(i) ==
  IF ranges[i].last < length THEN Bytes(ranges[i].first, ranges[i].last) ELSE Foreign

\* The progress bar makes a number of "" when a range has one byte.
BarFails(i) == ~silent /\ ranges[i].first = ranges[i].last

Fetch(i) ==
  /\ dpc \in {"fetching", "raised"} /\ i \in DOMAIN fetched /\ fetched[i] = Pending
  /\ \E part \in {Broken, Foreign, InRange(i)} :
       (BarFails(i) => part \in {Broken, Foreign}) /\ fetched' = [fetched EXCEPT ![i] = part]
  /\ UNCHANGED <<length, threads, silent, size, dpc, ranges, file>>

\* gather() raises the first exception; the other tasks go on.
GatherRaises ==
  /\ dpc = "fetching" /\ \E i \in DOMAIN fetched : fetched[i] = Broken
  /\ Leaves("raised") /\ UNCHANGED <<size, ranges, fetched, file>>

Join ==
  /\ dpc = "fetching" /\ \A i \in DOMAIN fetched : fetched[i] \notin {Pending, Broken}
  /\ file' = FlattenSeq(fetched) /\ Leaves("done") /\ UNCHANGED <<size, ranges, fetched>>

DownNext == Refuse \/ Stream \/ Split \/ GatherRaises \/ Join \/ \E i \in 1 .. MaxSize : Fetch(i)
DownSpec == DownInit /\ [][DownNext]_downVars

-----------------------------------------------------------------------------
DownTypeOK ==
  /\ dpc \in {"asked", "fetching", "done", "raised"}
  /\ size \in 0 .. MaxSize /\ Len(ranges) = Len(fetched)
  /\ file = Earlier \/ \A i \in DOMAIN file : file[i] \in 0 .. MaxSize \/ file[i] = Foreign[1]

\* A download in parts that reports success holds every byte once and in order,
\* for any size and number of threads and whichever part came last, provided
\* that the HEAD told the size and each answer brought its range: download()
\* itself looks at neither.  It is fetched in no fewer parts than the threads
\* but one.
WholeFile ==
  /\ dpc = "done" /\ threads > 1 /\ size = length /\ (\A i \in DOMAIN fetched : fetched[i] # Foreign)
       => file = Source
  /\ dpc = "fetching" => Cardinality(DOMAIN ranges) >= threads - 1
=============================================================================
