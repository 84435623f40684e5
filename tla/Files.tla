------------------------------- MODULE Files --------------------------------
(***************************************************************************)
(* The files of an isolate (filesystem/IsolateFileSystem.java).  A disk    *)
(* maps the files that are there to their texts, sequences of characters;  *)
(* the archive of the plugin maps its resources the same way.  A filename  *)
(* [root, file] begins with a separator or not; it has no dots, and a text *)
(* is shorter than the buffer of a BufferedWriter.  A call answers the     *)
(* disk it leaves and a result or the exception.                           *)
(***************************************************************************)
EXTENDS Integers, Sequences, FiniteSets, SequencesExt, TLC

Newline == 10
None == << -1 >>
Answer(disk, result) == [disk |-> disk, result |-> result, error |-> FALSE]
Throws(disk) == [disk |-> disk, result |-> None, error |-> TRUE]

\* Every path is taken below the directory of the isolate, that of "/a" like that of "a".
getFile(filename) == filename.file
Written(disk, filename, text) == (getFile(filename) :> text) @@ disk

write(disk, filename, content) == Answer(Written(disk, filename, content), None)

\* The position is one in the content; the writer has emptied the file before it uses it.
writeAt(disk, filename, content, position) ==
  IF position = 0 \/ content = << >> THEN write(disk, filename, content)
  ELSE Throws(Written(disk, filename, << >>))

append(disk, filename, content) ==
  LET f == getFile(filename)
      old == IF f \in DOMAIN disk THEN disk[f] ELSE << >>
  IN Answer(Written(disk, filename, old \o content \o <<Newline>>), None)

-----------------------------------------------------------------------------
read(disk, filename) ==
  IF getFile(filename) \in DOMAIN disk THEN Answer(disk, disk[getFile(filename)]) ELSE Throws(disk)

\* The text for a reader: the file's, or else the resource's of that very name.
getReaderForFile(disk, resources, filename) ==
  IF getFile(filename) \in DOMAIN disk THEN Answer(disk, disk[getFile(filename)])
  ELSE IF filename \in DOMAIN resources THEN Answer(disk, resources[filename])
  ELSE Throws(disk)

\* What BufferedReader.readLine answers until there is nothing left.
LinesOf(text) ==
  LET open == text # << >> /\ Last(text) # Newline
      ends == SetToSortSeq({0} \cup {i \in DOMAIN text : text[i] = Newline}
                           \cup (IF open THEN {Len(text) + 1} ELSE {}), <)
  IN [k \in 1..(Len(ends) - 1) |-> SubSeq(text, ends[k] + 1, ends[k + 1] - 1)]

readLines(disk, resources, filename) ==
  LET reader == getReaderForFile(disk, resources, filename)
  IN IF reader.error THEN reader ELSE Answer(disk, LinesOf(reader.result))

\* String.format knows no "{0}": each line becomes these six characters.
Braces == <<123, 48, 125, 123, 49, 125>>
readString(disk, resources, filename) ==
  LET lines == readLines(disk, resources, filename)
  IN IF lines.error THEN lines ELSE Answer(disk, FlattenSeq([i \in DOMAIN lines.result |-> Braces]))

-----------------------------------------------------------------------------
(* What a reader expects.                                                  *)

Call(disk, c) ==
  CASE c.op = "write"   -> write(disk, c.filename, c.content)
    [] c.op = "writeAt" -> writeAt(disk, c.filename, c.content, c.position)
    [] c.op = "append"  -> append(disk, c.filename, c.content)
Run(calls) == FoldLeft(LAMBDA disk, c : Call(disk, c).disk, << >>, calls)

\* After any calls a file holds what was last written to it by any of its names, followed by
\* a line for each append() since, and nothing if that was a write at a place but the first; what is read is that,
\* line by line.  The first of the calls hides the resource of the same name for good, an
\* append() too.
FileLaws(resources, calls, filename) ==
  LET disk == Run(calls)
      f == filename.file
      mine == SelectSeq(calls, LAMBDA c : c.filename.file = f)
      writes == {i \in DOMAIN mine : mine[i].op # "append"}
      base == IF writes = {} THEN 0 ELSE CHOOSE i \in writes : \A j \in writes : j <= i
      appended == FlattenSeq([i \in 1..(Len(mine) - base) |-> Append(mine[base + i].content, Newline)])
      failed == base > 0 /\ mine[base].op = "writeAt" /\ mine[base].position # 0
      start == IF base = 0 \/ failed THEN << >> ELSE mine[base].content
      lines == readLines(disk, resources, filename)
      text == readString(disk, resources, filename)
  IN IF mine = << >>
     THEN /\ read(disk, filename).error
          /\ lines.error <=> filename \notin DOMAIN resources
          /\ ~lines.error => lines.result = LinesOf(resources[filename])
     ELSE /\ read(disk, filename).result = start \o appended
          /\ start = << >> \/ Last(start) = Newline => lines.result = LinesOf(start) \o LinesOf(appended)
          /\ FlattenSeq(lines.result) = SelectSeq(start \o appended, LAMBDA c : c # Newline)
          /\ Len(text.result) = 6 * Len(lines.result)
=============================================================================
