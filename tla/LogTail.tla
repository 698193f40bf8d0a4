---- MODULE LogTail ----
(***************************************************************************)
(* How the log parser follows Xray's access log (parseLogFile in           *)
(* src/internal/logparser/parser.go): every tick it opens the path, finds  *)
(* out from inode and size whether the file was rotated or truncated,      *)
(* reads the whole lines after its last position, merges them and          *)
(* remembers the new position.  Meanwhile Xray writes, half lines          *)
(* included, and the administrator's logrotate renames, creates and        *)
(* truncates files.                                                        *)
(*                                                                         *)
(* A line is written in two parts, of which the second holds its newline;  *)
(* positions and sizes count parts.  Lines are numbered as Xray logs them. *)
(***************************************************************************)
EXTENDS Integers, Sequences, SequencesExt

CONSTANTS Inodes,         \* inode numbers of the log's file system
          MaxLines,       \* bound: lines that Xray writes
          MaxRotations,   \* bound: renames of the log
          MaxTruncations, \* bound: truncations of the log
          InodeReuse      \* may a new file get the inode of a removed one?

ASSUME InodesAssumption == Inodes \subseteq Nat \ {0}
ASSUME BoundsAssumption == {MaxLines, MaxRotations, MaxTruncations} \subseteq Nat
ASSUME ReuseAssumption == InodeReuse \in BOOLEAN

VARIABLES
    content,              \* inode -> the parts in the file
    path,                 \* inode the log's path leads to, 0 when there is none
    xrayFile,             \* inode Xray has open for appending, 0 if it is down
    line, halfWritten,    \* the line Xray writes next; is its first part out?
    rotations, truncations,
    used,                 \* inodes that were given to a file
    LastPos, LastInode,   \* MetricsData.LastPos, LastInode
    pc,                   \* the parse goroutine: waiting, opened or reading
    file,                 \* inode of the file it has open, 0 for none
    newPos, buffer,       \* bytes consumed so far; read but not consumed
    delta,                \* lines parsed in this pass
    recorded,             \* lines merged into the metrics, in order
    cut,                  \* history: inodes emptied behind the parser's back
    regrown               \* history: was such a file taken for the old one?

fsVars == <<content, path, used, rotations, truncations>>
xrayVars == <<xrayFile, line, halfWritten>>
passVars == <<newPos, buffer, delta>>
vars == <<fsVars, xrayVars, LastPos, LastInode, pc, file, passVars, recorded, cut,
          regrown>>

First(n) == [line |-> n, nl |-> FALSE]
Rest(n) == [line |-> n, nl |-> TRUE]

----------------------------------------------------------------------------
\* Xray and the file system (not part of the exporter).

XrayWritesHalf ==
    /\ xrayFile # 0 /\ line <= MaxLines /\ ~halfWritten
    /\ content' = [content EXCEPT ![xrayFile] = Append(@, First(line))]
    /\ halfWritten' = TRUE
    /\ UNCHANGED <<path, used, rotations, truncations, xrayFile, line, LastPos,
                   LastInode, pc, file, passVars, recorded, cut, regrown>>

XrayWritesRest ==
    /\ halfWritten
    /\ content' = [content EXCEPT ![xrayFile] = Append(@, Rest(line))]
    /\ halfWritten' = FALSE /\ line' = line + 1
    /\ UNCHANGED <<path, used, rotations, truncations, xrayFile, LastPos, LastInode,
                   pc, file, passVars, recorded, cut, regrown>>

Rename ==
    /\ path # 0 /\ rotations < MaxRotations
    /\ path' = 0 /\ rotations' = rotations + 1
    /\ UNCHANGED <<content, used, truncations, xrayVars, LastPos, LastInode, pc, file,
                   passVars, recorded, cut, regrown>>

\* An open file keeps its inode; any other used one may be free again.
FreeInodes == (Inodes \ {xrayFile, file}) \ (IF InodeReuse THEN {} ELSE used)

Create(i) ==
    /\ path = 0 /\ i \in FreeInodes
    /\ path' = i /\ used' = used \cup {i}
    /\ content' = [content EXCEPT ![i] = <<>>]
    /\ cut' = IF i \in used THEN cut \cup {i} ELSE cut
    /\ UNCHANGED <<rotations, truncations, xrayVars, LastPos, LastInode, pc, file,
                   passVars, recorded, regrown>>

XrayStops ==              \* between two lines
    /\ xrayFile # 0 /\ ~halfWritten
    /\ xrayFile' = 0
    /\ UNCHANGED <<fsVars, line, halfWritten, LastPos, LastInode, pc, file, passVars,
                   recorded, cut, regrown>>

XrayOpens ==
    /\ path # 0 /\ path # xrayFile /\ ~halfWritten
    /\ xrayFile' = path
    /\ UNCHANGED <<fsVars, line, halfWritten, LastPos, LastInode, pc, file, passVars,
                   recorded, cut, regrown>>

\* copytruncate: Xray appends, so it goes on at the new end.
Truncate ==
    /\ path # 0 /\ truncations < MaxTruncations
    /\ truncations' = truncations + 1
    /\ content' = [content EXCEPT ![path] = <<>>]
    /\ cut' = cut \cup {path}
    /\ UNCHANGED <<path, used, rotations, xrayVars, LastPos, LastInode, pc, file,
                   passVars, recorded, regrown>>

----------------------------------------------------------------------------
\* parseLogFile.

Open ==                   \* with no file at the path it returns the error
    /\ pc = "waiting" /\ path # 0
    /\ file' = path /\ pc' = "opened"
    /\ UNCHANGED <<fsVars, xrayVars, LastPos, LastInode, passVars, recorded, cut, regrown>>

\* (mutant: inodes are not compared)
MutantStartPos(inode, size) == IF LastInode # 0 /\ LastPos > size THEN 0 ELSE LastPos
StartPos(inode, size) ==
    IF LastInode # 0 /\ (inode # LastInode \/ LastPos > size) THEN 0 ELSE LastPos

\* The file is adopted, with the old position or from its beginning.
Adopt ==
    /\ LastPos' = StartPos(file, Len(content[file])) /\ LastInode' = file
    /\ cut' = IF LastPos' = 0 THEN cut \ {file} ELSE cut
    /\ regrown' = (regrown \/ (file \in cut /\ LastPos' > 0))

Stat ==
    /\ pc = "opened" /\ pc' = "reading"
    /\ Adopt
    /\ newPos' = LastPos' /\ buffer' = <<>> /\ delta' = <<>>
    /\ UNCHANGED <<fsVars, xrayVars, file, recorded>>

StatFails ==              \* before anything was changed
    /\ pc = "opened" /\ pc' = "waiting" /\ file' = 0
    /\ UNCHANGED <<fsVars, xrayVars, LastPos, LastInode, passVars, recorded, cut, regrown>>

SeekFails ==              \* the file is adopted and not read
    /\ pc = "opened" /\ pc' = "waiting" /\ file' = 0
    /\ Adopt
    /\ UNCHANGED <<fsVars, xrayVars, passVars, recorded>>

\* The bufio.Reader fetches what there is, or a part of it.
Unread == SubSeq(content[file], newPos + Len(buffer) + 1, Len(content[file]))

Fill ==
    /\ pc = "reading" /\ \A i \in DOMAIN buffer : ~buffer[i].nl
    /\ \E k \in 1..Len(Unread) : buffer' = buffer \o SubSeq(Unread, 1, k)
    /\ UNCHANGED <<fsVars, xrayVars, LastPos, LastInode, pc, file, newPos, delta,
                   recorded, cut, regrown>>

FetchLine == Fill /\ buffer' # <<>> /\ buffer'[Len(buffer')].nl

\* The entry in the parts up to a newline: none in the end of a line alone.
\* (mutant: a line that does not parse counts as the zero entry)
MutantParsed(parts) == IF Len(parts) = 2 THEN <<parts[2].line>> ELSE <<0>>
Parsed(parts) == IF Len(parts) = 2 THEN <<parts[2].line>> ELSE <<>>

ReadLine ==
    /\ pc = "reading"
    /\ \E n \in 1..Len(buffer) :
          /\ buffer[n].nl /\ \A i \in 1..n-1 : ~buffer[i].nl
          /\ newPos' = newPos + n
          /\ delta' = delta \o Parsed(SubSeq(buffer, 1, n))
          /\ buffer' = SubSeq(buffer, n + 1, Len(buffer))
    /\ UNCHANGED <<fsVars, xrayVars, LastPos, LastInode, pc, file, recorded, cut, regrown>>

\* (mutant: a trailing part without its newline counts as read)
MutantEndPos == newPos + Len(buffer)
\* (mutant: the position is not moved)
MutantStay == LastPos
EndPos == newPos

\* At the end of the file, or on a read error, what was read is merged.
Finish ==
    /\ pc = "reading" /\ \A i \in DOMAIN buffer : ~buffer[i].nl
    /\ recorded' = recorded \o delta
    /\ LastPos' = EndPos
    /\ file' = 0 /\ pc' = "waiting"
    /\ newPos' = 0 /\ buffer' = <<>> /\ delta' = <<>>
    /\ UNCHANGED <<fsVars, xrayVars, LastInode, cut, regrown>>

EndOfFile == Finish /\ Unread = <<>>
ReadError == Finish /\ Unread # <<>>

----------------------------------------------------------------------------
Init ==
    /\ \E i \in Inodes : path = i /\ xrayFile = i /\ used = {i}
    /\ content = [i \in Inodes |-> <<>>]
    /\ line = 1 /\ halfWritten = FALSE
    /\ rotations = 0 /\ truncations = 0
    /\ LastPos = 0 /\ LastInode = 0
    /\ pc = "waiting" /\ file = 0 /\ newPos = 0 /\ buffer = <<>> /\ delta = <<>>
    /\ recorded = <<>> /\ cut = {} /\ regrown = FALSE

Environment == XrayWritesHalf \/ XrayWritesRest \/ Rename \/ XrayStops
               \/ XrayOpens \/ Truncate \/ \E i \in Inodes : Create(i)
Parser == Open \/ Stat \/ StatFails \/ SeekFails \/ Fill \/ ReadLine \/ EndOfFile
          \/ ReadError

Next == Environment \/ Parser

Spec == Init /\ [][Next]_vars

(* parseLoop's ticker keeps firing and a pass runs to its end; fstat, seek *)
(* and read do not fail for ever, so a line that every pass finds unread   *)
(* is fetched in one of them.  Nothing is assumed of Xray or of the        *)
(* administrator.                                                          *)
Fairness == WF_vars(Open) /\ SF_vars(Stat) /\ WF_vars(Fill) /\ SF_vars(FetchLine)
            /\ WF_vars(ReadLine) /\ WF_vars(EndOfFile)

FairSpec == Spec /\ Fairness

----------------------------------------------------------------------------
Parts == [line : 1..MaxLines, nl : BOOLEAN]

TypeOK ==
    /\ content \in [Inodes -> Seq(Parts)]
    /\ path \in Inodes \cup {0} /\ xrayFile \in Inodes \cup {0} /\ used \subseteq Inodes
    /\ line \in 1..MaxLines+1 /\ halfWritten \in BOOLEAN
    /\ rotations \in 0..MaxRotations /\ truncations \in 0..MaxTruncations
    /\ LastPos \in Nat /\ LastInode \in Inodes \cup {0}
    /\ pc \in {"waiting", "opened", "reading"} /\ file \in Inodes \cup {0}
    /\ newPos \in Nat /\ buffer \in Seq(Parts) /\ delta \in Seq(1..MaxLines)
    /\ recorded \in Seq(1..MaxLines)
    /\ cut \subseteq Inodes /\ regrown \in BOOLEAN

(* No line is counted twice or out of order, whatever is renamed, reused   *)
(* or truncated in the middle of a pass.                                   *)
RecordedInOrder ==
    LET all == recorded \o delta
    IN  \A i, j \in DOMAIN all : i < j => all[i] < all[j]

\* The lines that are whole in the first n parts of a file.
WholeLines(f, n) == {content[f][i].line : i \in {i \in 1..n :
                        i <= Len(content[f]) /\ content[f][i].nl
                        /\ i > 1 /\ content[f][i-1] = First(content[f][i].line)}}

(* Rotation and truncation are handled, as the comment of parseLogFile     *)
(* says: between two passes the position in the file that is there never   *)
(* stands behind a line that was not read.                                 *)
NothingSkipped ==
    pc = "waiting" /\ path # 0 /\ path = LastInode /\ LastPos <= Len(content[path])
        => WholeLines(path, LastPos) \subseteq ToSet(recorded)

(* The same, as long as no emptied file has grown up to the old position   *)
(* before the parser looked: rotations, truncations and part lines cost    *)
(* no line of the file that is there.                                      *)
NothingSkippedUnlessRegrown ==
    ~regrown /\ (path \in cut => LastPos > Len(content[path])) => NothingSkipped

(* A whole line of the file at the path is recorded in the end, unless the *)
(* administrator takes that file away or empties it first.                 *)
LinesRecorded ==
    \A i \in Inodes, n \in 1..MaxLines :
        (path = i /\ i \notin cut /\ ~regrown /\ n \in WholeLines(i, Len(content[i])))
            ~> (n \in ToSet(recorded) \/ path # i \/ i \in cut)
====
