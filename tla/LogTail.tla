------------------------------- MODULE LogTail -------------------------------
(***************************************************************************)
(* A watcher of the log agent (agent/lbro_agent.py): it follows one path   *)
(* by name, reopens the file when another one is found there, and makes an *)
(* event of each line its parser understands.  Meanwhile the application   *)
(* writes, a piece of a line at a time, and the logs are rotated: the file *)
(* is moved away and another one is made at the path.                      *)
(*                                                                         *)
(* Files are numbered as they are made, which stands for their inodes.     *)
(* Text is counted in half-lines, so that a line can be read half written; *)
(* what a line says is chosen when it is parsed.  Truncation in place and  *)
(* the reuse of an inode are left out.                                     *)
(***************************************************************************)
EXTENDS Naturals, Sequences

CONSTANTS
    MaxFiles,    \* bound: files made at the path
    MaxText      \* bound: half-lines in each file

ASSUME TailLimits == MaxFiles \in Nat /\ MaxText \in Nat

VARIABLES
    format,    \* the parser the name of the path selects
    made,      \* files made so far
    present,   \* the file at the path, 0 for none
    text,      \* text[i]: half-lines written to file i
    step,      \* where tail_file stands: "stat", "open" or "read"
    noted,     \* stat.st_ino
    inode,     \* current_inode, 0 for None
    fh,        \* the open file and the position in it; file 0 for None
    openings,  \* where files were opened
    pieces,    \* what was yielded, in order
    pushed     \* the event made of the latest piece, if any

tailVars == <<format, made, present, text, step, noted, inode, fh, openings,
              pieces, pushed>>
logFiles == <<format, made, present, text>>

FileNumbers == 1..MaxFiles

None == [file |-> 0, at |-> 0]

Positions == [file : 0..MaxFiles, at : 0..MaxText]

(* The event types and severities the API accepts.                         *)
AcceptedTypes ==
    {"auth_failure", "sql_injection", "xss", "brute_force", "port_scan",
     "suspicious_request", "system_log", "application_log", "nginx_log",
     "apache_log", "firewall_event", "windows_event", "linux_audit", "custom"}
AcceptedSeverities == {"critical", "high", "medium", "low", "info"}

NoEvent == <<>>

(* What the parsers tell apart in a line.                                  *)
LineKinds == {"denied", "broken", "daemon", "other", "foreign"}

-----------------------------------------------------------------------------
(* A status of 401 or 403 is "denied", one of 500 and more "broken"; a     *)
(* line the expression does not match is "foreign".                        *)
ApacheEvent(k) ==
    CASE k = "foreign" -> NoEvent
      [] k = "denied"  -> <<"auth_failure", "medium">>
      [] OTHER         -> <<"apache_log", "info">>

NginxEvent(k) ==
    CASE k = "foreign" -> NoEvent
      [] k = "denied"  -> <<"auth_failure", "medium">>
      [] k = "broken"  -> <<"application_log", "low">>
      [] OTHER         -> <<"suspicious_request", "info">>

(* A message that speaks of a failure is "denied", one of sudo, su, ssh    *)
(* and the like "daemon".                                                  *)
SyslogEvent(k) ==
    CASE k = "foreign" -> NoEvent
      [] k = "denied"  -> <<"auth_failure", "medium">>
      [] k = "daemon"  -> <<"linux_audit", "low">>
      [] OTHER         -> <<"system_log", "info">>

Parsers == {"nginx", "apache", "syslog"}

EventOf(parser, k) ==
    CASE parser = "nginx"  -> NginxEvent(k)
      [] parser = "apache" -> ApacheEvent(k)
      [] parser = "syslog" -> SyslogEvent(k)

-----------------------------------------------------------------------------
TailInit ==
    /\ format \in Parsers
    /\ made = 0
    /\ present = 0
    /\ text = [i \in FileNumbers |-> 0]
    /\ step = "stat"
    /\ noted = 0
    /\ inode = 0
    /\ fh = None
    /\ openings = {}
    /\ pieces = <<>>
    /\ pushed = NoEvent

tailer == <<step, noted, inode, fh, openings, pieces, pushed>>

(* The application writes to a file it has open, which may have been moved *)
(* away.                                                                   *)
WriteText(i) ==
    /\ i <= made
    /\ text[i] < MaxText
    /\ text' = [text EXCEPT ![i] = @ + 1]
    /\ UNCHANGED <<format, made, present, tailer>>

MoveAway ==
    /\ present # 0
    /\ present' = 0
    /\ UNCHANGED <<format, made, text, tailer>>

MakeFile ==
    /\ present = 0
    /\ made < MaxFiles
    /\ made' = made + 1
    /\ present' = made + 1
    /\ UNCHANGED <<format, text, tailer>>

-----------------------------------------------------------------------------
(* os.stat; without a file at the path the tailer waits and tries again.   *)
Stat ==
    /\ step = "stat"
    /\ present # 0
    /\ noted' = present
    /\ fh' = IF inode # 0 /\ inode # present THEN None ELSE fh
    /\ step' = IF fh' = None THEN "open" ELSE "read"
    /\ UNCHANGED <<logFiles, inode, openings, pieces, pushed>>

(* Mutant of OpenAtEnd: the file is read from its start.                   *)
OpenAtStart ==
    /\ step = "open"
    /\ present # 0
    /\ fh' = [file |-> present, at |-> 0]
    /\ openings' = openings \cup {fh'}
    /\ inode' = noted
    /\ step' = "read"
    /\ UNCHANGED <<logFiles, noted, pieces, pushed>>

(* open and seek to the end: the file is the one at the path by now, the   *)
(* inode that is remembered the one os.stat has seen.                      *)
OpenAtEnd ==
    /\ step = "open"
    /\ present # 0
    /\ fh' = [file |-> present, at |-> text[present]]
    /\ openings' = openings \cup {fh'}
    /\ inode' = noted
    /\ step' = "read"
    /\ UNCHANGED <<logFiles, noted, pieces, pushed>>

OpenFails ==
    /\ step = "open"
    /\ present = 0
    /\ step' = "stat"
    /\ UNCHANGED <<logFiles, noted, inode, fh, openings, pieces, pushed>>

(* How far readline gets: to the end of the line or of the file.           *)
LineEnd == LET whole == fh.at + 2 - (fh.at % 2)
           IN  IF whole <= text[fh.file] THEN whole ELSE text[fh.file]

(* A line is yielded, or what there is of it, and parsed.                  *)
ReadLine ==
    /\ step = "read"
    /\ fh.at < text[fh.file]
    /\ pieces' = Append(pieces,
                   [file |-> fh.file, from |-> fh.at, upto |-> LineEnd])
    /\ fh' = [fh EXCEPT !.at = LineEnd]
    /\ \E k \in LineKinds : pushed' = EventOf(format, k)
    /\ UNCHANGED <<logFiles, step, noted, inode, openings>>

(* The end of the file: wait, and look at the path again.                  *)
EndOfFile ==
    /\ step = "read"
    /\ fh.at = text[fh.file]
    /\ step' = "stat"
    /\ UNCHANGED <<logFiles, noted, inode, fh, openings, pieces, pushed>>

TailNext ==
    \/ \E i \in FileNumbers : WriteText(i)
    \/ MoveAway \/ MakeFile
    \/ Stat \/ OpenAtEnd \/ OpenFails \/ ReadLine \/ EndOfFile

TailSpec == TailInit /\ [][TailNext]_tailVars

-----------------------------------------------------------------------------
Piece == [file : FileNumbers, from : 0..MaxText, upto : 0..MaxText]

TailTypeOK ==
    /\ format \in Parsers
    /\ made \in 0..MaxFiles
    /\ present \in {0, made}
    /\ text \in [FileNumbers -> 0..MaxText]
    /\ step \in {"stat", "open", "read"}
    /\ noted \in 0..MaxFiles /\ inode \in 0..MaxFiles
    /\ fh \in Positions
    /\ openings \subseteq Positions
    /\ pieces \in Seq(Piece)
    /\ pushed \in
          {NoEvent} \cup {EventOf(q, k) : q \in Parsers, k \in LineKinds}

(* Text is yielded in the order of the files and of their lines, and none  *)
(* twice, even when a rotation falls between os.stat and open and the      *)
(* tailer opens the same file again (lbro_agent.py, tail_file).            *)
YieldedInOrder ==
    \A i, j \in DOMAIN pieces :
        i < j => \/ pieces[i].file < pieces[j].file
                 \/ /\ pieces[i].file = pieces[j].file
                    /\ pieces[i].upto <= pieces[j].from

(* Within a file only an opening, at its end, passes text over: every      *)
(* piece begins where an earlier one ended or where the file was opened    *)
(* (lbro_agent.py, tail_file).                                             *)
OnlyOpeningsSkip ==
    \A j \in DOMAIN pieces :
        \/ [file |-> pieces[j].file, at |-> pieces[j].from] \in openings
        \/ \E i \in 1 .. j - 1 : /\ pieces[i].file = pieces[j].file
                                 /\ pieces[i].upto = pieces[j].from

(* No parser makes an event whose type or severity the API turns down      *)
(* (lbro_agent.py, parse_line; events.py, ALLOWED_EVENT_TYPES).            *)
EventsAreAcceptable ==
    pushed = NoEvent \/ pushed \in AcceptedTypes \X AcceptedSeverities

TailIsFaithful == YieldedInOrder /\ OnlyOpeningsSkip /\ EventsAreAcceptable
=============================================================================
