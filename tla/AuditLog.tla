------------------------------ MODULE AuditLog ------------------------------
(***************************************************************************)
(* The audit log of a result (audit_log.py): the timeline lifted to        *)
(* records, written one JSON line each, read back and validated.  A line   *)
(* is the record written on it.  What a reader gets to see is decided by   *)
(* splitlines(): a state string that holds a line boundary which           *)
(* json.dumps(ensure_ascii=False) leaves as it is (U+0085, U+2028, U+2029) *)
(* cuts its line, always inside a JSON string, so that no piece parses.    *)
(***************************************************************************)
EXTENDS LoopProjections

CONSTANT Breaking     \* the states that hold one such line boundary

ASSUME BreakingAssumption == Breaking \subseteq States

SchemaVersion == 1

Torn == [torn |-> TRUE]
BadRecord == [kind |-> "bad record"]

-----------------------------------------------------------------------------
(* What AuditRecord accepts. *)
RecordOk(r) ==
    /\ r.seq >= 0
    /\ r.iteration >= 0
    /\ r.kind \in TimelineKinds
    /\ r.version = SchemaVersion
    /\ {r.from, r.to} \subseteq Strings \cup {None}
    /\ IF r.kind = "agent_acted"
       THEN r.agent # NoAgent /\ r.changed = (r.from # r.to)
       ELSE r.agent = NoAgent

RecordOf(t) ==
    [seq |-> t.sequence, iteration |-> t.iteration, kind |-> t.kind, agent |-> t.agent,
     from |-> t.from, to |-> t.to, changed |-> t.changed, version |-> SchemaVersion]

AuditRecords(r) == LET line == Timeline(r) IN [k \in DOMAIN line |-> RecordOf(line[k])]

(* to_dict, and format_audit_log: a line holds the object of a record. *)
ToDict(r) ==
    [v |-> r.version, seq |-> r.seq, iteration |-> r.iteration, kind |-> r.kind,
     agent |-> r.agent, from |-> r.from, to |-> r.to, changed |-> r.changed]

FormatLog(records) == [n \in DOMAIN records |-> ToDict(records[n])]

(* The lines that a reader sees of one that was written. *)
Pieces(line) ==
    LET cuts == Cardinality({f \in {"from", "to"} : line # Torn /\ line[f] \in Breaking})
    IN  IF cuts = 0 THEN <<line>> ELSE [n \in 1 .. cuts + 1 |-> Torn]

(* _iter_content_lines *)
ContentLines(text) == Joined([k \in DOMAIN text |-> Pieces(text[k])])

(* _record_from_mapping: no unknown field, no required one missing, and   *)
(* the record must be one AuditRecord accepts.                             *)
Required == {"v", "seq", "iteration", "kind"}
Defaults == [agent |-> NoAgent, from |-> None, to |-> None, changed |-> FALSE]

RecordFromMapping(data) ==
    LET Get(f) == IF f \in DOMAIN data THEN data[f] ELSE Defaults[f]
        record == [seq |-> data.seq, iteration |-> data.iteration, kind |-> data.kind,
                   agent |-> Get("agent"), from |-> Get("from"), to |-> Get("to"),
                   changed |-> Get("changed"), version |-> data.v]
    IN  IF /\ DOMAIN data \subseteq Required \cup DOMAIN Defaults
           /\ Required \subseteq DOMAIN data
           /\ RecordOk(record)
        THEN record ELSE BadRecord

(* parse_jsonl_line: the record of a line, or what AuditLogError stands for. *)
ParseLine(line) == IF line = Torn THEN BadRecord ELSE RecordFromMapping(line)

(* parse_jsonl: all records, or the number of the first line that has none. *)
ParseLog(text) ==
    LET read == [n \in DOMAIN ContentLines(text) |-> ParseLine(ContentLines(text)[n])]
        bad == {n \in DOMAIN read : read[n] = BadRecord}
    IN  IF bad = {} THEN [records |-> read]
        ELSE [error |-> CHOOSE n \in bad : \A m \in bad : n <= m]

(* A faulty variant of ValidateLog: the expected number stands still at a   *)
(* line that does not parse.                                               *)
ValidateLogUnaligned(text) ==
    LET lines == ContentLines(text)
        Parses(n) == ParseLine(lines[n]) # BadRecord
        Expected(n) == Cardinality({m \in 1 .. n - 1 : Parses(m)})
    IN  Selected([n \in DOMAIN lines |-> n],
                 {n \in DOMAIN lines :
                    ~Parses(n) \/ ParseLine(lines[n]).seq # Expected(n)})

(* The line parses and its record is the one expected at place n:          *)
(* expected_seq grows at every line, whatever is wrong with it.            *)
InPlace(line, n) == ParseLine(line) # BadRecord /\ ParseLine(line).seq = n - 1

(* validate_jsonl: the numbers of the offending lines, in order. *)
ValidateLog(text) ==
    LET lines == ContentLines(text)
    IN  Selected([n \in DOMAIN lines |-> n], {n \in DOMAIN lines : ~InPlace(lines[n], n)})

-----------------------------------------------------------------------------
(* What may happen to a log on its way to the reader. *)
Without(text, k) == SubSeq(text, 1, k - 1) \o SubSeq(text, k + 1, Len(text))
Twice(text, k) == SubSeq(text, 1, k) \o SubSeq(text, k, Len(text))
Swapped(text, j, k) == [text EXCEPT ![j] = text[k], ![k] = text[j]]
Missing(line, f) == [g \in DOMAIN line \ {f} |-> line[g]]
Extra(line) == [g \in DOMAIN line \cup {"extra"} |-> IF g = "extra" THEN 0 ELSE line[g]]

(* No state on the lines holds a line boundary. *)
Unbroken(text) == \A k \in DOMAIN text : \A f \in {"from", "to"} : text[k][f] \notin Breaking

(* There is a log of a result exactly if its run began with a string, the  *)
(* only state nobody has checked; unless its states hold a line boundary   *)
(* the log reads back as the records written, and validates; and           *)
(* validate_jsonl finds where a log was damaged: the first line after a    *)
(* lost one, a repeated line, both of two lines that changed places (each  *)
(* at its line), and a line half written as one error and no other.  Only  *)
(* losing the end goes unnoticed.  Of a line that lost a field, a required *)
(* one is missed, `changed` where it was true, `agent` where one acted; a  *)
(* field too many is always found.                                         *)
AuditTrail ==
    (result # NoResult /\ phase = "idle") =>
        LET records == AuditRecords(result)
            text == FormatLog(records)
            n == Len(text)
            First(errors) == IF errors = << >> THEN 0 ELSE errors[1]
            Missed(f) == {k \in 1 .. n : ParseLine(Missing(text[k], f)) = BadRecord}
        IN  /\ (\A k \in 1 .. n : RecordOk(records[k])) <=> result.origin \in Strings
            /\ (result.origin \in Strings /\ Unbroken(text)) =>
               /\ ParseLog(text) = [records |-> records]
               /\ ValidateLog(text) = << >>
               /\ \A k \in 1 .. n :
                     /\ First(ValidateLog(Without(text, k))) = IF k = n THEN 0 ELSE k
                     /\ First(ValidateLog(Twice(text, k))) = k + 1
                     /\ ValidateLog([text EXCEPT ![k] = Torn]) = <<k>>
                     /\ ParseLog([text EXCEPT ![k] = Torn]) = [error |-> k]
                     /\ ValidateLog([text EXCEPT ![k] = Extra(@)]) = <<k>>
               /\ \A j \in 1 .. n : \A k \in j + 1 .. n :
                     ValidateLog(Swapped(text, j, k)) = <<j, k>>
               /\ \A f \in Required : Missed(f) = 1 .. n
               /\ Missed("changed") = {k \in 1 .. n : text[k].changed}
               /\ Missed("agent") = {k \in 1 .. n : text[k].kind = "agent_acted"}

(* "JSON Lines -- one self-describing JSON object per line": what was      *)
(* written is what is read, one record per line, whatever the states are.  *)
LogReadsBack ==
    (result # NoResult /\ result.origin \in Strings) =>
        LET text == FormatLog(AuditRecords(result))
        IN  /\ Len(ContentLines(text)) = Len(text)
            /\ ParseLog(text) = [records |-> AuditRecords(result)]
=============================================================================
