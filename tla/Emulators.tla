----------------------------- MODULE Emulators ------------------------------
(***************************************************************************)
(* The protocol emulators of the deception engine, as dialogues.           *)
(*                                                                         *)
(* A client's bytes are a sequence of tokens: a word, CR or LF.  An        *)
(* emulator greets (or not), then reads; every read returns some of the    *)
(* bytes sent so far, and the emulator answers what it can make of the     *)
(* bytes it has buffered.  A dialogue is the state of one `handle` call    *)
(* between two reads: the buffer, the bytes taken in, the replies sent, the*)
(* captured note, and the two counters of the SMTP loop.                   *)
(***************************************************************************)
EXTENDS Naturals, Sequences, TLC

LOCAL INSTANCE SequencesExt

CONSTANTS
    MaxBytes,       \* bound: MAX_BYTES of SMTP and Redis, MAX_REQUEST, MAX_BANNER
    MaxCommands     \* bound: MAX_COMMANDS of SMTP

CR == "\r"
LF == "\n"
CRLF == <<CR, LF>>
NoNote == <<>>

Emulator == {"generic", "http", "mysql", "postgres", "redis", "smtp", "ssh"}

\* default_registry: the emulator of a destination port.
for_port(port) ==
    CASE port = 22 -> "ssh"
      [] port \in {25, 587} -> "smtp"
      [] port \in {80, 8080} -> "http"
      [] port = 3306 -> "mysql"
      [] port = 5432 -> "postgres"
      [] port = 6379 -> "redis"
      [] OTHER -> "generic"

Greeting(e) ==
    CASE e = "smtp" -> <<"220">>
      [] e = "ssh" -> <<"version", "kexinit">>
      [] e = "mysql" -> <<"handshake">>
      [] e = "generic" -> <<"banner">>
      [] OTHER -> <<>>

\* A handle call that has greeted; the generic emulator is done by then.
Greeted(e) ==
    [buf |-> <<>>, taken |-> 0, replies |-> Greeting(e), note |-> NoNote,
     commands |-> 0, inData |-> FALSE, done |-> e = "generic"]

Say(d, reply) == [d EXCEPT !.replies = Append(@, reply)]
Note(d, note) == [d EXCEPT !.note = IF @ = NoNote THEN note ELSE @]
Close(d) == [d EXCEPT !.done = TRUE]

-----------------------------------------------------------------------------
\* Where the first occurrence of a token sequence in a buffer ends, 0 if nowhere.
EndOf(buf, what) ==
    LET n == Len(what)
        Ends == {k \in n .. Len(buf) : SubSeq(buf, k - n + 1, k) = what}
    IN  IF Ends = {} THEN 0 ELSE CHOOSE k \in Ends : \A j \in Ends : k <= j

\* The tokens before the first CR or LF.
FirstLine(buf) ==
    LET stop == SelectInSeq(buf, LAMBDA t : t \in {CR, LF})
    IN  IF stop = 0 THEN buf ELSE SubSeq(buf, 1, stop - 1)

\* Drop the first k tokens of the buffer.
Drain(d, k) == [d EXCEPT !.buf = SubSeq(@, k + 1, Len(@))]

\* HTTP answers once, at the end of the headers, at the cap or at the end of input.
HttpAnswer(d) == Close(Say(Note(d, FirstLine(d.buf)), "200"))
Http(d) ==
    IF EndOf(d.buf, CRLF \o CRLF) > 0 \/ Len(d.buf) >= MaxBytes THEN HttpAnswer(d) ELSE d

\* SSH has said everything; it waits for the client's version line.
SshDone(d) == Close(Note(d, FirstLine(d.buf)))
Ssh(d) == IF EndOf(d.buf, <<LF>>) > 0 \/ Len(d.buf) >= MaxBytes THEN SshDone(d) ELSE d

\* MySQL and PostgreSQL refuse after one read, whatever it returned.
Refuse(d) == Close(Say(IF d.taken > 0 THEN Note(d, <<"login">>) ELSE d, "error"))

-----------------------------------------------------------------------------
\* SMTP.

smtp_reply_for(verb) ==
    CASE verb \in {"EHLO", "HELO", "MAIL", "RCPT", "RSET", "NOOP"} -> "250"
      [] verb = "DATA" -> "354"
      [] verb = "QUIT" -> "221"
      [] verb = "" -> "500"
      [] OTHER -> "502"

\* One line: message text until the lone dot, a command otherwise.
SmtpLine(d, line) ==
    LET words == SelectSeq(line, LAMBDA t : t \notin {CR, LF})
        verb == IF words = <<>> THEN "" ELSE words[1]
        next == [Say(Note(d, IF line = <<>> THEN <<"">> ELSE line), smtp_reply_for(verb)) EXCEPT
                    !.commands = @ + 1,
                    !.inData = verb = "DATA"]
    IN  IF d.inData
        THEN IF line = <<".">> THEN Say([d EXCEPT !.inData = FALSE], "250") ELSE d
        ELSE IF verb = "QUIT" \/ next.commands >= MaxCommands THEN Close(next) ELSE next

\* Every complete line of the buffer, in order.
RECURSIVE SmtpLines(_)
SmtpLines(d) ==
    LET end == EndOf(d.buf, CRLF)
    IN  IF d.done \/ end = 0
        THEN d
        ELSE SmtpLines(SmtpLine(Drain(d, end), SubSeq(d.buf, 1, end - 2)))

\* Mutant of Smtp: what follows the last complete line of a read is thrown away.
Mutant_DropsPartialLine(d) ==
    IF d.taken > MaxBytes THEN Close(d) ELSE [SmtpLines(d) EXCEPT !.buf = <<>>]

\* The cap is on all bytes of the session, and comes before the lines.
Smtp(d) == IF d.taken > MaxBytes THEN Close(d) ELSE SmtpLines(d)

-----------------------------------------------------------------------------
\* Redis: RESP arrays (a count, then that many length-prefixed strings) and
\* inline commands.

ArrayCount == ("*0" :> 0) @@ ("*1" :> 1) @@ ("*2" :> 2)
BulkLength == ("$0" :> 0) @@ ("$1" :> 1) @@ ("$2" :> 2)
ArrayStart == {"*0", "*1", "*2", "*x"}

Command(verb, consumed) == [kind |-> "Command", verb |-> verb, consumed |-> consumed]
Incomplete == [kind |-> "Incomplete"]
Invalid == [kind |-> "Invalid"]

\* The line that starts after position `cur` and ends at the next CRLF.
LineEnd(buf, cur) ==
    LET end == EndOf(SubSeq(buf, cur + 1, Len(buf)), CRLF)
    IN  IF end = 0 THEN 0 ELSE cur + end

\* Bulk strings i + 1 to argc, from position `cur`; the first is the verb.
RECURSIVE Bulks(_, _, _, _, _)
Bulks(buf, cur, i, argc, verb) ==
    LET end  == LineEnd(buf, cur)
        line == SubSeq(buf, cur + 1, end - 2)
        stop == end + BulkLength[line[1]]
        data == SubSeq(buf, end + 1, stop)
    IN  IF i = argc THEN IF verb = <<>> THEN Invalid ELSE Command(verb, cur)
        ELSE IF end = 0 THEN Incomplete
        ELSE IF Len(line) # 1 \/ line[1] \notin DOMAIN BulkLength THEN Invalid
        ELSE IF Len(buf) < stop + 2 THEN Incomplete
        ELSE IF SubSeq(buf, stop + 1, stop + 2) # CRLF THEN Invalid
        ELSE Bulks(buf, stop + 2, i + 1, argc, IF i = 0 THEN data ELSE verb)

parse_resp_array(buf) ==
    LET end  == LineEnd(buf, 0)
        line == SubSeq(buf, 1, end - 2)
    IN  IF end = 0 THEN Incomplete
        ELSE IF Len(line) # 1 \/ line[1] \notin DOMAIN ArrayCount THEN Invalid
        ELSE IF ArrayCount[line[1]] = 0 THEN Invalid
        ELSE Bulks(buf, end, 0, ArrayCount[line[1]], <<>>)

parse_inline(buf) ==
    LET end   == EndOf(buf, <<LF>>)
        words == SelectSeq(SubSeq(buf, 1, end - 1), LAMBDA t : t # CR)
    IN  IF end = 0 THEN Incomplete
        ELSE IF words = <<>> THEN Invalid
        ELSE Command(<<words[1]>>, end)

parse_one(buf) ==
    IF buf = <<>> THEN Incomplete
    ELSE IF buf[1] \in ArrayStart THEN parse_resp_array(buf)
    ELSE parse_inline(buf)

redis_reply_for(verb) ==
    CASE verb = <<"PING">> -> "+PONG"
      [] verb = <<"INFO">> -> "$info"
      [] verb \in {<<v>> : v \in {"COMMAND", "CLIENT", "AUTH", "SELECT", "HELLO", "QUIT"}} -> "+OK"
      [] OTHER -> "-ERR"

\* Every complete command of the buffer, in order; the cap is on what is left.
RECURSIVE Redis(_)
Redis(d) ==
    LET parsed == parse_one(d.buf)
        next   == Say(Note(Drain(d, parsed.consumed), parsed.verb),
                      redis_reply_for(parsed.verb))
    IN  CASE parsed.kind = "Command" -> IF parsed.verb = <<"QUIT">> THEN Close(next) ELSE Redis(next)
          [] parsed.kind = "Incomplete" -> IF Len(d.buf) > MaxBytes THEN Close(d) ELSE d
          [] parsed.kind = "Invalid" -> Close(d)

-----------------------------------------------------------------------------
\* One read that returned a non-empty chunk.
Read(e, d, chunk) ==
    LET got == [d EXCEPT !.buf = @ \o chunk, !.taken = @ + Len(chunk)]
    IN  CASE e = "http" -> Http(got)
          [] e = "ssh" -> Ssh(got)
          [] e = "smtp" -> Smtp(got)
          [] e = "redis" -> Redis(got)
          [] OTHER -> Refuse(got)

\* A read that returned nothing: the client closed its side.
Eof(e, d) ==
    CASE e = "http" -> HttpAnswer(d)
      [] e = "ssh" -> SshDone(d)
      [] e \in {"mysql", "postgres"} -> Refuse(d)
      [] OTHER -> Close(d)
=============================================================================
