------------------------------ MODULE LogFile -------------------------------
(***************************************************************************)
(* FileWriter of util/nanolog.hpp: the log file, its roll size and the names  *)
(* of the files.  A name is made of the hour and m_file_number.               *)
(***************************************************************************)
EXTENDS Integers

CONSTANTS
  RollMb,     \* log_file_roll_size_mb
  Mega,       \* 1024 * 1024
  WordMod,    \* 2^32: m_log_file_roll_size_bytes is a uint32_t
  LineSizes,  \* lengths of the lines, as written
  MaxHour,    \* bound: hours that pass
  MaxBytes    \* bound: bytes written

RollBytes == (RollMb * Mega) % WordMod

VARIABLES
  hour,     \* what get_datetime says of the clock
  number,   \* m_file_number
  bytes,    \* m_bytes_written
  name,     \* the file m_os is open on
  files,    \* the files of the directory and their sizes
  total     \* bytes of all lines written so far

vars == <<hour, number, bytes, name, files, total>>

\* Opening with ofstream::app keeps what is in the file.
Open(fs, nm) == [x \in DOMAIN fs \cup {nm} |-> IF x \in DOMAIN fs THEN fs[x] ELSE 0]

Init ==
  /\ hour = 0 /\ number = 1 /\ bytes = 0
  /\ name = <<0, 1>>
  /\ files = [x \in {<<0, 1>>} |-> 0]
  /\ total = 0

NextHour ==
  /\ hour < MaxHour
  /\ hour' = hour + 1
  /\ UNCHANGED <<number, bytes, name, files, total>>

\* write, and roll_file once the file has got too long: m_file_number starts
\* again, create_file makes it 1.
Write(n) ==
  /\ total + n <= MaxBytes
  /\ total' = total + n
  /\ IF bytes + n > RollBytes
       THEN /\ bytes' = 0 /\ number' = 1 /\ name' = <<hour, 1>>
            /\ files' = Open([files EXCEPT ![name] = @ + n], <<hour, 1>>)
       ELSE /\ bytes' = bytes + n
            /\ files' = [files EXCEPT ![name] = @ + n]
            /\ UNCHANGED <<number, name>>
  /\ UNCHANGED hour

Next == NextHour \/ \E n \in LineSizes : Write(n)

Spec == Init /\ [][Next]_vars

-----------------------------------------------------------------------------
(* "mega bytes after which we roll to next log file": a roll opens another file.   *)
RollsToNextFile ==
  [][total' > total /\ bytes' = 0 => name' # name]_vars
=============================================================================
