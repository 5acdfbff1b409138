------------------------------ MODULE FileStore ------------------------------
(***************************************************************************)
(* What write_file and read_file of arona_kernel promise once format() has *)
(* succeeded, with no disk in sight: a store in which a name keeps the     *)
(* content of the first write_file that succeeded for it, a read returns   *)
(* that content whole, a call that reports an error has changed nothing,   *)
(* and names that shorten to the same 8.3 name are one name.  Fat32        *)
(* implements it.                                                          *)
(***************************************************************************)
CONSTANTS
  Names,        \* what callers pass
  ShortNames,
  ShortName,    \* Names -> ShortNames, to_short_name
  Contents,     \* what files may hold
  Nothing       \* no file of that name

VARIABLES
  files,        \* short name -> content or Nothing
  usable,       \* format() has succeeded since the machine started
  reply         \* what the last call returned

fsVars == <<files, usable, reply>>

NoReply == [kind |-> "none", name |-> Nothing, data |-> Nothing]
Reply(k, n, d) == [kind |-> k, name |-> n, data |-> d]

FSInit ==
  /\ files = [s \in ShortNames |-> Nothing]
  /\ usable = FALSE
  /\ reply = NoReply

Format ==
  /\ ~usable
  /\ usable' = TRUE
  /\ files' = [s \in ShortNames |-> Nothing]
  /\ UNCHANGED reply

\* A new call begins: its caller has taken the previous answer.
Begin ==
  /\ reply' = NoReply
  /\ UNCHANGED <<files, usable>>

Put(n, d) ==
  /\ usable
  /\ files' = [files EXCEPT ![ShortName[n]] = IF @ = Nothing THEN d ELSE @]
  /\ reply' = Reply("ok", n, Nothing)
  /\ UNCHANGED usable

Get(n) ==
  /\ usable
  /\ reply' = IF files[ShortName[n]] = Nothing
              THEN Reply("notfound", n, Nothing)
              ELSE Reply("data", n, files[ShortName[n]])
  /\ UNCHANGED <<files, usable>>

Fail(n) ==
  /\ reply' = Reply("error", n, Nothing)
  /\ UNCHANGED <<files, usable>>

\* The machine restarts; its first act is to format the disk again.
Restart ==
  /\ files' = [s \in ShortNames |-> Nothing]
  /\ usable' = FALSE
  /\ reply' = NoReply

\* Nothing is promised on a disk that was not formatted.
Unformatted ==
  /\ ~usable
  /\ UNCHANGED <<files, usable>>

FSNext ==
  \/ Format \/ Begin \/ Restart \/ Unformatted
  \/ \E n \in Names : Get(n) \/ Fail(n) \/ \E d \in Contents : Put(n, d)

FSSpec == FSInit /\ [][FSNext]_fsVars
==============================================================================
