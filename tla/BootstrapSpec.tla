--------------------------- MODULE BootstrapSpec ---------------------------
(***************************************************************************)
(* What bootstrap promises about flash, whatever a host sends: a flash     *)
(* memory that executes one command at a time, changes only the words the  *)
(* command names into what it makes of them, and that programs nothing     *)
(* before all of it was seen erased in the same session.                   *)
(***************************************************************************)
CONSTANTS
  Words,     \* addresses of flash words
  Values,    \* contents of a flash word
  Erased,    \* the content of an erased word
  Reliable   \* whether an operation that reports no error did all it had to do

VARIABLES
  mem,   \* content of each word
  busy,  \* whether a command is in progress
  job,   \* that command: its words with their new contents, and whether no
         \* operation of it failed
  open   \* whether commands other than an erase of everything are accepted

vars == <<mem, busy, job, open>>

EraseAll == [w \in Words |-> Erased]

Init ==
  /\ mem \in [Words -> Values]
  /\ ~busy
  /\ open = FALSE

Begin ==
  /\ ~busy
  /\ busy'
  /\ job'.ok
  /\ DOMAIN job'.to \subseteq Words
  /\ \A w \in DOMAIN job'.to : job'.to[w] \in Values
  /\ ~open => job'.to = EraseAll
  /\ UNCHANGED <<mem, open>>

OnlyJobChanges ==
  /\ mem' \in [Words -> Values]
  /\ \A w \in Words : mem'[w] # mem[w] => w \in DOMAIN job.to

\* Some words of the command take their new content.
Work ==
  /\ busy
  /\ OnlyJobChanges
  /\ Reliable => \A w \in Words : mem'[w] # mem[w] => mem'[w] = job.to[w]
  /\ UNCHANGED <<busy, job, open>>

\* An operation of the command fails and spoils words of the command.  The
\* command goes on with its other operations but ends with Fail.
Spoil ==
  /\ busy
  /\ OnlyJobChanges
  /\ ~job'.ok
  /\ DOMAIN job'.to = DOMAIN job.to
  /\ \A w \in DOMAIN job.to : mem'[w] = mem[w] => job'.to[w] = job.to[w]
  /\ UNCHANGED <<busy, open>>

Finish ==
  /\ busy
  /\ job.ok
  /\ Reliable => \A w \in DOMAIN job.to : mem[w] = job.to[w]
  /\ ~busy'
  /\ UNCHANGED <<mem, open>>

\* The first erase is followed by a look at all of flash.
Open ==
  /\ ~busy /\ ~open
  /\ mem = EraseAll
  /\ open' = TRUE
  /\ UNCHANGED <<mem, busy>>

\* An error or a reset ends the session.
Fail ==
  /\ \/ ~busy /\ mem' = mem
     \/ busy /\ OnlyJobChanges
  /\ ~busy'
  /\ open' = FALSE

Next == Begin \/ Work \/ Spoil \/ Finish \/ Open \/ Fail
Spec == Init /\ [][Next]_vars
=============================================================================
