-------------------------------- MODULE Calls --------------------------------
(***************************************************************************)
(* The wrappers of system calls in src/src/tmi.c (SEI_WRAP_SC).  socket,   *)
(* connect and bind are made in phase 0, which logs their results in       *)
(* abuf_sc; phase 1 pops them from there.  close is deferred to the commit *)
(* by wts.c.  A later phase makes its calls itself.  A handler is a        *)
(* sequence of calls; connect, bind and close act on the socket it got     *)
(* last, or on one an earlier handler has left open.                       *)
(***************************************************************************)
EXTENDS Integers, Sequences

CONSTANTS
  Level,     \* sei->redundancy_level
  MaxCalls,  \* calls of a handler
  MaxFd,     \* file descriptors the process may have
  Handlers,  \* handlers that are run
  Retries    \* failed commits and SIGSEGVs

Fd == 1 .. MaxFd
Name == {"socket", "connect", "bind", "close"}

VARIABLES
  cp,       \* sei->p, or Exited
  handler,  \* the calls of the running handler
  step,     \* those its phase has made
  result,   \* their results, by phase
  sc,       \* abuf_sc: the argument and the result of every call
  sc_poped, \* abuf_sc->poped
  deferred, \* the closes in sei->wts, by phase
  open,     \* the descriptors the kernel has open
  held,     \* those the committed handlers have left open
  ran,      \* handlers started
  retries,  \* retries so far
  struck    \* whether a SIGSEGV has interrupted the running handler

callvars == <<cp, handler, step, result, sc, sc_poped, deferred, open, held, ran,
              retries, struck>>

Exited == -2

None == [q \in 0 .. Level - 1 |-> <<>>]

CallsInit ==
  /\ cp = -1
  /\ handler = <<>>
  /\ step = 0
  /\ result = None
  /\ sc = <<>>
  /\ sc_poped = 0
  /\ deferred = None
  /\ open = {}
  /\ held = {}
  /\ ran = 0
  /\ retries = 0
  /\ struck = FALSE

begin_calls ==
  /\ cp = -1
  /\ ran < Handlers
  /\ \E n \in 1 .. MaxCalls : \E h \in [1 .. n -> Name] : handler' = h
  /\ cp' = 0
  /\ step' = 0
  /\ ran' = ran + 1
  /\ UNCHANGED <<result, sc, sc_poped, deferred, open, held, retries, struck>>

Here(name) == cp >= 0 /\ step < Len(handler) /\ handler[step + 1] = name
Least(S) == CHOOSE x \in S : \A y \in S : x <= y

\* The sockets that phase q of the handler has got.
Got(q) == {i \in 1 .. Len(result[q]) : handler[i] = "socket" /\ result[q][i] # -1}

\* The descriptor that a call acts on.
Target ==
  IF Got(cp) # {}
    THEN result[cp][CHOOSE i \in Got(cp) : \A j \in Got(cp) : j <= i]
    ELSE IF held # {} THEN Least(held) ELSE -1

Returns(r) ==
  /\ result' = [result EXCEPT ![cp] = Append(@, r)]
  /\ step' = step + 1
  /\ UNCHANGED <<cp, handler, deferred, held, ran, retries, struck>>

\* The results that the kernel may give, and the descriptors open after it.
Kernel(name, r) ==
  IF name = "socket" /\ Fd \ open # {}
    THEN r = Least(Fd \ open) /\ open' = open \cup {r}
    ELSE /\ r \in (IF name # "socket" /\ Target \in open THEN {0, -1} ELSE {-1})
         /\ UNCHANGED open

\* The address the entry is logged under: the domain, the socket or addr.
Argument(name) == IF name = "connect" THEN Target ELSE 0

\* The entry that the next pop returns is one of this call.
Matches(name) == sc_poped < Len(sc) /\ sc[sc_poped + 1].arg = Argument(name)

replayed(name) ==
  /\ Here(name)
  /\ IF cp = 1
       THEN /\ Matches(name)
            /\ Returns(sc[sc_poped + 1].r)
            /\ sc_poped' = sc_poped + 1
            /\ UNCHANGED <<sc, open>>
       ELSE \E r \in Fd \cup {0, -1} :
              /\ Kernel(name, r)
              /\ Returns(r)
              /\ sc' = IF cp = 0
                         THEN Append(sc, [arg |-> Argument(name), r |-> r])
                         ELSE sc
              /\ UNCHANGED sc_poped

\* fail_ifn(e->addr == addr, "reading wrong address")
replay_refused(name) ==
  /\ Here(name) /\ cp = 1 /\ ~Matches(name)
  /\ cp' = Exited
  /\ UNCHANGED <<handler, step, result, sc, sc_poped, deferred, open, held, ran,
                 retries, struck>>

socket == replayed("socket") \/ replay_refused("socket")
connect == replayed("connect") \/ replay_refused("connect")
bind == replayed("bind") \/ replay_refused("bind")

\* The descriptor is closed at once.
close_now ==
  /\ Here("close")
  /\ open' = open \ {Target}
  /\ result' = [result EXCEPT ![cp] = Append(@, 0)]
  /\ step' = step + 1
  /\ UNCHANGED <<cp, handler, deferred, held, ran, retries, struck, sc, sc_poped>>

\* wts_add; phases from 2 on call the kernel.
close ==
  /\ Here("close")
  /\ result' = [result EXCEPT ![cp] = Append(@, 0)]
  /\ step' = step + 1
  /\ IF cp \in {0, 1}
       THEN deferred' = [deferred EXCEPT ![cp] = Append(@, Target)] /\ UNCHANGED open
       ELSE open' = open \ {Target} /\ UNCHANGED deferred
  /\ UNCHANGED <<cp, handler, held, ran, retries, struck, sc, sc_poped>>

PhaseOver == cp >= 0 /\ step = Len(handler)

next_phase ==
  /\ PhaseOver /\ cp < Level - 1
  /\ cp' = cp + 1
  /\ step' = 0
  /\ UNCHANGED <<handler, result, sc, sc_poped, deferred, open, held, ran, retries,
                 struck>>

ToSet(s) == {s[i] : i \in 1 .. Len(s)}

\* abuf_rewind in place of abuf_clean.
Cleaned_rewound == sc_poped' = 0 /\ UNCHANGED sc

\* abuf_clean(abuf_sc); wts_flush or wts_reset has emptied wts.
Cleaned == sc' = <<>> /\ sc_poped' = 0

\* wts_flush makes the deferred calls, the log is cleaned.
commit_calls ==
  /\ PhaseOver /\ cp = Level - 1
  /\ \A q \in 0 .. Level - 1 : deferred[q] = deferred[0]
  /\ open' = open \ ToSet(deferred[0])
  /\ held' = (held \cup {result[0][i] : i \in Got(0)}) \ ToSet(deferred[0])
  /\ cp' = -1
  /\ step' = 0
  /\ handler' = <<>>
  /\ result' = None
  /\ deferred' = None
  /\ struck' = FALSE
  /\ Cleaned
  /\ UNCHANGED <<ran, retries>>

\* The handler starts again, after sei_rollback has emptied wts.
Again ==
  /\ retries < Retries
  /\ retries' = retries + 1
  /\ cp' = 0
  /\ step' = 0
  /\ result' = None
  /\ deferred' = None
  /\ UNCHANGED <<handler, open, held, ran>>

\* sei_try_commit has found the phases to differ elsewhere.
retry_calls ==
  /\ PhaseOver /\ cp = Level - 1
  /\ Again
  /\ Cleaned
  /\ UNCHANGED struck

\* protect_handler goes back to phase 0 and leaves abuf_sc as it is.
sigsegv_calls ==
  /\ cp >= 0
  /\ Again
  /\ struck' = TRUE
  /\ UNCHANGED <<sc, sc_poped>>

CallsNext ==
  \/ begin_calls
  \/ socket
  \/ connect
  \/ bind
  \/ close
  \/ next_phase
  \/ commit_calls
  \/ retry_calls
  \/ sigsegv_calls

CallsSpec == CallsInit /\ [][CallsNext]_callvars

\* Phase 1 sees the results that the kernel gave to phase 0 of the same
\* attempt, and is never refused, whatever attempts and handlers have gone
\* before (abuf_sc of tmi.c), unless a SIGSEGV has interrupted this handler.
ReplayedResults ==
  ~struck => /\ cp # Exited
             /\ \A i \in 1 .. Len(result[1]) : result[1][i] = result[0][i]

\* What a committed handler was given and did not close is open: no close of
\* any phase or attempt hits a descriptor that was given out again.
HeldOpen == held \subseteq open

\* ReplayedResults after a SIGSEGV too.  It does not hold: protect_handler
\* does not clean abuf_sc.
ReplayedAfterSigsegv ==
  \A i \in 1 .. Len(result[1]) : result[1][i] = result[0][i]

\* Between two handlers, every open descriptor is one a handler has left open.
\* It does not hold: what a failed attempt has opened stays open.
NoneLost == cp = -1 => open = held
==============================================================================
