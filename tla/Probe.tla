------------------------------- MODULE Probe --------------------------------
(***************************************************************************)
(* The probe: from the packets on an interface to the POSTs that reach the *)
(* control plane (internal/capture/sniffer.go, internal/amqp/parser.go and *)
(* frame.go, internal/alerting/dispatcher.go).                             *)
(*                                                                         *)
(* One goroutine takes packets from the capture ring and reassembles TCP   *)
(* streams, one stream per direction of a connection; each stream has a    *)
(* goroutine that reads its bytes, parses frames, evaluates the rules and  *)
(* dispatches alerts with a blocking POST.  A stream is modelled as a      *)
(* sequence of pieces, one per packet; which frame a piece completes is    *)
(* all the rest of the probe can tell.  The HTTP streams of the management *)
(* port run the same loop over requests or responses.                      *)
(*                                                                         *)
(* External, as sniffer.go uses them: the AF_PACKET ring loses packets     *)
(* when it is full; tcpassembly hands a stream its bytes in order, keeps   *)
(* what follows a gap for as long as the gap is there (nothing calls       *)
(* FlushOlderThan), and waits in Reassembled until the stream's reader has *)
(* read everything and asks for more.                                      *)
(***************************************************************************)
EXTENDS Naturals, Sequences

CONSTANTS Streams,
          Wire,       \* Wire[s]: the pieces of s, in the order they were sent
          RingSize,   \* packets the capture ring holds
          Early,      \* bound of the model: places a packet may arrive early
          NoStream

\* "part" completes no frame: the handshake, the protocol header, the first bytes
\* of a frame.  The others are the last bytes of a frame, of a kind each.
Pieces == {"part", "oversize", "badend", "content", "short", "quiet", "alert"}

\* NextFrame returns an error: the announced size is over MaxFrameSize, or the end
\* byte is not 0xCE.
Unparsable == {"oversize", "badend"}

\* Frames the loop passes over: not a method frame, a method frame too short for
\* a method, a method the rules report nothing of.
Skipped == {"content", "short", "quiet"}

ASSUME ProbeAssumption ==
  /\ Wire \in [Streams -> Seq(Pieces)]
  /\ RingSize \in Nat \ {0}
  /\ Early \in Nat
  /\ NoStream \notin Streams

VARIABLES
  seen,     \* seen[s]: the pieces of s that have passed the interface
  missed,   \* missed[s]: those the ring had no room for
  ring,     \* packets captured and not yet assembled: <<stream, piece>>
  held,     \* held[s]: pieces the assembler keeps behind a gap
  next,     \* next[s]: the piece the assembler waits for
  feeding,  \* the stream the assembler is handing bytes to, or NoStream
  given,    \* given[s]: pieces handed to s and not yet read
  reader,   \* reader[s]: where the goroutine of s is
  current,  \* current[s]: the last piece the goroutine of s has read
  flying,   \* POSTs sent and not yet handled by the control plane
  posted,   \* history: every POST that was sent
  gaveUp,   \* history: alerts the dispatcher gave up on: it stopped waiting for their
            \* POSTs, or could not make a request of them
  log       \* history: POSTs in the order in which they were handled

wireVars == <<seen, missed>>
asmVars  == <<held, next, feeding>>
postVars == <<flying, posted, gaveUp, log>>
vars == <<seen, missed, ring, held, next, feeding, given, reader, current,
          flying, posted, gaveUp, log>>

ReaderStates == {"none", "reading", "posting", "draining", "ended"}

Numbers(s) == 1 .. Len(Wire[s])

Packets == UNION {{s} \X Numbers(s) : s \in Streams}

Init ==
  /\ seen = [s \in Streams |-> {}]
  /\ missed = [s \in Streams |-> {}]
  /\ ring = <<>>
  /\ held = [s \in Streams |-> {}]
  /\ next = [s \in Streams |-> 1]
  /\ feeding = NoStream
  /\ given = [s \in Streams |-> <<>>]
  /\ reader = [s \in Streams |-> "none"]
  /\ current = [s \in Streams |-> 0]
  /\ flying = {} /\ posted = {} /\ gaveUp = {}
  /\ log = <<>>

-----------------------------------------------------------------------------
(* Mutants: forms of the actions below with a bug that the properties at the *)
(* end of the module are there to exclude.  No specification uses them.      *)

\* go s.dispatcher.Dispatch(alert)
ReportForks(s) ==
  /\ reader[s] = "reading" /\ given[s] # <<>> /\ Wire[s][Head(given[s])] = "alert"
  /\ current' = [current EXCEPT ![s] = Head(given[s])]
  /\ given' = [given EXCEPT ![s] = Tail(@)]
  /\ flying' = flying \union {<<s, Head(given[s])>>}
  /\ posted' = posted \union {<<s, Head(given[s])>>}
  /\ UNCHANGED <<wireVars, ring, asmVars, reader, gaveUp, log>>

\* The alert is sent again when no answer came in time.
TimeOutRetries(s) ==
  /\ reader[s] = "posting"
  /\ flying' = flying \union {<<s, current[s]>>}
  /\ gaveUp' = gaveUp \union {<<s, current[s]>>}
  /\ UNCHANGED <<wireVars, ring, asmVars, given, reader, current, posted, log>>

\* The client has no timeout.
TimeOutNever(s) ==
  /\ reader[s] = "posting" /\ <<s, current[s]>> \notin flying
  /\ reader' = [reader EXCEPT ![s] = "reading"]
  /\ gaveUp' = gaveUp \union {<<s, current[s]>>}
  /\ UNCHANGED <<wireVars, ring, asmVars, given, current, flying, posted, log>>

\* The goroutine returns without reading the rest of the stream.
BreakLeavesRest(s) ==
  /\ reader[s] = "reading" /\ given[s] # <<>> /\ Wire[s][Head(given[s])] \in Unparsable
  /\ current' = [current EXCEPT ![s] = Head(given[s])]
  /\ given' = [given EXCEPT ![s] = Tail(@)]
  /\ reader' = [reader EXCEPT ![s] = "ended"]
  /\ UNCHANGED <<wireVars, ring, asmVars, postVars>>

\* A frame that is no method ends the loop instead of being passed over.
PassReturns(s) ==
  /\ reader[s] = "reading" /\ given[s] # <<>>
  /\ Wire[s][Head(given[s])] \in Skipped \union {"part"}
  /\ current' = [current EXCEPT ![s] = Head(given[s])]
  /\ given' = [given EXCEPT ![s] = Tail(@)]
  /\ reader' = [reader EXCEPT ![s] =
                  IF Wire[s][Head(given[s])] = "part" THEN "reading" ELSE "draining"]
  /\ UNCHANGED <<wireVars, ring, asmVars, postVars>>

-----------------------------------------------------------------------------
(* The interface, the capture ring and the assembler *)

\* A packet passes the interface, perhaps before others that were sent earlier.
Arrive(s, n) ==
  /\ n \notin seen[s] /\ 1 .. n - 1 - Early \subseteq seen[s]
  /\ seen' = [seen EXCEPT ![s] = @ \union {n}]
  /\ IF Len(ring) < RingSize
       THEN ring' = Append(ring, <<s, n>>) /\ UNCHANGED missed
       ELSE missed' = [missed EXCEPT ![s] = @ \union {n}] /\ UNCHANGED ring
  /\ UNCHANGED <<asmVars, given, reader, current, postVars>>

\* The goroutine of a stream starts with the stream's first packet.
Started(s) == [reader EXCEPT ![s] = IF @ = "none" THEN "reading" ELSE @]

\* Start's loop takes a packet and calls AssembleWithTimestamp, which hands the
\* stream what is now contiguous, or keeps the packet behind the gap.
Assemble ==
  /\ feeding = NoStream /\ ring # <<>>
  /\ ring' = Tail(ring)
  /\ LET s == Head(ring)[1]
         S == held[s] \union {Head(ring)[2]}
     IN \E last \in next[s] .. Len(Wire[s]) + 1 :
          /\ next[s] .. last - 1 \subseteq S /\ last \notin S
          /\ held' = [held EXCEPT ![s] = S \ (next[s] .. last - 1)]
          /\ next' = [next EXCEPT ![s] = last]
          /\ given' = [given EXCEPT ![s] = [i \in 1 .. last - next[s] |-> next[s] + i - 1]]
          /\ feeding' = IF last = next[s] THEN NoStream ELSE s
          /\ reader' = Started(s)
  /\ UNCHANGED <<wireVars, current, postVars>>

\* Reassembled returns: the reader has read everything and reads again.
Fed(s) ==
  /\ feeding = s /\ given[s] = <<>> /\ reader[s] \in {"reading", "draining"}
  /\ feeding' = NoStream
  /\ UNCHANGED <<wireVars, ring, held, next, given, reader, current, postVars>>

-----------------------------------------------------------------------------
(* The goroutine of a stream: runFrameLoop and the deferred drain of run *)

Reads(s, kinds) ==
  /\ reader[s] = "reading" /\ given[s] # <<>>
  /\ Wire[s][Head(given[s])] \in kinds
  /\ current' = [current EXCEPT ![s] = Head(given[s])]
  /\ given' = [given EXCEPT ![s] = Tail(@)]

\* No frame is complete yet, or one that is not reported.
Pass(s) ==
  /\ Reads(s, Skipped \union {"part"})
  /\ UNCHANGED <<wireVars, ring, asmVars, reader, postVars>>

\* EvaluateMethod returns an alert, and Dispatch posts it.
Report(s) ==
  /\ Reads(s, {"alert"})
  /\ reader' = [reader EXCEPT ![s] = "posting"]
  /\ flying' = flying \union {<<s, Head(given[s])>>}
  /\ posted' = posted \union {<<s, Head(given[s])>>}
  /\ UNCHANGED <<wireVars, ring, asmVars, gaveUp, log>>

\* Dispatch makes no request of the alert: it cannot be marshaled, or the URL is bad.
Unsent(s) ==
  /\ Reads(s, {"alert"})
  /\ gaveUp' = gaveUp \union {<<s, Head(given[s])>>}
  /\ UNCHANGED <<wireVars, ring, asmVars, reader, flying, posted, log>>

\* NextFrame fails: the loop returns, for good.
Break(s) ==
  /\ Reads(s, Unparsable)
  /\ reader' = [reader EXCEPT ![s] = "draining"]
  /\ UNCHANGED <<wireVars, ring, asmVars, postVars>>

\* io.Copy(io.Discard, &s.r)
Drain(s) ==
  /\ reader[s] = "draining" /\ given[s] # <<>>
  /\ given' = [given EXCEPT ![s] = <<>>]
  /\ UNCHANGED <<wireVars, ring, asmVars, reader, current, postVars>>

\* The stream was handed over to its end: NextFrame, or the drain, returns EOF.
End(s) ==
  /\ reader[s] \in {"reading", "draining"} /\ given[s] = <<>> /\ feeding # s
  /\ next[s] = Len(Wire[s]) + 1
  /\ reader' = [reader EXCEPT ![s] = "ended"]
  /\ UNCHANGED <<wireVars, ring, asmVars, given, current, postVars>>

-----------------------------------------------------------------------------
(* Dispatch and the control plane *)

\* The control plane handles a POST, whether or not anyone still waits for it.
Handle(a) ==
  /\ a \in flying
  /\ flying' = flying \ {a}
  /\ log' = Append(log, a)
  /\ UNCHANGED <<wireVars, ring, asmVars, given, reader, current, posted, gaveUp>>

\* The POST never gets there, or is refused.
Lose(a) ==
  /\ a \in flying
  /\ flying' = flying \ {a}
  /\ UNCHANGED <<wireVars, ring, asmVars, given, reader, current, posted, gaveUp, log>>

\* client.Do returns; any answer and any error are only logged.
Answer(s) ==
  /\ reader[s] = "posting" /\ <<s, current[s]>> \notin flying
  /\ reader' = [reader EXCEPT ![s] = "reading"]
  /\ UNCHANGED <<wireVars, ring, asmVars, given, current, postVars>>

\* client.Do gives up after five seconds.
TimeOut(s) ==
  /\ reader[s] = "posting"
  /\ reader' = [reader EXCEPT ![s] = "reading"]
  /\ gaveUp' = gaveUp \union {<<s, current[s]>>}
  /\ UNCHANGED <<wireVars, ring, asmVars, given, current, flying, posted, log>>

-----------------------------------------------------------------------------
ReaderStep(s) == Pass(s) \/ Report(s) \/ Unsent(s) \/ Break(s) \/ Drain(s) \/ End(s)

DispatchStep(s) == Answer(s) \/ TimeOut(s)

Next == \/ \E s \in Streams : \E n \in Numbers(s) : Arrive(s, n)
        \/ Assemble
        \/ \E s \in Streams : Fed(s) \/ ReaderStep(s) \/ DispatchStep(s)
        \/ \E a \in Packets : Handle(a) \/ Lose(a)

\* The goroutines of the probe run.  Nothing is assumed of the interface or of the
\* control plane: it may never answer.
Fairness == /\ WF_vars(Assemble)
            /\ \A s \in Streams : /\ WF_vars(Fed(s))
                                  /\ WF_vars(ReaderStep(s))
                                  /\ WF_vars(DispatchStep(s))

Spec == Init /\ [][Next]_vars
FairSpec == Spec /\ Fairness
-----------------------------------------------------------------------------
(* Properties *)

\* Types; bytes wait only for the stream the assembler is at, and a goroutine
\* never ends before it has read all it was handed (sniffer.go:216).
TypeOK ==
  /\ seen \in [Streams -> SUBSET Nat] /\ missed \in [Streams -> SUBSET Nat]
  /\ ring \in Seq(Packets) /\ Len(ring) <= RingSize
  /\ held \in [Streams -> SUBSET Nat]
  /\ next \in [Streams -> Nat]
  /\ \A s \in Streams : next[s] \in 1 .. Len(Wire[s]) + 1
  /\ feeding \in Streams \union {NoStream}
  /\ given \in [Streams -> Seq(Nat)]
  /\ \A s \in Streams : given[s] # <<>> => feeding = s
  /\ reader \in [Streams -> ReaderStates]
  /\ \A s \in Streams : reader[s] = "ended" => given[s] = <<>> /\ feeding # s
  /\ current \in [Streams -> Nat]
  /\ flying \subseteq posted /\ posted \subseteq Packets /\ gaveUp \subseteq Packets
  /\ log \in Seq(Packets)

\* The control plane handles the alerts of a stream in the order in which the
\* frames were sent, packets reordered on the way or not; only an alert whose
\* POST the dispatcher gave up on may come late.
HandledInOrder ==
  \A i, j \in DOMAIN log :
     i < j /\ log[i][1] = log[j][1] /\ log[i][2] > log[j][2] => log[j] \in gaveUp

\* No frame is reported twice, whatever times out.
HandledOnce == \A i, j \in DOMAIN log : log[i] = log[j] => i = j

\* The capture loop never stalls: every packet in the ring is assembled, although
\* each stream may hold it up, streams may be unparsable, and the control plane
\* may never answer.
CaptureNeverStalls ==
  \A a \in Packets : (\E i \in DOMAIN ring : ring[i] = a)
                        ~> ~(\E i \in DOMAIN ring : ring[i] = a)

\* The first n pieces of s were captured, and none before n breaks the parser.
Parsable(s, n) == \A m \in 1 .. n : /\ m \in seen[s] \ missed[s]
                                    /\ m < n => Wire[s][m] \notin Unparsable

\* A frame the rules report is posted once it and all before it were captured, unless
\* no request can be made of it: neither frames that are not reported, nor the other
\* streams, prevent it.
CapturedIsReported ==
  \A s \in Streams : \A n \in Numbers(s) :
     Wire[s][n] = "alert" /\ Parsable(s, n) ~> <<s, n>> \in posted \union gaveUp

-----------------------------------------------------------------------------
(* The inductive invariant behind TypeOK, HandledInOrder and HandledOnce *)

\* What a stream was handed and has not read are the pieces just before the one
\* the assembler waits for, and come after the last piece read.
GivenShape ==
  \A s \in Streams :
     /\ current[s] < next[s] - Len(given[s])
     /\ \A i \in DOMAIN given[s] : given[s][i] = next[s] - Len(given[s]) + i - 1

\* A goroutine ends only when its stream was handed over to the end.
EndShape == \A s \in Streams : reader[s] = "ended" => next[s] = Len(Wire[s]) + 1

\* Only pieces that were read were posted.
PostedShape == \A a \in posted : a[2] <= current[a[1]]

\* A goroutine waits for a POST that it sent.
WaitShape == \A s \in Streams : reader[s] = "posting" => <<s, current[s]>> \in posted

\* A POST under way is waited for, or was given up on.
FlyingShape ==
  \A a \in flying : a \in gaveUp \/ (reader[a[1]] = "posting" /\ a[2] = current[a[1]])

\* What was handled was posted, and is not under way any more.
LogShape == \A i \in DOMAIN log : log[i] \in posted \ flying

ProbeInv == /\ TypeOK
            /\ GivenShape
            /\ EndShape
            /\ PostedShape
            /\ WaitShape
            /\ FlyingShape
            /\ LogShape
            /\ HandledOnce
            /\ HandledInOrder
=============================================================================
