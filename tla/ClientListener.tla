--------------------------- MODULE ClientListener ---------------------------
(***************************************************************************)
(* The client's event listeners: nightfall_event_listener.rs subscribes,   *)
(* retries and restarts; nightfall_event.rs applies a block.  DepositEscrowed *)
(* events are only logged, so pos counts block events alone.               *)
(***************************************************************************)
EXTENDS ClientState

Position(l) == listeners[l].pos
Advance(l) == [listeners EXCEPT ![l].pos = @ + 1]
Stop(l) == [listeners EXCEPT ![l] = Stopped]

\* A listener with an event to handle waits for the lock on expected.
HasEvent(l) == l \in Alive /\ lock = 0 /\ Position(l) < Len(chain)

Missing(l) == expected < Position(l)

\* handle_event turns every error into InvalidCalldata, so that the arm for
\* missing blocks is never reached and the listener panics.
MissingBlocks(l) ==
  /\ HasEvent(l)
  /\ Missing(l)
  /\ listeners' = Stop(l)
  /\ UNCHANGED <<chainVars, dbVars, expected, lock, phase, dup_key_check, checking, resetting,
                 queueVars, historyVars>>

\* Mutant: a block is applied again by the next listener that sees it.
SeenNever(l) == FALSE

Seen(l) == expected > Position(l)

SkipBlock(l) ==
  /\ HasEvent(l)
  /\ Seen(l)
  /\ listeners' = Advance(l)
  /\ UNCHANGED <<chainVars, dbVars, expected, lock, phase, dup_key_check, checking, resetting,
                 queueVars, historyVars>>

\* The block is counted and its commitments are appended to the tree.
ApplyBlock(l) ==
  /\ HasEvent(l)
  /\ ~Seen(l) /\ ~Missing(l)
  /\ expected' = expected + 1
  /\ dup_key_check' = (Len(chain) = Position(l) + 1)
  /\ tree' = Append(tree, Position(l) + 1)
  /\ lock' = l /\ phase' = "appended"
  /\ UNCHANGED <<chainVars, commitments, requests, mappings, listeners, checking, resetting,
                 queueVars, historyVars>>

\* The block is counted, then the chain or the tree cannot be read: the
\* listener panics.
ApplyFails(l) ==
  /\ HasEvent(l)
  /\ expected = Position(l)
  /\ faults < MaxFaults
  /\ faults' = faults + 1
  /\ expected' = expected + 1
  /\ torn' = torn \cup {"unapplied"}
  /\ listeners' = Stop(l)
  /\ UNCHANGED <<chainVars, dbVars, lock, phase, dup_key_check, checking, resetting, queueVars,
                 crashes>>

Block(l) == chain[Position(l) + 1]

\* Mutant: the commitments a block spends keep their status.
MarkUnspentOnly(b) == SetStatus(Outputs(b), "Unspent")

\* mark_commitments_unspent and mark_commitments_spent.
Marked(b) ==
  [c \in DOMAIN commitments |->
     IF c \in Outputs(b) THEN [commitments[c] EXCEPT !.status = "Unspent"]
     ELSE IF c \in Spends(b) THEN [commitments[c] EXCEPT !.status = "Spent"]
     ELSE commitments[c]]

MarkCommitments(l) ==
  /\ lock = l /\ phase = "appended"
  /\ commitments' = Marked(Block(l))
  /\ phase' = "marked"
  /\ UNCHANGED <<chainVars, requests, mappings, tree, expected, listeners, lock, dup_key_check,
                 checking, resetting, queueVars, historyVars>>

\* The requests that block b confirms.
ConfirmedBy(b) == {r \in mappings : \E c \in Outputs(b) : c[1] = r}

\* store_commitments: what others have sent this client.
StoreDecrypted(b) ==
  [c \in DOMAIN commitments \cup Decrypted(b) |->
     IF c \in DOMAIN commitments THEN commitments[c]
     ELSE Entry(Sent[c[1]].token, Sent[c[1]].value, "Unspent")]

Duplicates(b) == Decrypted(b) \cap DOMAIN commitments # {}

Release == lock' = 0 /\ phase' = "none" /\ dup_key_check' = FALSE

StoreReceived(l) ==
  /\ lock = l /\ phase = "marked"
  /\ requests' = update_request(requests, ConfirmedBy(Block(l)), "Confirmed")
  /\ Release
  /\ IF dup_key_check /\ Duplicates(Block(l))
       THEN listeners' = Stop(l) /\ UNCHANGED commitments
       ELSE listeners' = Advance(l) /\ commitments' = StoreDecrypted(Block(l))
  /\ UNCHANGED <<chainVars, mappings, tree, expected, checking, resetting, queueVars,
                 historyVars>>

-----------------------------------------------------------------------------
(* Streams and restarts *)

\* start_event_listener subscribes from the start block again, or gives up.
StreamTerminated(l) ==
  /\ l \in Alive /\ lock # l
  /\ faults < MaxFaults
  /\ faults' = faults + 1
  /\ listeners' = IF listeners[l].attempts >= MaxAttempts THEN Stop(l)
                  ELSE [listeners EXCEPT ![l] = [pos |-> 0, attempts |-> @.attempts + 1]]
  /\ UNCHANGED <<chainVars, dbVars, expected, lock, phase, dup_key_check, checking, resetting,
                 queueVars, torn, crashes>>

LoseLog(l) ==
  /\ l \in Alive /\ lock # l /\ Position(l) < Len(chain)
  /\ faults < MaxFaults
  /\ faults' = faults + 1
  /\ listeners' = Advance(l)
  /\ UNCHANGED <<chainVars, dbVars, expected, lock, phase, dup_key_check, checking, resetting,
                 queueVars, torn, crashes>>

\* restart_event_listener looks at the status, and panics when synchronised.
RestartChecks ==
  /\ checking > 0 /\ lock = 0
  /\ checking' = checking - 1
  /\ resetting' = IF Desynchronized THEN resetting + 1 ELSE resetting
  /\ UNCHANGED <<chainVars, dbVars, expected, listeners, lock, phase, dup_key_check, queueVars,
                 historyVars>>

\* The chain cannot be read: the restart task panics.
RestartFails ==
  /\ checking > 0 /\ lock = 0
  /\ faults < MaxFaults
  /\ faults' = faults + 1
  /\ checking' = checking - 1
  /\ UNCHANGED <<chainVars, dbVars, expected, listeners, lock, phase, dup_key_check, resetting,
                 queueVars, torn, crashes>>

\* Only the tree is reset: expected keeps its value, whoever changed it since.
RestartResets ==
  /\ resetting > 0
  /\ resetting' = resetting - 1
  /\ tree' = <<>>
  /\ torn' = IF tree = <<>> THEN torn ELSE torn \cup {"reset"}
  /\ \E l \in (1 .. MaxListeners) \ Alive :
       /\ \A k \in (1 .. MaxListeners) \ Alive : l <= k
       /\ listeners' = [listeners EXCEPT ![l] = Started]
  /\ UNCHANGED <<chainVars, commitments, requests, mappings, expected, lock, phase,
                 dup_key_check, checking, queueVars, crashes, faults>>

ListenerStep ==
  \/ \E l \in 1 .. MaxListeners :
       \/ MissingBlocks(l)
       \/ SkipBlock(l)
       \/ ApplyBlock(l)
       \/ MarkCommitments(l)
       \/ StoreReceived(l)
  \/ RestartChecks
  \/ RestartResets

ListenerFault ==
  \/ \E l \in 1 .. MaxListeners : ApplyFails(l) \/ StreamTerminated(l) \/ LoseLog(l)
  \/ RestartFails

=============================================================================
