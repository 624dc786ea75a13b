-------------------------- MODULE SequencedRegister --------------------------
(* What the index promises of one agent's current record, with no database    *)
(* behind it.  While the first registrations of an agent are under way any of *)
(* their records may take the place of another; once they are over the agent  *)
(* is settled, and only a record with a greater sequence replaces its record. *)
EXTENDS Integers

CONSTANTS
  Agents,   \* the agents, each with a register of its own
  Bodies,   \* the signed content of a record apart from agent and sequence
  MaxSeq,   \* the largest sequence
  Unset     \* an agent without a record

VARIABLES
  register,  \* agent -> its record, or Unset
  settled    \* the agents whose first registrations are over

registerVars == <<register, settled>>

Records == [agent : Agents, seq : 0..MaxSeq, body : Bodies]

RegisterInit ==
  /\ register = [a \in Agents |-> Unset]
  /\ settled = {}

\* First registrations that race: the last to commit stands.
Race(r) ==
  /\ r.agent \notin settled
  /\ register' = [register EXCEPT ![r.agent] = r]
  /\ settled' \in {settled, settled \cup {r.agent}}

\* The last of them ends without a commit.
Settle(a) ==
  /\ register[a] # Unset
  /\ settled' = settled \cup {a}
  /\ UNCHANGED register

Advance(r) ==
  /\ r.agent \in settled
  /\ r.seq > register[r.agent].seq
  /\ register' = [register EXCEPT ![r.agent] = r]
  /\ UNCHANGED settled

Replace(r) == Race(r) \/ Advance(r)

RegisterNext == (\E a \in Agents : Settle(a)) \/ (\E r \in Records : Replace(r))

RegisterSpec == RegisterInit /\ [][RegisterNext]_registerVars
==============================================================================
