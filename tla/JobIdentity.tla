---------------------------- MODULE JobIdentity -----------------------------
(***************************************************************************)
(* What names a proof job: ProofJob and its hashes of                      *)
(* script/src/proof_protocol.rs, and the comparisons with which a worker   *)
(* accepts a job, a daemon and an answer (validate_* of                    *)
(* script/src/bin/doge_proof_worker.rs).                                   *)
(*                                                                         *)
(* Bytes are hashed as a sequence of units: a byte of a string, a number   *)
(* of four bytes, or a digest of 32.                                       *)
(***************************************************************************)
EXTENDS PublicInputs

CONSTANTS
  Byte,          \* the bytes of strings
  Utf8(_),       \* the bytes of a string
  Json(_)        \* serde_json::to_vec of a request

PROOF_SCHEMA_VERSION    == 2
DAEMON_PROTOCOL_VERSION == 2
GROTH16_PROOF_BYTES     == 356
PUBLIC_VALUES_BYTES     == 32

U32(n) == [u32 |-> n]

HashLengthPrefixed(bytes) == <<U32(Len(bytes))>> \o bytes

(* The text of a digest: 64 digits in lower case, the same with upper case *)
(* letters, or something else.                                             *)
Hex(digest) == [form |-> "lower", digest |-> digest]

(* decode_hex_32.  [Mutant: upper case is taken, too] *)
IsHex32AnyCase(text) == text.form \in {"lower", "upper"}

IsHex32(text) == text.form = "lower"

(* The fields of a ProofJob; the texts of digests are among them. *)
Digests == {"job_id", "parent_checkpoint_sha256", "input_fingerprint", "block_elf_sha256", "vkey_hash"}

JobFields == Digests \cup {"schema_version", "network", "height", "guest_id", "request"}

IsJob(j) ==
  /\ j = [f \in JobFields |-> j[f]]
  /\ \A f \in Digests : j[f] = [form |-> j[f].form, digest |-> j[f].digest]

ComputedInputFingerprint(request) == Hex(Sha256(Json(request)))

(* Grouped as it is read back; update() appends one part after another. *)
IdentityBytes(job) ==
  <<U32(job.schema_version)>>
    \o (HashLengthPrefixed(Utf8(job.network))
    \o (<<U32(job.height), job.parent_checkpoint_sha256.digest, job.input_fingerprint.digest>>
    \o (HashLengthPrefixed(Utf8(job.guest_id))
    \o (<<job.block_elf_sha256.digest, job.vkey_hash.digest>>
    \o HashLengthPrefixed(Json(job.request))))))

ComputedJobId(job) == Hex(Sha256(IdentityBytes(job)))

ValidateJob(job, network) ==
  /\ job.schema_version = PROOF_SCHEMA_VERSION
  /\ job.network = network
  /\ IsHex32(job.parent_checkpoint_sha256) /\ IsHex32(job.input_fingerprint)
  /\ IsHex32(job.block_elf_sha256) /\ IsHex32(job.vkey_hash)
  /\ job.input_fingerprint = ComputedInputFingerprint(job.request)
  /\ job.job_id = ComputedJobId(job)
  /\ job.request.request_id # ""

ValidateDaemonIdentity(job, identity) ==
  /\ identity.kind = "identity"
  /\ identity.protocol_version = DAEMON_PROTOCOL_VERSION
  /\ identity.network = job.network
  /\ identity.guest_id = job.guest_id
  /\ identity.block_elf_sha256 = job.block_elf_sha256
  /\ identity.vkey_hash = job.vkey_hash

ValidateProofResponse(job, response) ==
  /\ response.kind = "proof" /\ response.ok
  /\ response.request_id = job.request.request_id
  /\ response.network = job.network
  /\ response.guest_id = job.guest_id
  /\ response.block_elf_sha256 = job.block_elf_sha256
  /\ response.vkey_hash = job.vkey_hash
  /\ response.proof_size = GROTH16_PROOF_BYTES
  /\ response.public_values_size = PUBLIC_VALUES_BYTES

(* Everything of the job but its request. *)
ResultWith(job, outcome) ==
  [schema_version           |-> job.schema_version,
   job_id                   |-> job.job_id,
   network                  |-> job.network,
   height                   |-> job.height,
   parent_checkpoint_sha256 |-> job.parent_checkpoint_sha256,
   input_fingerprint        |-> job.input_fingerprint,
   guest_id                 |-> job.guest_id,
   block_elf_sha256         |-> job.block_elf_sha256,
   vkey_hash                |-> job.vkey_hash,
   outcome                  |-> outcome]
=============================================================================
