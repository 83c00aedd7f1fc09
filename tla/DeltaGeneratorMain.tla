------------------------- MODULE DeltaGeneratorMain -------------------------
(***************************************************************************)
(* delta_generator's Main() (update_engine/payload_generator/              *)
(* generate_delta_main.cc): one invocation picks one operation from its    *)
(* flags (hash for signing, sign, verify, apply a delta, or generate a     *)
(* payload), dies through LOG(FATAL) or a failed CHECK when a flag it      *)
(* needs is missing or a step fails, and otherwise exits 0, or 1 when      *)
(* GenerateDeltaUpdateFile() fails.                                        *)
(*                                                                         *)
(* Data abstraction.  An invocation is a record:                           *)
(*   flags      the string flags given non-empty (only the ones Main()     *)
(*              tests; the others are passed through);                     *)
(*   sizes      the pieces of --signature_size as base::StringToInt()      *)
(*              reads them, BadValue for one that does not parse (an       *)
(*              empty flag has no piece at all);                           *)
(*   new_info,  the --new_* and --old_* image-info flags: "none" given,     *)
(*   old_info   "all" four given, or "partial";                            *)
(*   minor      --minor_version when it is on the command line, else       *)
(*              BadValue;                                                  *)
(*   conf       the minor version utils::GetMinorVersion() finds in        *)
(*              <old_dir>/etc/update_engine.conf, BadValue if none;        *)
(*   ok         whether the file, crypto and directory steps guarded by    *)
(*              CHECK() succeed;                                           *)
(*   generated  what GenerateDeltaUpdateFile() returns.                    *)
(* The result records the exit status, the operation and, for a payload   *)
(* that is generated, the minor version and old image info it is given.   *)
(***************************************************************************)
EXTENDS Integers, Sequences

BadValue == -1
EXIT_OK == 0
EXIT_FAILED == 1
ABORTED == 134          \* LOG(FATAL) and a failed CHECK() abort

kSignatureSize == 2048 \div 8
kInPlaceMinorPayloadVersion == 1
kFullPayloadMinorVersion == 0     \* DeltaPerformer::kFullPayloadMinorVersion

\* LOG_IF(FATAL, FLAGS_x.empty()) for every flag of fs.
Need(fs, a) == fs \subseteq a.flags

Result(code, mode, minor, old_info) ==
  [exit |-> code, mode |-> mode, minor |-> minor, old_info |-> old_info]
Finish(mode, survives) ==
  Result(IF survives THEN EXIT_OK ELSE ABORTED, mode, BadValue, "none")

\* Every piece must parse and be 256 bytes, or the tool dies.
ParseSignatureSizes(sizes) == \A i \in 1..Len(sizes) : sizes[i] = kSignatureSize

\* CHECK_EQ on the emptiness of channel, board, version and key: a partial
\* set dies, none leaves image_info unset (false), all four set it (true).
ImageInfoDies(info) == info = "partial"
ParseImageInfo(info) == info = "all"

CalculatePayloadHashForSigning(a) == Need({"in_file"}, a) /\ a.ok
CalculateMetadataHashForSigning(a) == Need({"in_file"}, a) /\ a.ok
SignPayload(a) == Need({"in_file", "out_file", "signature_file"}, a) /\ a.ok
VerifySignedPayload(a) == Need({"in_file", "public_key"}, a) /\ a.ok
\* Prefs::Init() failing is only logged; the checksums, Open(), the read
\* loop over --in_file and Close() are CHECKed.
ApplyDelta(a) == Need({"old_image"}, a) /\ a.ok

\* Both hash outputs are written when both are asked for.
HashForSigning(a) ==
  /\ "out_hash_file" \in a.flags => CalculatePayloadHashForSigning(a)
  /\ "out_metadata_hash_file" \in a.flags => CalculateMetadataHashForSigning(a)

\* The minor version: the flag if it is on the command line, else the one
\* in the conf under --old_dir, else by the kind of payload.
MinorVersion(a, is_delta) ==
  CASE a.minor # BadValue -> a.minor
    [] a.conf # BadValue -> a.conf
    [] is_delta -> kInPlaceMinorPayloadVersion
    [] OTHER -> kFullPayloadMinorVersion

\* Mutant: CHECK(!FLAGS_new_kernel.empty()) left out.
GenerateNoKernelCheck(a) ==
  LET is_delta == "old_image" \in a.flags
      v == MinorVersion(a, is_delta)
  IN  IF \/ ~Need({"new_image", "out_file"}, a)
         \/ ImageInfoDies(a.new_info) \/ ImageInfoDies(a.old_info)
         \/ is_delta /\ ~(Need({"old_dir", "new_dir"}, a) /\ a.ok)
         \/ v \notin {kInPlaceMinorPayloadVersion, kFullPayloadMinorVersion}
        THEN Finish("generate", FALSE)
        ELSE Result(IF a.generated THEN EXIT_OK ELSE EXIT_FAILED, "generate", v,
                    IF is_delta THEN a.old_info ELSE "none")

\* Payload generation: the input flags, both image infos, for a delta the
\* two mounted directories, then a supported minor version; the old image
\* info is handed over only for a delta.
Generate(a) ==
  LET is_delta == "old_image" \in a.flags
      v == MinorVersion(a, is_delta)
  IN  IF \/ ~Need({"new_image", "out_file", "new_kernel"}, a)
         \/ ImageInfoDies(a.new_info) \/ ImageInfoDies(a.old_info)
         \/ is_delta /\ ~(Need({"old_dir", "new_dir"}, a) /\ a.ok)
         \/ v \notin {kInPlaceMinorPayloadVersion, kFullPayloadMinorVersion}
        THEN Finish("generate", FALSE)
        ELSE Result(IF a.generated THEN EXIT_OK ELSE EXIT_FAILED, "generate", v,
                    IF is_delta THEN a.old_info ELSE "none")

\* Main(): the signature sizes are parsed first, whatever the operation;
\* then the first operation whose flag is given runs.
Main(a) ==
  IF ~ParseSignatureSizes(a.sizes) THEN Finish("none", FALSE)
  ELSE CASE {"out_hash_file", "out_metadata_hash_file"} \cap a.flags # {} ->
              Finish("hash", HashForSigning(a))
         [] "signature_file" \in a.flags -> Finish("sign", SignPayload(a))
         [] "public_key" \in a.flags -> Finish("verify", VerifySignedPayload(a))
         [] "in_file" \in a.flags -> Finish("apply", ApplyDelta(a))
         [] OTHER -> Generate(a)
=============================================================================
