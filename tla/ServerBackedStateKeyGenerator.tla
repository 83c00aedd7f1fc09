------------------- MODULE ServerBackedStateKeyGenerator -------------------
(***************************************************************************)
(* session_manager's ServerBackedStateKeyGenerator                         *)
(* (login_manager/server_backed_state_key_generator.cc).                   *)
(*                                                                         *)
(* Clients ask for the device's state keys with RequestStateKeys().  Until *)
(* InitMachineInfo() has delivered the machine info, their callbacks are   *)
(* parked; InitMachineInfo() then computes the keys once and runs every    *)
(* parked callback.  A key is derived from the device identifiers and a    *)
(* quantum of the current time; kDeviceStateKeyFutureQuanta keys cover the *)
(* present quantum and the ones after it.                                  *)
(*                                                                         *)
(* HMAC-SHA256 and SHA-256 are abstracted to injective constructors of     *)
(* their inputs (HmacKey, HashKey); crypto failures are a nondeterministic *)
(* outcome.  The machine-info text is abstracted to the parsed map, and    *)
(* ParseMachineInfo() is checked on its own as an operator.                *)
(***************************************************************************)
EXTENDS Integers, Sequences, SequencesExt, TLC

CONSTANTS
  Callbacks,      \* the StateKeyCallback objects clients pass
  MachineInfos,   \* the parsed machine-info maps InitMachineInfo() may get
  GoodSecrets,    \* secrets HexStringToBytes() decodes to >= 32 bytes
  QuantumPower,   \* kDeviceStateKeyTimeQuantumPower
  FutureQuanta,   \* kDeviceStateKeyFutureQuanta
  MaxTime,        \* bound on system_utils_->time()
  MaxInits        \* bound on InitMachineInfo() calls

\* std::string(): GetMapValue() returns it for a missing key, so a missing
\* key and an empty value are the same to InitMachineInfo().
Empty == <<>>

\* kMachineInfoSerialNumberKeys, in the order they are tried.
SerialNumberKeys == <<"Product_S/N", "serial_number", "Product_SN", "sn">>
kGroupCodeKey == "gbind_attribute"
kDiskSerialNumberKey == "root_disk_serial_number"
kStableDeviceSecretKey == "stable_device_secret_DO_NOT_SHARE"
MachineInfoKeys ==
  ToSet(SerialNumberKeys)
    \cup {kGroupCodeKey, kDiskSerialNumberKey, kStableDeviceSecretKey}

\* kTrimChars
kTrimChars == {"\"", " "}

(***************************************************************************)
(* ParseMachineInfo(): the key-value pairs, trimmed; the first pair with a *)
(* name wins, pairs with an empty name are skipped.  Strings are sequences *)
(* of characters.                                                          *)
(***************************************************************************)
RECURSIVE TrimLeading(_)
TrimLeading(s) ==
  IF s # <<>> /\ Head(s) \in kTrimChars THEN TrimLeading(Tail(s)) ELSE s

\* base::TrimString(input, kTrimChars, &output), both ends.
TrimString(s) == Reverse(TrimLeading(Reverse(TrimLeading(s))))

\* Variant: a later pair with the same name overwrites the first one.
RECURSIVE ParseLoopLastWins(_, _)
ParseLoopLastWins(pairs, params) ==
  IF pairs = <<>> THEN params
  ELSE LET name == TrimString(Head(pairs)[1])
       IN  ParseLoopLastWins(Tail(pairs),
             IF name = <<>> THEN params
             ELSE (name :> TrimString(Head(pairs)[2])) @@ params)

\* The loop over the pairs, with the map built so far.
RECURSIVE ParseLoop(_, _)
ParseLoop(pairs, params) ==
  IF pairs = <<>> THEN params
  ELSE LET name == TrimString(Head(pairs)[1])
       IN  ParseLoop(Tail(pairs),
             IF name = <<>> \/ name \in DOMAIN params THEN params
             ELSE params @@ (name :> TrimString(Head(pairs)[2])))

ParseMachineInfo(pairs) == ParseLoop(pairs, [n \in {} |-> n])

(***************************************************************************)
(* Keys.                                                                   *)
(***************************************************************************)
QuantumSize == 2 ^ QuantumPower

\* Variant: the time used without clearing its low bits.
QuantizeUnmasked(t) == t

\* time & ~(quantum_size - 1): the low QuantumPower bits cleared (time >= 0).
Quantize(t) == t - (t % QuantumSize)

HmacKey(secret, quantum) == <<"hmac", secret, quantum>>
HashKey(group, disk, serial, quantum) == <<"sha256", <<group, disk, serial>>, quantum>>

\* Variant: a failed hmac.Sign() leaves the keys computed before it.
ComputeKeysPartial(id, t, crypto_ok) ==
  LET q(i) == Quantize(t) + (i - 1) * QuantumSize
  IN  CASE id.secret # Empty ->
             IF id.secret \notin GoodSecrets THEN <<>>
             ELSE IF crypto_ok
                  THEN [i \in 1..FutureQuanta |-> HmacKey(id.secret, q(i))]
                  ELSE <<HmacKey(id.secret, q(1))>>
        [] id.serial # Empty /\ id.disk # Empty ->
             [i \in 1..FutureQuanta |-> HashKey(id.group, id.disk, id.serial, q(i))]
        [] OTHER -> <<>>

\* ComputeKeys() for identifiers id at time t; crypto_ok is FALSE when
\* hmac.Init() or one of the hmac.Sign() calls fails (the keys are then
\* cleared).
ComputeKeys(id, t, crypto_ok) ==
  LET q(i) == Quantize(t) + (i - 1) * QuantumSize
  IN  CASE id.secret # Empty ->
             IF id.secret \in GoodSecrets /\ crypto_ok
             THEN [i \in 1..FutureQuanta |-> HmacKey(id.secret, q(i))]
             ELSE <<>>
        [] id.serial # Empty /\ id.disk # Empty ->
             [i \in 1..FutureQuanta |-> HashKey(id.group, id.disk, id.serial, q(i))]
        [] OTHER -> <<>>

\* The serial number loop: the first non-empty candidate; the member keeps
\* its value when there is none.
FirstSerial(params, current) ==
  LET i == SelectInSeq(SerialNumberKeys, LAMBDA k : params[k] # Empty)
  IN  IF i = 0 THEN current ELSE params[SerialNumberKeys[i]]

(***************************************************************************)
(* The generator.                                                          *)
(***************************************************************************)
VARIABLES
  machine_info_available,   \* machine_info_available_
  machine_serial_number,    \* machine_serial_number_
  group_code_key,           \* group_code_key_
  disk_serial_number,       \* disk_serial_number_
  stable_device_secret,     \* stable_device_secret_
  pending_callbacks,        \* pending_callbacks_
  now,                      \* system_utils_->time(NULL)
  requested,                \* history: callbacks in the order they were requested
  answers,                  \* history: [cb, time, keys, epoch] per callback run
  inits                     \* history: InitMachineInfo() calls so far

vars == <<machine_info_available, machine_serial_number, group_code_key,
          disk_serial_number, stable_device_secret, pending_callbacks, now,
          requested, answers, inits>>
ids == <<machine_serial_number, group_code_key, disk_serial_number,
         stable_device_secret>>

Identifiers == [serial |-> machine_serial_number, group |-> group_code_key,
                disk |-> disk_serial_number, secret |-> stable_device_secret]

Answer(cb, keys, epoch) == [cb |-> cb, time |-> now, keys |-> keys, epoch |-> epoch]

\* The constructor.
Init ==
  /\ machine_info_available = FALSE
  /\ machine_serial_number = Empty
  /\ group_code_key = Empty
  /\ disk_serial_number = Empty
  /\ stable_device_secret = Empty
  /\ pending_callbacks = <<>>
  /\ now \in 0..MaxTime
  /\ requested = <<>>
  /\ answers = <<>>
  /\ inits = 0

\* RequestStateKeys(callback): parked until the machine info is there,
\* answered at once afterwards.  Every request brings a new callback.
RequestStateKeys(cb) ==
  /\ cb \notin ToSet(requested)
  /\ requested' = Append(requested, cb)
  /\ IF ~machine_info_available
       THEN /\ pending_callbacks' = Append(pending_callbacks, cb)
            /\ UNCHANGED answers
       ELSE /\ \E ok \in BOOLEAN :
                 answers' = Append(answers, Answer(cb, ComputeKeys(Identifiers, now, ok), inits))
            /\ UNCHANGED pending_callbacks
  /\ UNCHANGED <<machine_info_available, ids, now, inits>>

\* Variant: the parked callbacks are run but not swapped out.
InitMachineInfoKeepsPending(params) ==
  /\ inits < MaxInits
  /\ inits' = inits + 1
  /\ machine_info_available' = TRUE
  /\ machine_serial_number' = FirstSerial(params, machine_serial_number)
  /\ group_code_key' = params[kGroupCodeKey]
  /\ disk_serial_number' = params[kDiskSerialNumberKey]
  /\ stable_device_secret' = params[kStableDeviceSecretKey]
  /\ \E ok \in BOOLEAN :
       LET keys == ComputeKeys(Identifiers', now, ok)
       IN  answers' = answers \o [i \in 1..Len(pending_callbacks) |->
                        Answer(pending_callbacks[i], keys, inits')]
  /\ UNCHANGED <<now, requested, pending_callbacks>>

\* InitMachineInfo(params): stores the identifiers, computes the keys once
\* and runs the parked callbacks, in order, after swapping them out.
InitMachineInfo(params) ==
  /\ inits < MaxInits
  /\ inits' = inits + 1
  /\ machine_info_available' = TRUE
  /\ machine_serial_number' = FirstSerial(params, machine_serial_number)
  /\ group_code_key' = params[kGroupCodeKey]
  /\ disk_serial_number' = params[kDiskSerialNumberKey]
  /\ stable_device_secret' = params[kStableDeviceSecretKey]
  /\ \E ok \in BOOLEAN :
       LET keys == ComputeKeys(Identifiers', now, ok)
       IN  answers' = answers \o [i \in 1..Len(pending_callbacks) |->
                        Answer(pending_callbacks[i], keys, inits')]
  /\ pending_callbacks' = <<>>
  /\ UNCHANGED <<now, requested>>

\* The wall clock moves on.
Tick ==
  /\ now < MaxTime
  /\ now' = now + 1
  /\ UNCHANGED <<machine_info_available, ids, pending_callbacks, requested,
                 answers, inits>>

Next ==
  \/ \E cb \in Callbacks : RequestStateKeys(cb)
  \/ \E params \in MachineInfos : InitMachineInfo(params)
  \/ Tick

Spec == Init /\ [][Next]_vars

(***************************************************************************)
(* Properties                                                              *)
(***************************************************************************)
TypeOK ==
  /\ machine_info_available \in BOOLEAN
  /\ pending_callbacks \in Seq(Callbacks)
  /\ now \in 0..MaxTime
  /\ inits \in 0..MaxInits
  /\ \A i \in 1..Len(answers) : Len(answers[i].keys) \in {0, FutureQuanta}

\* Every callback handed to RequestStateKeys() runs exactly once and in the
\* order of the requests: the callbacks run so far, followed by the parked
\* ones, are the requests; and none stays parked once the machine info is
\* available (InitMachineInfo() swaps the whole list out before running it).
CallbacksRunOnceInOrder ==
  /\ [i \in 1..Len(answers) |-> answers[i].cb] \o pending_callbacks = requested
  /\ machine_info_available => pending_callbacks = <<>>

\* Time quantum of a key and of a moment, stated without Quantize().
KeyQuantum(key) == key[3] \div QuantumSize
TimeQuantum(t) == t \div QuantumSize

\* The keys of one machine info identify time quanta: whichever request
\* produced them, and whatever the time of the request, the key a client
\* gets for a given quantum is the same, keys for different quanta differ,
\* and the first key of an answer is for the quantum of the moment the
\* keys were computed (the server matches keys across requests this way).
KeysIdentifyQuanta ==
  \A a, b \in ToSet(answers) :
    a.keys # <<>> /\ b.keys # <<>> /\ a.epoch = b.epoch =>
      /\ KeyQuantum(a.keys[1]) = TimeQuantum(a.time)
      /\ \A i, j \in 1..FutureQuanta :
           (TimeQuantum(a.time) + i = TimeQuantum(b.time) + j)
             <=> (a.keys[i] = b.keys[j])
=============================================================================
