---------------------------- MODULE TelemetrySetup -----------------------------
(***************************************************************************)
(* Keys, certificates and the car's telemetry config: the commands init,   *)
(* telemetry server-config, push, remove and status, and doctor            *)
(* (teslai/cli.py, secrets.py, server_config.py, doctor.py,                *)
(* tesla/telemetry_config.py).  Files are written one after another, and a *)
(* command may stop between two of them; the owner starts one command at a *)
(* time.  Tesla keeps the config that was pushed, and the car takes it     *)
(* over later.                                                             *)
(*                                                                         *)
(* A key is known by its number among those that its file has held.  What  *)
(* a certificate says is the number of its own key, of the CA's key that   *)
(* signed it, and its last day.  Of the settings only what decides an      *)
(* early return is kept: .env is absent, copied from the example, written  *)
(* by init, or completed by the owner.                                     *)
(***************************************************************************)
EXTENDS Integers, Sequences

CONSTANTS CaDays, ServerDays, ConfigDays,  \* CA_DAYS, SERVER_DAYS, tesla_telemetry_exp_days
          Soon,                            \* two weeks
          LastDay,                         \* bound: the last day
          MaxInits, MaxRotations,          \* bounds: commands that make new keys
          MaxInterrupts                    \* bound: commands that stop half way

ASSUME SetupAssumption ==
    {CaDays, ServerDays, ConfigDays, Soon, LastDay, MaxInits, MaxRotations, MaxInterrupts} \subseteq Nat

Nothing == [key |-> 0, issuer |-> 0, until |-> 0]
NoConfig == [ca |-> Nothing, fields |-> 0, exp |-> 0]

VARIABLES day,
          file,        \* the files of keys and certificates
          env,         \* .env
          writing,     \* what the command that runs has yet to write
          fields,      \* the version of telemetry.yaml
          paired,      \* the app key that the owner has put into the car
          sent, car,   \* the config that Tesla has, and the one that the car has
          inits, rotations, interrupts,
          torn         \* history: the last command to make the server's key anew
                       \* stopped before it wrote the certificate

setupVars == <<day, file, env, writing, fields, paired, sent, car, inits, rotations, interrupts, torn>>

Secrets == {"ca_key", "ca_cert", "server_key", "server_cert", "app_private", "app_public"}
ProxyFiles == {"proxy_key", "proxy_cert"}

SetupInit ==
    /\ day = 0
    /\ file = [f \in Secrets \cup ProxyFiles |-> Nothing]
    /\ env \in {"absent", "example"}
    /\ writing = <<>>
    /\ fields = 1 /\ paired = 0
    /\ sent = NoConfig /\ car = NoConfig
    /\ inits = 0 /\ rotations = 0 /\ interrupts = 0 /\ torn = FALSE

Exists(f) == file[f] # Nothing

-----------------------------------------------------------------------------
(* Keys and certificates.                                                  *)

NewKey(f) == [key |-> file[f].key + 1, issuer |-> 0, until |-> 0]
Issued(key, days) == [key |-> file[key].key, issuer |-> file["ca_key"].key, until |-> day + days]

\* What generate_ca, generate_server_cert, generate_app_keys and ensure_proxy_cert
\* write: each a key, and then what belongs to it.
Content(f) ==
    CASE f \in {"ca_key", "server_key", "app_private", "proxy_key"} -> NewKey(f)
      [] f = "ca_cert" -> Issued("ca_key", CaDays)
      [] f = "server_cert" -> Issued("server_key", ServerDays)
      [] f = "proxy_cert" -> Issued("proxy_key", ServerDays)
      [] f = "app_public" -> file["app_private"]

WriteNext ==
    /\ writing # <<>>
    /\ writing' = Tail(writing)
    /\ IF Head(writing) = "env"
       THEN env' = "written" /\ UNCHANGED file
       ELSE file' = [file EXCEPT ![Head(writing)] = Content(Head(writing))] /\ UNCHANGED env
    /\ torn' = (torn /\ Head(writing) # "server_cert")
    /\ UNCHANGED <<day, fields, paired, sent, car, inits, rotations, interrupts>>

Interrupt ==
    /\ writing # <<>> /\ interrupts < MaxInterrupts
    /\ writing' = <<>>
    /\ interrupts' = interrupts + 1
    /\ torn' = (torn \/ Head(writing) = "server_cert")
    /\ UNCHANGED <<day, file, env, fields, paired, sent, car, inits, rotations>>

\* Without --force, init does nothing when any of its files is there.
InitCommand(force) ==
    /\ writing = <<>> /\ inits < MaxInits
    /\ force \/ (env = "absent" /\ \A f \in Secrets : ~Exists(f))
    /\ writing' = <<"ca_key", "ca_cert", "server_key", "server_cert", "app_private", "app_public", "env">>
    /\ inits' = inits + 1
    /\ UNCHANGED <<day, file, env, fields, paired, sent, car, rotations, interrupts, torn>>

\* init --rotate-server-cert: the CA's files are read before anything is written.
RotateServerCert ==
    /\ writing = <<>> /\ rotations < MaxRotations
    /\ Exists("ca_key") /\ Exists("ca_cert")
    /\ writing' = <<"server_key", "server_cert">>
    /\ rotations' = rotations + 1
    /\ UNCHANGED <<day, file, env, fields, paired, sent, car, inits, interrupts, torn>>

\* telemetry server-config: a certificate of the proxy that is there is kept,
\* whichever CA it is from.
ServerConfig ==
    /\ writing = <<>>
    /\ \E f \in ProxyFiles : ~Exists(f)
    /\ Exists("ca_key") /\ Exists("ca_cert")
    /\ writing' = <<"proxy_key", "proxy_cert">>
    /\ UNCHANGED <<day, file, env, fields, paired, sent, car, inits, rotations, interrupts, torn>>

\* The owner fills in .env, changes telemetry.yaml, or pairs the app's key.
EditEnv ==
    /\ writing = <<>> /\ env = "written"
    /\ env' = "complete"
    /\ UNCHANGED <<day, file, writing, fields, paired, sent, car, inits, rotations, interrupts, torn>>

EditFields ==
    /\ fields = 1 /\ fields' = 2
    /\ UNCHANGED <<day, file, env, writing, paired, sent, car, inits, rotations, interrupts, torn>>

Pair ==
    /\ Exists("app_public") /\ paired' = file["app_public"].key
    /\ UNCHANGED <<day, file, env, writing, fields, sent, car, inits, rotations, interrupts, torn>>

-----------------------------------------------------------------------------
(* The car's config.                                                       *)

\* _desired_body: the CA is the file; TESLA_VIN and the file have to be there.
Desired == [ca |-> file["ca_cert"], fields |-> fields, exp |-> day + ConfigDays]
CanAsk == env = "complete" /\ Exists("ca_cert")

\* The proxy is verified with the CA's certificate (TESLA_PROXY_CA).
ProxyAnswers ==
    /\ file["proxy_cert"].key = file["proxy_key"].key
    /\ file["proxy_cert"].issuer = file["ca_cert"].key
    /\ day <= file["proxy_cert"].until

\* The proxy signs with the app's key; Tesla skips a car that is not paired with it.
CarIsUpdated == Exists("app_private") /\ file["app_private"].key = paired

Push ==
    /\ CanAsk /\ ProxyAnswers /\ CarIsUpdated
    /\ sent' = Desired
    /\ UNCHANGED <<day, file, env, writing, fields, paired, car, inits, rotations, interrupts, torn>>

Remove ==
    /\ CanAsk
    /\ sent' = NoConfig
    /\ UNCHANGED <<day, file, env, writing, fields, paired, car, inits, rotations, interrupts, torn>>

CarSyncs ==
    /\ car # sent /\ car' = sent
    /\ UNCHANGED <<day, file, env, writing, fields, paired, sent, inits, rotations, interrupts, torn>>

\* check_status: what is wrong with the config that Tesla answers with (fetch);
\* a car whose limit of configs is reached has none of ours.
StatusCodes ==
    IF sent = car /\ sent = NoConfig
    THEN {"TSL-CONFIG-NULL"}
    ELSE {c \in {"TSL-CONFIG-UNSYNCED", "TSL-CA-MISMATCH", "TSL-CONFIG-EXPIRING"} :
             CASE c = "TSL-CONFIG-UNSYNCED" -> sent # car
               [] c = "TSL-CA-MISMATCH" -> sent # NoConfig /\ sent.ca # Desired.ca
               [] c = "TSL-CONFIG-EXPIRING" -> sent # NoConfig /\ sent.exp - day < Soon}

Diff == IF sent = NoConfig THEN {"config"} ELSE {k \in {"ca", "fields"} : sent[k] # Desired[k]}

StatusIsGood == CanAsk /\ StatusCodes = {} /\ Diff = {}

-----------------------------------------------------------------------------
(* doctor.                                                                 *)

SignedByCaKey == file["server_cert"].issuer = file["ca_key"].key  \* mutant: asks the key

\* server_cert_signed_by_ca.
ServerCertSignedByCa == file["server_cert"].issuer = file["ca_cert"].key

\* run_checks stops at the first check that fails; whether the database and the broker
\* can be reached, and the hint about the Tesla app, are left out.
Checks == <<"TSL-ENV-MISSING", "TSL-ENV-INCOMPLETE", "TSL-SECRETS-MISSING", "TSL-CA-MISMATCH",
            "TSL-CERT-EXPIRING">>

Passes(check) ==
    CASE check = "TSL-ENV-MISSING" -> env # "absent"
      [] check = "TSL-ENV-INCOMPLETE" -> env \in {"written", "complete"}
      [] check = "TSL-SECRETS-MISSING" -> \A f \in Secrets : Exists(f)
      [] check = "TSL-CA-MISMATCH" -> ServerCertSignedByCa
      [] check = "TSL-CERT-EXPIRING" -> file["server_cert"].until - day >= Soon

DoctorIsGood == \A i \in DOMAIN Checks : Passes(Checks[i])

-----------------------------------------------------------------------------
NextDay ==
    /\ writing = <<>> /\ day < LastDay
    /\ day' = day + 1
    /\ UNCHANGED <<file, env, writing, fields, paired, sent, car, inits, rotations, interrupts, torn>>

SetupNext ==
    \/ \E force \in BOOLEAN : InitCommand(force)
    \/ RotateServerCert \/ ServerConfig \/ WriteNext \/ Interrupt
    \/ EditEnv \/ EditFields \/ Pair
    \/ Push \/ Remove \/ CarSyncs
    \/ NextDay

-----------------------------------------------------------------------------
\* What the TLS handshake needs: the server, started with the files as they are, has
\* a certificate signed by the CA that the car has pinned ...
CarKnowsServer == car # NoConfig /\ car.ca.key = file["server_cert"].issuer

\* ... and the key that the certificate is of.
ServerHasItsKey == file["server_cert"].key = file["server_key"].key

\* A command that makes both is between the two, or has stopped there.
KeyIsAhead == torn \/ (writing # <<>> /\ Head(writing) = "server_cert")

\* When doctor has nothing to say and status calls the car synced and current
\* without a difference, the car streams to this server, and goes on for two weeks,
\* with the fields of telemetry.yaml and within the years of the CA: whatever has been
\* made anew, pushed or left half done before.  Neither of them notices one thing: a
\* command that stopped after the server's key and before its certificate, and that
\* nobody has repeated since (run_checks, check_status, diff).
GoodNewsIsTrue ==
    DoctorIsGood /\ StatusIsGood
        => /\ CarKnowsServer /\ (ServerHasItsKey \/ KeyIsAhead)
           /\ car.fields = fields
           /\ day + Soon <= file["server_cert"].until /\ day + Soon <= car.exp
===============================================================================
