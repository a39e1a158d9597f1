----------------------------- MODULE Handshake ------------------------------
(***************************************************************************)
(* What a handshake comes to, on both sides, for every client and every    *)
(* server configuration, when the connection may drop between any two of   *)
(* its messages (client/client.go, server/server.go, the key messages of   *)
(* server/channel/crypto.go and the keys of crypto/keys.go). Signatures,   *)
(* encryption and random values are symbols; their encodings are left out. *)
(***************************************************************************)
EXTENDS Integers, FiniteSets

CONSTANTS Channels, Version

Nobody == "none"

pkgMinBytes == 128
ServerMinKeySize == 512
ClientMinKeySize == 128

\* A public key made with a minimal size asks at least the package's of others.
Min(minBytes) == IF minBytes < pkgMinBytes THEN pkgMinBytes ELSE minBytes
LargeEnough(key, minBytes) == key.size >= Min(minBytes)

Fingerprint(key) == key.id
Sign(key, data)  == [by |-> key.id, data |-> data]
Verify(key, data, sig) == sig = [by |-> key.id, data |-> data]
Encrypt(key, data) == [for |-> key.id, data |-> data]

\* The messages with the keys and what is checked of them on arrival.
PubKeyServerMessage(key, rnd) == [key |-> key, rnd |-> rnd, sig |-> Sign(key, <<key.id, rnd>>)]

verifyServerMessage(m) ==
  LargeEnough(m.key, ServerMinKeySize) /\ Verify(m.key, <<m.key.id, m.rnd>>, m.sig)

PubKeyMessage(key, server, rnd, preMaster) ==
  LET enc == Encrypt(server.key, preMaster)
  IN  [key |-> key, rnd |-> rnd, enc |-> enc, sig |-> Sign(key, enc)]

verifyMessage(m) == LargeEnough(m.key, ClientMinKeySize) /\ Verify(m.key, m.enc, m.sig)

\* The four secrets of a side, named by labels that swap read and write.
ClientLabels == [read |-> "read", write |-> "write", macRead |-> "mac-read", macWrite |-> "mac-write"]

ServerLabels ==
  [read |-> ClientLabels.write, write |-> ClientLabels.read,
   macRead |-> ClientLabels.macWrite, macWrite |-> ClientLabels.macRead]

CommonSecret(labels, preMaster, clientRnd, serverRnd) ==
  [use \in DOMAIN labels |-> <<labels[use], preMaster, clientRnd, serverRnd>>]

\* What a side writes, the other can read.
Understands(reader, writer) == reader.read = writer.write /\ reader.macRead = writer.macWrite

-----------------------------------------------------------------------------
Status(code, name) == [code |-> code, name |-> name]

\* The answer of the policy loader: an error, nobody, or the name to have.
Known(srv, key) == srv.list[Fingerprint(key)]

\* The verdict about a client that has identified itself; its name is what is
\* left of what it asked for without blanks and controls, or the name it has
\* to have.
newClient(srv, cl) ==
  LET forced == Known(srv, cl.key)
      name   == IF srv.policy = "fixed" THEN forced ELSE cl.name
  IN  IF srv.policy # "world" /\ forced = "error" THEN Status("NOK", Nobody)
      ELSE IF srv.policy # "world" /\ forced = "" THEN Status("NotAllowed", Nobody)
      ELSE IF ~(cl.channels \subseteq Channels) THEN Status("NOK", Nobody)
      ELSE IF cl.version # Version THEN Status("UpdateClient", Nobody)
      ELSE IF name = "" THEN Status("NOK", Nobody)
      ELSE Status("OK", name)

\* The messages in their order; the first n of them arrive.
Steps == <<"proto", "server key", "client key", "test", "echo", "identify", "status", "identity">>

Came(n, step) == \E i \in 1..n : Steps[i] = step

ServerKey(srv) == PubKeyServerMessage(srv.key, "srv rnd")
ClientKey(srv, cl) == PubKeyMessage(cl.key, ServerKey(srv), "cl rnd", "pm")

ClientSecrets == CommonSecret(ClientLabels, "pm", "cl rnd", "srv rnd")
ServerSecrets(srv, cl) ==
  CommonSecret(ServerLabels, ClientKey(srv, cl).enc.data, ClientKey(srv, cl).rnd, "srv rnd")

\* How far the server comes before it gives its verdict: the protocol byte,
\* the client's key, the test value back under both secrets.
Served(srv, cl, n) ==
  /\ Came(n, "identify")
  /\ cl.proto \in {"json", "binary"}
  /\ verifyMessage(ClientKey(srv, cl))
  /\ Understands(ServerSecrets(srv, cl), ClientSecrets)

\* And the client: it trusts one fingerprint.
Trusts(srv, cl) == cl.trust # Nobody /\ cl.trust = Fingerprint(srv.key)

Talks(srv, cl, n) ==
  /\ Came(n, "test") /\ cl.proto \in {"json", "binary"}
  /\ verifyServerMessage(ServerKey(srv)) /\ verifyMessage(ClientKey(srv, cl))
  /\ Understands(ClientSecrets, ServerSecrets(srv, cl))

\* The name under which the server has registered the client.
Registered(srv, cl, n) ==
  IF Talks(srv, cl, n) /\ Trusts(srv, cl) /\ Served(srv, cl, n) THEN newClient(srv, cl).name ELSE Nobody

\* What the client's dialling comes to: it has a name, it gives up for good
\* for a reason, or it tries again.
Connected(name) == [end |-> "connected", name |-> name, why |-> Nobody]
Fatal(why)      == [end |-> "fatal", name |-> Nobody, why |-> why]
Again           == [end |-> "again", name |-> Nobody, why |-> Nobody]

\* Mutant: whatever goes wrong here is final.
NegotiateUserFinal(srv, cl, n) ==
  LET s == newClient(srv, cl) IN
  IF ~Came(n, "status") THEN Fatal("NOK")
  ELSE IF s.code # "OK" THEN Fatal(s.code)
  ELSE IF Came(n, "identity") THEN Connected(s.name) ELSE Again

negotiateUser(srv, cl, n) ==
  LET s == newClient(srv, cl) IN
  IF ~Came(n, "status") THEN Again
  ELSE IF s.code # "OK" THEN Fatal(s.code)
  ELSE IF Came(n, "identity") THEN Connected(s.name) ELSE Again

tryConnect(srv, cl, n) ==
  IF ~(Came(n, "server key") /\ cl.proto \in {"json", "binary"} /\ verifyServerMessage(ServerKey(srv)))
  THEN Again
  ELSE IF ~Trusts(srv, cl) THEN Fatal("fingerprint")
  ELSE IF ~Talks(srv, cl, n) \/ ~Served(srv, cl, n) THEN Again
  ELSE negotiateUser(srv, cl, n)

-----------------------------------------------------------------------------
(* What is right about a handshake, of which the first n messages arrive *)

\* A client that has connected goes by the name that the server has for it,
\* which is its own or, with the policy fixed, the one in the list; and when
\* all messages arrive the server has no client that is not connected.
AgreeOnName(srv, cl, n) ==
  LET c == tryConnect(srv, cl, n)
      r == Registered(srv, cl, n)
  IN  /\ c.end = "connected" =>
           /\ c.name = r /\ r \notin {Nobody, ""}
           /\ r = IF srv.policy = "fixed" THEN Known(srv, cl.key) ELSE cl.name
      /\ n = 8 /\ r # Nobody => c.end = "connected"

\* A client gives up for good only for what the server is or says: a
\* connection that drops before a verdict is always tried again; an outdated
\* client that may connect, and asks for channels there are, is told to update.
FatalOnlyByVerdict(srv, cl, n) ==
  LET c    == tryConnect(srv, cl, n)
      said == newClient(srv, cl).code
      may  == srv.policy = "world" \/ Known(srv, cl.key) \notin {"", "error"}
  IN  c.end = "fatal" =>
        /\ c.why = "fingerprint" => cl.trust # Fingerprint(srv.key) /\ n >= 2
        /\ c.why # "fingerprint" => c.why = said /\ n >= 7
        /\ c.why = "NotAllowed" => ~may
        /\ may /\ cl.version # Version /\ cl.channels \subseteq Channels /\ c.why # "fingerprint"
             => c.why = "UpdateClient"
=============================================================================
