------------------------------ MODULE Packets ------------------------------
(***************************************************************************)
(* What a copy is sent as, and what the receiver makes of it: plaster: and *)
(* handlePlasterInWithData: over the packets of TSPacketSerializer.        *)
(*                                                                         *)
(* A pasteboard is a function from the representations it has of its       *)
(* first item, "file", "image" and "text", to their bytes; a file may be   *)
(* Unreadable, because it cannot be opened or is too long, and the bytes   *)
(* of an image stand for what it shows, in whatever format.  A profile     *)
(* tells of each of the three whether it is allowed.  PasteboardMonitor    *)
(* models when the two run, FileTransfer the way of a file and Wire the    *)
(* bytes of a packet.                                                      *)
(***************************************************************************)
EXTENDS Base64

Unreadable == <<-1>>

TSPlasterTypeText         == "plaster-text"
TSPlasterTypeImage        == "plaster-image"
TSPlasterTypeNotification == "plaster-notification"
TSPlasterTypeFile         == "plaster-file"

(***************************************************************************)
(* The packets, as the JSON objects that are written and read back.  The   *)
(* encoder answers zero for no bytes, and then what lies in the memory     *)
(* NSData's base64String has not written to is taken for the string: that  *)
(* is one of Strays.  NSString's begins with a zero.                       *)
(***************************************************************************)
Strays == {<<>>, <<"A", "A", "=", "=">>}

Packet(type, sender, string) == [type |-> type, sender |-> sender, data |-> string]

JSONWithTextPacket(packet, sender) ==
  Packet(TSPlasterTypeText, sender, base64_encode(packet))

JSONWithNotificationPacket(packet, sender) ==
  Packet(TSPlasterTypeNotification, sender, base64_encode(packet))

\* An image has a header: there are always bytes to encode.
JSONWithImagePacket(packet, sender) ==
  Packet(TSPlasterTypeImage, sender, base64_encode(packet))

\* One of these.
JSONWithDataPacket(packet, sender) ==
  {Packet(TSPlasterTypeFile, sender, string) :
     string \in IF packet = <<>> THEN Strays ELSE {base64_encode(packet)}}

\* The object of the receiver's side, by the name its content is looked up with.  What
\* cannot be decoded is empty, and nothing of the length of a real packet is.
dictionaryFromJSON(json) ==
  [type |-> json.type, sender |-> json.sender, content |-> base64_decode(json.data),
   key  |-> CASE json.type \in {TSPlasterTypeText, TSPlasterTypeNotification} -> "text"
              [] json.type = TSPlasterTypeImage -> "image"
              [] OTHER -> "file"]

-----------------------------------------------------------------------------
(***************************************************************************)
(* plaster: what is published, or set under a key of its own for a         *)
(* notification to follow.  A pasteboard with a file on it is not looked   *)
(* at any further, whatever becomes of the file.  NSImage is the first     *)
(* class asked for.                                                        *)
(***************************************************************************)

\* Mutant: a file that cannot be sent is sent as what else there is.
plasterOnward(pboard, out, sender) ==
  LET readables == {c \in {"image", "text"} \cap DOMAIN pboard : out[c]} IN
  CASE out["file"] /\ "file" \in DOMAIN pboard /\ pboard["file"] # Unreadable ->
         JSONWithDataPacket(pboard["file"], sender)
    [] "image" \in readables -> {JSONWithImagePacket(pboard["image"], sender)}
    [] readables = {"text"} -> {JSONWithTextPacket(pboard["text"], sender)}
    [] OTHER -> {}

plaster(pboard, out, sender) ==
  LET readables == {c \in {"image", "text"} \cap DOMAIN pboard : out[c]} IN
  IF out["file"] /\ "file" \in DOMAIN pboard
  THEN IF pboard["file"] = Unreadable THEN {} ELSE JSONWithDataPacket(pboard["file"], sender)
  ELSE CASE "image" \in readables -> {JSONWithImagePacket(pboard["image"], sender)}
         [] readables = {"text"} -> {JSONWithTextPacket(pboard["text"], sender)}
         [] readables = {} -> {}

-----------------------------------------------------------------------------
(***************************************************************************)
(* handlePlasterInWithData: what the receiver has afterwards.  Placed in   *)
(* is "pasteboard", the folder of the profile, or nowhere; name is that of *)
(* the file that is written, none when the content itself is pasted.  A    *)
(* notification brings the file that was fetched for it, which in          *)
(* pasteboard mode is stored in the temporary folder for the pasteboard to *)
(* refer to.                                                               *)
(***************************************************************************)
Nothing == [at |-> "nowhere"]

Placed(at, kind, name, content) == [at |-> at, kind |-> kind, name |-> name, content |-> content]

\* A name of a second and a sender.
plasterFileName(date, sender, extension) == <<date, "_", sender, extension>>

\* Whether a packet comes out of it: the type "plaster-file" is not sent on a channel.
Allowed(type, in) ==
  \/ type = TSPlasterTypeText /\ in["text"]
  \/ type = TSPlasterTypeImage /\ in["image"]
  \/ type = TSPlasterTypeNotification /\ in["file"]

\* Operating in pasteboard mode.  fetched is the file a notification refers to.
InPasteboard(payload, fetched) ==
  IF payload.type = TSPlasterTypeNotification
  THEN Placed("pasteboard", "file", fetched.name, fetched.content)
  ELSE Placed("pasteboard", payload.key, <<>>, payload.content)

\* Operating in file mode.
InFolder(payload, fetched, date) ==
  CASE payload.type = TSPlasterTypeNotification ->
         Placed("folder", "file", fetched.name, fetched.content)
    [] payload.type = TSPlasterTypeText ->
         Placed("folder", "text", plasterFileName(date, payload.sender, ".txt"), payload.content)
    [] payload.type = TSPlasterTypeImage ->
         Placed("folder", "image", plasterFileName(date, payload.sender, ".tiff"), payload.content)

handlePlasterInWithData(json, fetched, in, mode, date) ==
  LET payload == dictionaryFromJSON(json) IN
  CASE ~Allowed(payload.type, in) -> Nothing
    [] Allowed(payload.type, in) /\ mode = "pasteboard" -> InPasteboard(payload, fetched)
    [] Allowed(payload.type, in) /\ mode = "file" -> InFolder(payload, fetched, date)

(***************************************************************************)
(* The iOS client has the same packets and knows no files, neither to copy *)
(* nor to save to: in file mode it drops what it receives.                 *)
(***************************************************************************)

TSLplaster(pboard, out, sender) ==
  LET packets == {c \in {"image", "text"} \cap DOMAIN pboard : out[c]} IN
  CASE "image" \in packets -> {JSONWithImagePacket(pboard["image"], sender)}
    [] packets = {"text"} -> {JSONWithTextPacket(pboard["text"], sender)}
    [] packets = {} -> {}

TSLhandlePlasterInWithData(json, in, mode) ==
  LET payload == dictionaryFromJSON(json) IN
  IF /\ payload.type # TSPlasterTypeNotification
     /\ Allowed(payload.type, in)
     /\ mode = "pasteboard"
  THEN Placed("pasteboard", payload.key, <<>>, payload.content)
  ELSE Nothing

\* What the handler of a client in test mode, subscribed to itself, appends to its log.
testHandlePlasterInWithData(json) ==
  IF json.type = TSPlasterTypeText THEN dictionaryFromJSON(json).content ELSE <<>>

-----------------------------------------------------------------------------
(***************************************************************************)
(* From one device to another, each a "mac" or a "phone".                  *)
(***************************************************************************)
Kinds == {"file", "image", "text"}

Copied(device, pboard, out, sender) ==
  IF device = "mac" THEN plaster(pboard, out, sender) ELSE TSLplaster(pboard, out, sender)

\* What a receiver has of a packet, of a file by way of its notification.
Outcome(device, json, name, in, mode, date) ==
  LET note == JSONWithNotificationPacket(name, json.sender)
      fetched == [name |-> dictionaryFromJSON(note).content,
                  content |-> dictionaryFromJSON(json).content]
      packet == IF json.type = TSPlasterTypeFile THEN note ELSE json
  IN  IF device = "mac" THEN handlePlasterInWithData(packet, fetched, in, mode, date)
      ELSE TSLhandlePlasterInWithData(packet, in, mode)

\* Of the kind that is sent there is a content that the sender's profile lets out, and
\* what a receiver gets, if its profile lets it in, is this content where it wants it.
Arrives(kind, from, to, pboard, out, in, mode, json, got) ==
  /\ kind = "file" <=> (from = "mac" /\ out["file"] /\ "file" \in DOMAIN pboard)
  /\ got = Nothing <=> (~in[kind] \/ (to = "phone" /\ "file" \in {kind, mode}))
  /\ got # Nothing =>
       /\ got.kind = kind
       /\ got.at = IF mode = "file" THEN "folder" ELSE "pasteboard"
       /\ got.content = pboard[kind] \/ (kind = "file" /\ pboard[kind] = <<>>)
       /\ kind = "text" => testHandlePlasterInWithData(json) = got.content

ArrivesWhole(from, to, pboard, out, in, mode, name, sender, date) ==
  \A json \in Copied(from, pboard, out, sender) :
    \E got \in {Outcome(to, json, name, in, mode, date)} :
    \E kind \in {k \in DOMAIN pboard : out[k]} :
      Arrives(kind, from, to, pboard, out, in, mode, json, got)

=============================================================================
