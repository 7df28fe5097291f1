---------------------------- MODULE EnvelopeWire ----------------------------
(***************************************************************************)
(* Envelopes as bytes.  A JSON document is one byte here (serde_json       *)
(* writes no newline into it), NL is the newline, and the other bytes are  *)
(* those of attachments, which may hold newlines and documents too.  Items *)
(* are records with a type; an attachment has its buffer, a container the  *)
(* number of its logs or metrics.                                          *)
(***************************************************************************)
EXTENDS Text

NL == [b |-> "newline"]
Json(doc) == [b |-> "json", doc |-> doc]

Containers == {"log", "trace_metric"}

\* Envelope::add_item: the first event or transaction gives the envelope its id.
AddItem(envelope, item) ==
  [headers |-> IF envelope.headers.event_id = None /\ item.type \in {"event", "transaction"}
               THEN [envelope.headers EXCEPT !.event_id = item.id] ELSE envelope.headers,
   items |-> Append(envelope.items, item)]

NewEnvelope == [headers |-> [event_id |-> None, trace |-> None], items |-> <<>>]

\* Envelope::filter, of items none of which is limited: the envelope is built anew,
\* without its other headers; attachments stay only with the id of an event or
\* transaction, and an envelope of nothing else is given up.
FilterEnvelope(envelope) ==
  LET rebuilt == FoldLeft(AddItem, NewEnvelope, envelope.items)
      items   == IF rebuilt.headers.event_id = None
                 THEN SelectSeq(rebuilt.items, LAMBDA item : item.type # "attachment") ELSE rebuilt.items
  IN  IF items = <<>> THEN None ELSE [rebuilt EXCEPT !.items = items]

\* Mutant: attachments are written without their length.
AttachmentToWriter_NoLength(item) ==
  << Json([type |-> "attachment", length |-> None, filename |-> item.filename,
           attachment_type |-> IF item.ty = None THEN "event.attachment" ELSE item.ty,
           content_type |-> IF item.content_type = None THEN "octet-stream" ELSE item.content_type]),
     NL >> \o item.buffer

\* Attachment::to_writer.
AttachmentToWriter(item) ==
  << Json([type |-> "attachment", length |-> Len(item.buffer), filename |-> item.filename,
           attachment_type |-> IF item.ty = None THEN "event.attachment" ELSE item.ty,
           content_type |-> IF item.content_type = None THEN "octet-stream" ELSE item.content_type]),
     NL >> \o item.buffer

\* The header of any other item: a container has no length.
ItemHeader(item) ==
  [type |-> item.type, length |-> IF item.type \in Containers THEN None ELSE 1,
   filename |-> None, attachment_type |-> None,
   content_type |-> IF item.type \in Containers THEN item.type ELSE None]

ItemToWriter(item) ==
  IF item.type = "attachment" THEN AttachmentToWriter(item) \o <<NL>>
  ELSE <<Json(ItemHeader(item)), NL, Json(item), NL>>

\* Envelope::to_writer.
ToWriter(envelope) ==
  <<Json(envelope.headers), NL>>
    \o FlattenSeq([i \in DOMAIN envelope.items |-> ItemToWriter(envelope.items[i])])
-----------------------------------------------------------------------------
Failed(error) == [error |-> error, item |-> None, rest |-> <<>>]

\* Envelope::require_termination, of the byte after n.
Terminated(bytes, n) == n >= Len(bytes) \/ bytes[n + 1] = NL

\* Where the payload that starts after byte `start` ends.
PayloadEnd(bytes, start, length) ==
  IF length # None THEN start + length
  ELSE LET i == SelectInSeq(SubSeq(bytes, start + 1, Len(bytes)), LAMBDA x : x = NL)
       IN  IF i = 0 THEN Len(bytes) ELSE start + i - 1

\* The item of a payload; an attachment's header says all but its buffer.
ItemOf(header, payload) ==
  IF header.type = "attachment"
  THEN [type |-> "attachment", buffer |-> payload, filename |-> header.filename,
        content_type |-> header.content_type, ty |-> header.attachment_type]
  ELSE payload[1].doc

IsHeader(byte) == byte.b = "json" /\ "length" \in DOMAIN byte.doc

\* Envelope::parse_item: white space in front of a header is skipped.
ParseItem(bytes) ==
  LET head == SelectInSeq(bytes, LAMBDA x : x # NL) IN
  IF head = 0 THEN Failed("UnexpectedEof")
  ELSE IF ~IsHeader(bytes[head]) THEN Failed("InvalidItemHeader")
  ELSE IF ~Terminated(bytes, head) THEN Failed("MissingNewline")
  ELSE LET header  == bytes[head].doc
           start   == Min({head + 1, Len(bytes)})
           end     == PayloadEnd(bytes, start, header.length)
           payload == SubSeq(bytes, start + 1, end)
       IN  IF end > Len(bytes) THEN Failed("UnexpectedEof")
           ELSE IF ~Terminated(bytes, end) THEN Failed("MissingNewline")
           ELSE IF header.type # "attachment" /\ ~(Len(payload) = 1 /\ payload[1].b = "json")
           THEN Failed("InvalidItemPayload")
           ELSE [error |-> None, item |-> ItemOf(header, payload), rest |-> SubSeq(bytes, end + 2, Len(bytes))]

\* One round of the loop of parse_items, which ends after the last byte or an error.
ParseNext(reader) ==
  IF reader.error # None \/ reader.rest = <<>> THEN reader
  ELSE LET next == ParseItem(reader.rest) IN
       IF next.error # None THEN [reader EXCEPT !.error = next.error, !.envelope = None]
       ELSE [reader EXCEPT !.rest = next.rest, !.envelope = AddItem(@, next.item)]

\* Envelope::parse_items; there are no more rounds than bytes.
ParseItems(bytes, envelope) ==
  LET last == FoldLeft(LAMBDA reader, byte : ParseNext(reader),
                       [error |-> None, rest |-> bytes, envelope |-> envelope], bytes)
  IN  [error |-> last.error, envelope |-> last.envelope]

\* Envelope::from_slice, with parse_headers.
FromSlice(bytes) ==
  LET line == Head(Split(bytes, NL)) IN
  IF ~(Len(line) = 1 /\ line[1].b = "json" /\ "event_id" \in DOMAIN line[1].doc)
  THEN [error |-> "InvalidHeader", envelope |-> None]
  ELSE ParseItems(SubSeq(bytes, 3, Len(bytes)), [headers |-> line[1].doc, items |-> <<>>])
-----------------------------------------------------------------------------
\* What a reader of the wire finds of an item: the defaults of an attachment
\* have been written out.
OnWire(item) ==
  IF item.type = "attachment"
  THEN [item EXCEPT !.ty = IF @ = None THEN "event.attachment" ELSE @,
                    !.content_type = IF @ = None THEN "octet-stream" ELSE @]
  ELSE item

\* Bytes cut after byte n; with torn, the last one, if a document, is cut
\* in the middle of its text.
Cut(bytes, n, torn) ==
  LET kept == SubSeq(bytes, 1, n) IN
  IF torn /\ n > 0 /\ bytes[n].b = "json" THEN [kept EXCEPT ![n] = [b |-> "torn"]] ELSE kept
=============================================================================
