---------------------------- MODULE SerialReceive ----------------------------
(***************************************************************************)
(* The receive buffer of a serial device (serial.c), which interrupts fill *)
(* byte by byte or a circular DMA fills by itself, reporting through the   *)
(* two interrupts of the board's driver (drv_usart.c): one when the DMA    *)
(* reaches the end of the buffer, one when the line falls idle.            *)
(***************************************************************************)
EXTENDS Integers, Sequences

CONSTANTS Bytes, Bufsz, None

SerialReceiveAssumption == Bufsz \in Nat \ {0, 1} /\ None \notin Bytes

VARIABLES open_flag,                    \* "closed", or opened for "interrupts" or "dma"
          buffer,                       \* [0..Bufsz-1 -> Bytes \cup {None}]
          put_index, get_index, is_full,
          dma_index,                    \* where the DMA writes next
          last_index,                   \* up to where it has reported, in drv_usart.c
          complete_irq,                 \* the interrupt at the end of the buffer is pending
          in_isr,                       \* the one for the idle line runs, the counter not yet read
          unread,                       \* history: what was received and neither read nor discarded
          arriving,                     \* history: what the DMA wrote and has not reported
          miscounted                    \* history: the DMA wrapped in the idle line's interrupt

fifoVars == <<buffer, put_index, get_index, is_full>>
dmaVars == <<dma_index, last_index, complete_irq, in_isr>>
vars == <<open_flag, fifoVars, dmaVars, unread, arriving, miscounted>>

Init ==
  /\ open_flag = "closed"
  /\ buffer = [i \in 0..Bufsz-1 |-> None]
  /\ put_index = 0 /\ get_index = 0 /\ is_full = FALSE
  /\ dma_index = 0 /\ last_index = 0 /\ complete_irq = FALSE /\ in_isr = FALSE
  /\ unread = << >> /\ arriving = << >> /\ miscounted = FALSE

\* rt_serial_open
Open(flag) ==
  /\ open_flag = "closed"
  /\ open_flag' = flag
  /\ UNCHANGED <<fifoVars, dmaVars, unread, arriving, miscounted>>

Newest(q, n) == IF Len(q) <= n THEN q ELSE SubSeq(q, Len(q) - n + 1, Len(q))

\* _serial_fifo_calc_recved_len
RecvedLen ==
  IF put_index = get_index THEN IF is_full THEN Bufsz ELSE 0
  ELSE (put_index - get_index) % Bufsz

\* Mutant: the byte overwritten is not discarded.
ReceiveByte_KeepsOldest(b) ==
  /\ open_flag = "interrupts"
  /\ buffer' = [buffer EXCEPT ![put_index] = b]
  /\ put_index' = (put_index + 1) % Bufsz
  /\ is_full' = (is_full \/ put_index' = get_index)
  /\ unread' = Newest(Append(unread, b), Bufsz - 1)
  /\ UNCHANGED <<open_flag, get_index, dmaVars, arriving, miscounted>>

\* rt_hw_serial_isr, for each byte: it discards the oldest when the indices meet.
ReceiveByte(b) ==
  LET meets == (put_index + 1) % Bufsz = get_index
  IN  /\ open_flag = "interrupts"
      /\ buffer' = [buffer EXCEPT ![put_index] = b]
      /\ put_index' = (put_index + 1) % Bufsz
      /\ get_index' = IF meets THEN (get_index + 1) % Bufsz ELSE get_index
      /\ is_full' = (is_full \/ meets)
      /\ unread' = Newest(Append(unread, b), Bufsz - 1)
      /\ UNCHANGED <<open_flag, dmaVars, arriving, miscounted>>

\* _serial_int_rx, for each byte
ReadByte ==
  /\ open_flag = "interrupts"
  /\ get_index # put_index \/ is_full
  /\ get_index' = (get_index + 1) % Bufsz
  /\ is_full' = FALSE
  /\ unread' = Tail(unread)
  /\ UNCHANGED <<open_flag, buffer, put_index, dmaVars, arriving, miscounted>>

-----------------------------------------------------------------------------
(* The DMA writes a byte.  It may be ahead of its reports, but interrupts  *)
(* are served before it wraps a second time or has written a whole buffer. *)
DmaWrites(b) ==
  /\ open_flag = "dma" /\ ~miscounted
  /\ Len(arriving) < Bufsz
  /\ complete_irq => dma_index # Bufsz - 1
  /\ buffer' = [buffer EXCEPT ![dma_index] = b]
  /\ dma_index' = (dma_index + 1) % Bufsz
  /\ complete_irq' = (complete_irq \/ dma_index = Bufsz - 1)
  /\ arriving' = Append(arriving, b)
  /\ UNCHANGED <<open_flag, put_index, get_index, is_full, last_index, in_isr, unread, miscounted>>

\* Mutant: a buffer that was full and wraps counts as empty.
UpdatePutIndex_Forgets(len) ==
  LET passes == IF get_index <= put_index
                THEN put_index + len >= Bufsz /\ (put_index + len) % Bufsz >= get_index
                ELSE put_index + len >= get_index
      put == (put_index + len) % Bufsz
  IN  /\ put_index' = put
      /\ is_full' = passes
      /\ get_index' = IF passes THEN put ELSE get_index

(* rt_dma_recv_update_put_index.  It overtakes get_index when it wraps and *)
(* gets there, or when it was behind; a full buffer stays full.            *)
UpdatePutIndex(len) ==
  LET passes == IF get_index <= put_index
                THEN put_index + len >= Bufsz /\ (put_index + len) % Bufsz >= get_index
                ELSE put_index + len >= get_index
      full == is_full \/ passes
      put == (put_index + len) % Bufsz
  IN  /\ put_index' = put
      /\ is_full' = full
      /\ get_index' = IF full THEN put ELSE get_index

\* rt_hw_serial_isr with RT_SERIAL_EVENT_RX_DMADONE
DmaReported(len) ==
  /\ UpdatePutIndex(len)
  /\ unread' = Newest(unread \o SubSeq(arriving, 1, len), Bufsz)
  /\ arriving' = SubSeq(arriving, len + 1, Len(arriving))

\* HAL_UART_RxCpltCallback
RxCpltCallback ==
  /\ complete_irq /\ ~in_isr /\ ~miscounted
  /\ complete_irq' = FALSE
  /\ last_index' = 0
  /\ DmaReported(Bufsz - last_index)
  /\ UNCHANGED <<open_flag, buffer, dma_index, in_isr, miscounted>>

\* uart_isr for an idle line; of two pending interrupts that of the DMA is served first.
IdleBegins ==
  /\ open_flag = "dma" /\ ~complete_irq /\ ~in_isr
  /\ in_isr' = TRUE
  /\ UNCHANGED <<open_flag, fifoVars, dma_index, last_index, complete_irq, unread, arriving,
                 miscounted>>

\* It reads the counter of the DMA; if that has just begun anew the length is negative.
IdleReports ==
  /\ in_isr
  /\ in_isr' = FALSE
  /\ IF complete_irq
     THEN miscounted' = TRUE /\ UNCHANGED <<put_index, get_index, is_full, last_index, unread,
                                            arriving>>
     ELSE /\ last_index' = dma_index
          /\ DmaReported(dma_index - last_index)
          /\ UNCHANGED miscounted
  /\ UNCHANGED <<open_flag, buffer, dma_index, complete_irq>>

\* _serial_dma_rx
DmaRead(length) ==
  LET n == IF length < RecvedLen THEN length ELSE RecvedLen
  IN  /\ open_flag = "dma" /\ n > 0 /\ ~miscounted
      /\ get_index' = (get_index + n) % Bufsz
      /\ is_full' = FALSE
      /\ unread' = SubSeq(unread, n + 1, Len(unread))
      /\ UNCHANGED <<open_flag, buffer, put_index, dmaVars, arriving, miscounted>>

Next ==
  \/ \E b \in Bytes : ReceiveByte(b) \/ DmaWrites(b)
  \/ ReadByte
  \/ \E flag \in {"interrupts", "dma"} : Open(flag)
  \/ RxCpltCallback \/ IdleBegins \/ IdleReports
  \/ \E length \in 1..Bufsz : DmaRead(length)

Spec == Init /\ [][Next]_vars

-----------------------------------------------------------------------------
TypeOK ==
  /\ open_flag \in {"closed", "interrupts", "dma"}
  /\ buffer \in [0..Bufsz-1 -> Bytes \cup {None}]
  /\ {put_index, get_index, dma_index, last_index} \subseteq 0..Bufsz-1
  /\ {is_full, complete_irq, in_isr, miscounted} \subseteq BOOLEAN
  /\ {unread, arriving} \subseteq Seq(Bytes)
  /\ Len(unread) <= Bufsz /\ Len(arriving) <= Bufsz

(* The buffer holds the newest bytes received (one less than its size when *)
(* interrupts fill it) until they are read, in their order, but for the    *)
(* oldest that the DMA has overwritten before it reported so.  This ends   *)
(* when the DMA wraps in the interrupt for an idle line (serial.c:275-293, *)
(* :381-436, :475-493, :1163-1178, drv_usart.c:286-290, :845-851).         *)
KeepsNewest ==
  ~miscounted =>
    /\ RecvedLen = Len(unread)
    /\ \A i \in DOMAIN unread :
         buffer[(get_index + i - 1) % Bufsz] # unread[i] =>
           i + Bufsz <= Len(unread) + Len(arriving)
-----------------------------------------------------------------------------
(* The inductive invariant behind it.  put_index is behind what is unread, *)
(* and is_full tells full from empty where the indices meet.               *)
IndicesMeet ==
  /\ put_index = (get_index + Len(unread)) % Bufsz
  /\ Len(unread) = Bufsz <=> is_full /\ put_index = get_index
  /\ open_flag # "interrupts" /\ is_full => put_index = get_index
  /\ open_flag = "interrupts" => Len(unread) < Bufsz
  /\ open_flag = "closed" => unread = << >>

\* What arrives lies between what was reported last and where the DMA writes.
DmaAhead ==
  /\ open_flag # "dma" => arriving = << >> /\ ~complete_irq /\ ~in_isr
  /\ open_flag # "interrupts" =>
       /\ put_index = last_index
       /\ Len(arriving) = dma_index - last_index + IF complete_irq THEN Bufsz ELSE 0

\* Every byte is in its slot until the one that comes Bufsz bytes later is.
InSlots ==
  LET stream == unread \o arriving
  IN  \A i \in 1..Len(stream) :
        buffer[(get_index + i - 1) % Bufsz] # stream[i] => i + Bufsz <= Len(stream)

Inv ==
  /\ TypeOK
  /\ miscounted => open_flag = "dma" /\ complete_irq /\ ~in_isr
  /\ ~miscounted => IndicesMeet /\ DmaAhead /\ InSlots
=============================================================================
