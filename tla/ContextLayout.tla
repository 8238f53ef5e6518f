---------------------------- MODULE ContextLayout ----------------------------
(***************************************************************************)
(* The layout of the queue contexts that the driver keeps in the QDMA      *)
(* controller, per hardware generation, as the context access functions    *)
(* of libqdma/qdma_access build and take apart their words: the soft core  *)
(* of earlier releases (Soft), the present soft core (Eqdma), and the hard *)
(* blocks of Versal (Cpm4, Cpm5).                                          *)
(*                                                                         *)
(* A word is the set of the bits that are set in it, and an image the set  *)
(* of the bits of all its words, bit b of word w being 32 * w + b.  The    *)
(* value of a configuration field is the set of the bits set in the        *)
(* member of the C structure.  A table is a set of pieces: a piece carries *)
(* "width" bits of a field, from bit "from" of its value, to or from bit   *)
(* "at" of the image.  The tables of the write functions follow their      *)
(* FIELD_SET masks, those of the read functions their FIELD_GET masks,     *)
(* the index of the word they read and the type they convert it to.        *)
(***************************************************************************)
EXTENDS Integers, FiniteSets

\* A field that starts at its bit 0, or a part P of a field, in bits hi..lo.
P(field, from, hi, lo) ==
  [field |-> field, from |-> from, width |-> hi - lo + 1, at |-> lo]
F(field, hi, lo) == P(field, 0, hi, lo)

Word(w, pieces) == {[p EXCEPT !.at = 32 * w + p.at] : p \in pieces}

Fields(table) == {p.field : p \in table}
ValueBits(table, f) ==
  UNION {p.from..(p.from + p.width - 1) : p \in {q \in table : q.field = f}}

\* FIELD_SET of every field of a configuration, and FIELD_GET of every field
\* of an image.
Encode(table, conf) ==
  UNION {{p.at + b : b \in {x \in 0..(p.width - 1) : p.from + x \in conf[p.field]}}
           : p \in table}
Decode_Unshifted(table, image) ==
  [f \in Fields(table) |->
     UNION {{b : b \in {x \in 0..(p.width - 1) : p.at + x \in image}}
              : p \in {q \in table : q.field = f}}]
Decode(table, image) ==
  [f \in Fields(table) |->
     UNION {{p.from + b : b \in {x \in 0..(p.width - 1) : p.at + x \in image}}
              : p \in {q \in table : q.field = f}}]

-----------------------------------------------------------------------------
\* The soft core, eqdma_soft_access.c.

EqdmaSwWrite == UNION {
  Word(0, {F("pidx", 15, 0), F("irq_arm", 16, 16), F("fnc_id", 24, 17)}),
  Word(1, {F("qen", 0, 0), F("frcd_en", 1, 1), F("wbi_chk", 2, 2),
    F("wbi_intvl_en", 3, 3), F("at", 4, 4), F("fetch_max", 8, 5),
    F("rngsz_idx", 15, 12), F("desc_sz", 17, 16), F("bypass", 18, 18),
    F("mm_chn", 19, 19), F("wbk_en", 20, 20), F("irq_en", 21, 21),
    F("port_id", 24, 22), F("irq_no_last", 25, 25), F("err", 27, 26),
    F("err_wb_sent", 28, 28), F("irq_req", 29, 29), F("mrkr_dis", 30, 30),
    F("is_mm", 31, 31)}),
  Word(2, {F("ring_bs_addr", 31, 0)}),
  Word(3, {P("ring_bs_addr", 32, 31, 0)}),
  Word(4, {F("vec", 10, 0), F("intr_aggr", 11, 11), F("dis_intr_on_vf", 12, 12),
    F("virtio_en", 13, 13), F("pack_byp_out", 14, 14), F("irq_byp", 15, 15),
    F("host_id", 19, 16), F("pasid", 31, 20)}),
  Word(5, {P("pasid", 12, 9, 0), F("pasid_en", 10, 10), F("virtio_dsc_base", 31, 11)}),
  Word(6, {P("virtio_dsc_base", 21, 31, 0)}),
  Word(7, {P("virtio_dsc_base", 53, 10, 0)})}

EqdmaSwRead == UNION {
  Word(0, {F("pidx", 15, 0), F("irq_arm", 16, 16), F("fnc_id", 24, 17)}),
  Word(1, {F("qen", 0, 0), F("frcd_en", 1, 1), F("wbi_chk", 2, 2),
    F("wbi_intvl_en", 3, 3), F("at", 4, 4), F("fetch_max", 8, 5),
    F("rngsz_idx", 15, 12), F("desc_sz", 17, 16), F("bypass", 18, 18),
    F("mm_chn", 19, 19), F("wbk_en", 20, 20), F("irq_en", 21, 21),
    F("port_id", 24, 22), F("irq_no_last", 25, 25), F("err", 27, 26),
    F("err_wb_sent", 28, 28), F("irq_req", 29, 29), F("mrkr_dis", 30, 30),
    F("is_mm", 31, 31)}),
  Word(2, {F("ring_bs_addr", 31, 0)}),
  Word(3, {P("ring_bs_addr", 32, 31, 0)}),
  Word(4, {F("vec", 10, 0), F("intr_aggr", 11, 11), F("dis_intr_on_vf", 12, 12),
    F("virtio_en", 13, 13), F("pack_byp_out", 14, 14), F("irq_byp", 15, 15),
    F("host_id", 19, 16), F("pasid", 31, 20)}),
  Word(5, {P("pasid", 12, 9, 0), F("pasid_en", 10, 10), F("virtio_dsc_base", 31, 11)}),
  Word(6, {P("virtio_dsc_base", 21, 31, 0), P("virtio_dsc_base", 53, 10, 0)})}

EqdmaPfetchWrite == UNION {
  Word(0, {F("bypass", 0, 0), F("bufsz_idx", 4, 1), F("port_id", 7, 5),
    F("var_desc", 8, 8), F("num_pftch", 15, 10), F("err", 26, 26),
    F("pfch_en", 27, 27), F("pfch", 28, 28), F("sw_crdt", 31, 29)}),
  Word(1, {P("sw_crdt", 3, 12, 0), F("valid", 13, 13)})}

EqdmaPfetchRead == UNION {
  Word(0, {F("bypass", 0, 0), F("bufsz_idx", 4, 1), F("port_id", 7, 5),
    F("var_desc", 8, 8), F("num_pftch", 15, 10), F("err", 26, 26),
    F("pfch_en", 27, 27), F("pfch", 28, 28), F("sw_crdt", 31, 29)}),
  Word(1, {P("sw_crdt", 3, 12, 0), F("valid", 13, 13)})}

EqdmaCmptWrite == UNION {
  Word(0, {F("en_stat_desc", 0, 0), F("en_int", 1, 1), F("trig_mode", 4, 2),
    F("fnc_id", 12, 5), F("counter_idx", 20, 17), F("timer_idx", 24, 21),
    F("in_st", 26, 25), F("color", 27, 27), F("ringsz_idx", 31, 28)}),
  Word(1, {P("bs_addr", 6, 31, 0)}),
  Word(2, {P("bs_addr", 38, 25, 0), F("desc_sz", 27, 26), F("pidx", 31, 28)}),
  Word(3, {P("pidx", 4, 11, 0), F("cidx", 27, 12), F("valid", 28, 28),
    F("err", 30, 29), F("user_trig_pend", 31, 31)}),
  Word(4, {F("timer_running", 0, 0), F("full_upd", 1, 1), F("ovf_chk_dis", 2, 2),
    F("at", 3, 3), F("vec", 14, 4), F("int_aggr", 15, 15),
    F("dis_intr_on_vf", 16, 16), F("vio", 17, 17), F("dir_c2h", 18, 18),
    F("host_id", 22, 19), F("pasid", 31, 23)}),
  Word(5, {P("pasid", 9, 12, 0), F("pasid_en", 13, 13), P("bs_addr", 2, 17, 14),
    F("vio_eop", 18, 18), F("sh_cmpt", 19, 19)})}

EqdmaCmptRead == UNION {
  Word(0, {F("en_stat_desc", 0, 0), F("en_int", 1, 1), F("trig_mode", 4, 2),
    F("fnc_id", 12, 5), F("counter_idx", 20, 17), F("timer_idx", 24, 21),
    F("in_st", 26, 25), F("color", 27, 27), F("ringsz_idx", 31, 28)}),
  Word(1, {P("bs_addr", 6, 31, 0)}),
  Word(2, {P("bs_addr", 38, 25, 0), F("desc_sz", 27, 26), F("pidx", 31, 28)}),
  Word(3, {P("pidx", 4, 11, 0), F("cidx", 27, 12), F("valid", 28, 28),
    F("err", 30, 29), F("user_trig_pend", 31, 31)}),
  Word(4, {F("timer_running", 0, 0), F("full_upd", 1, 1), F("ovf_chk_dis", 2, 2),
    F("at", 3, 3), F("vec", 14, 4), F("int_aggr", 15, 15),
    F("dis_intr_on_vf", 16, 16), F("vio", 17, 17), F("dir_c2h", 18, 18),
    F("host_id", 22, 19), F("pasid", 31, 23)}),
  Word(5, {P("pasid", 9, 12, 0), F("pasid_en", 13, 13), P("bs_addr", 2, 17, 14),
    F("vio_eop", 18, 18), F("sh_cmpt", 19, 19)})}

EqdmaIntrWrite == UNION {
  Word(0, {F("valid", 0, 0), F("vec", 11, 1), F("int_st", 13, 13), F("color", 14, 14),
    P("baddr_4k", 12, 31, 15)}),
  Word(1, {P("baddr_4k", 29, 31, 0)}),
  Word(2, {P("baddr_4k", 61, 2, 0), F("page_size", 5, 3), F("pidx", 17, 6),
    F("at", 18, 18), F("host_id", 22, 19), F("pasid", 31, 23)}),
  Word(3, {P("pasid", 9, 12, 0), F("pasid_en", 13, 13), F("func_id", 29, 18)})}

EqdmaIntrRead == UNION {
  Word(0, {F("valid", 0, 0), F("vec", 11, 1), F("int_st", 13, 13), F("color", 14, 14),
    P("baddr_4k", 12, 31, 15)}),
  Word(1, {P("baddr_4k", 29, 31, 0)}),
  Word(2, {P("baddr_4k", 61, 2, 0), F("page_size", 5, 3), F("pidx", 17, 6),
    F("at", 18, 18), F("host_id", 22, 19), F("pasid", 30, 23)}),
  Word(3, {P("pasid", 9, 12, 0), F("pasid_en", 13, 13), F("func_id", 29, 18)})}

EqdmaFmapWrite == UNION {
  Word(0, {F("qbase", 10, 0)}),
  Word(1, {F("qmax", 11, 0)})}

EqdmaFmapRead == UNION {
  Word(0, {F("qbase", 10, 0)}),
  Word(1, {F("qmax", 11, 0)})}

-----------------------------------------------------------------------------
\* The hard block of CPM5: eqdma_cpm5_access.c has masks and words of its own
\* that come to the same layout.

Cpm5SwWrite == EqdmaSwWrite
Cpm5SwRead == EqdmaSwRead
Cpm5PfetchWrite == EqdmaPfetchWrite
Cpm5PfetchRead == EqdmaPfetchRead
Cpm5CmptWrite == EqdmaCmptWrite
Cpm5CmptRead == EqdmaCmptRead
Cpm5IntrWrite == EqdmaIntrWrite
Cpm5IntrRead == EqdmaIntrRead
Cpm5FmapWrite == EqdmaFmapWrite
Cpm5FmapRead == EqdmaFmapRead

-----------------------------------------------------------------------------
\* The soft core of earlier releases, qdma_soft_access.c.

SoftSwWrite == UNION {
  Word(0, {F("pidx", 15, 0), F("irq_arm", 16, 16), F("fnc_id", 24, 17)}),
  Word(1, {F("qen", 0, 0), F("frcd_en", 1, 1), F("wbi_chk", 2, 2),
    F("wbi_intvl_en", 3, 3), F("at", 4, 4), F("fetch_max", 7, 5),
    F("rngsz_idx", 15, 12), F("desc_sz", 17, 16), F("bypass", 18, 18),
    F("mm_chn", 19, 19), F("wbk_en", 20, 20), F("irq_en", 21, 21),
    F("port_id", 24, 22), F("irq_no_last", 25, 25), F("err", 27, 26),
    F("err_wb_sent", 28, 28), F("irq_req", 29, 29), F("mrkr_dis", 30, 30),
    F("is_mm", 31, 31)}),
  Word(2, {F("ring_bs_addr", 31, 0)}),
  Word(3, {P("ring_bs_addr", 32, 31, 0)}),
  Word(4, {F("vec", 10, 0), F("intr_aggr", 11, 11)})}

SoftSwRead == UNION {
  Word(0, {F("pidx", 15, 0), F("irq_arm", 16, 16), F("fnc_id", 24, 17)}),
  Word(1, {F("qen", 0, 0), F("frcd_en", 1, 1), F("wbi_chk", 2, 2),
    F("wbi_intvl_en", 3, 3), F("at", 4, 4), F("fetch_max", 7, 5),
    F("rngsz_idx", 15, 12), F("desc_sz", 17, 16), F("bypass", 18, 18),
    F("mm_chn", 19, 19), F("wbk_en", 20, 20), F("irq_en", 21, 21),
    F("port_id", 24, 22), F("irq_no_last", 25, 25), F("err", 27, 26),
    F("err_wb_sent", 28, 28), F("irq_req", 29, 29), F("mrkr_dis", 30, 30),
    F("is_mm", 31, 31)}),
  Word(2, {F("ring_bs_addr", 31, 0)}),
  Word(3, {P("ring_bs_addr", 32, 31, 0)}),
  Word(4, {F("vec", 10, 0), F("intr_aggr", 11, 11)})}

SoftPfetchWrite == UNION {
  Word(0, {F("bypass", 0, 0), F("bufsz_idx", 4, 1), F("port_id", 7, 5),
    F("err", 26, 26), F("pfch_en", 27, 27), F("pfch", 28, 28),
    F("sw_crdt", 31, 29)}),
  Word(1, {P("sw_crdt", 3, 12, 0), F("valid", 13, 13)})}

SoftPfetchRead == UNION {
  Word(0, {F("bypass", 0, 0), F("bufsz_idx", 4, 1), F("port_id", 7, 5),
    F("err", 26, 26), F("pfch_en", 27, 27), F("pfch", 28, 28),
    F("sw_crdt", 31, 29)}),
  Word(1, {P("sw_crdt", 3, 12, 0), F("valid", 13, 13)})}

SoftCmptWrite == UNION {
  Word(0, {F("en_stat_desc", 0, 0), F("en_int", 1, 1), F("trig_mode", 4, 2),
    F("fnc_id", 12, 5), F("counter_idx", 20, 17), F("timer_idx", 24, 21),
    F("in_st", 26, 25), F("color", 27, 27), F("ringsz_idx", 31, 28)}),
  Word(1, {P("bs_addr", 12, 31, 6)}),
  Word(2, {P("bs_addr", 38, 25, 0), F("desc_sz", 27, 26), F("pidx", 31, 28)}),
  Word(3, {P("pidx", 4, 11, 0), F("cidx", 27, 12), F("valid", 28, 28),
    F("err", 30, 29), F("user_trig_pend", 31, 31)}),
  Word(4, {F("timer_running", 0, 0), F("full_upd", 1, 1), F("ovf_chk_dis", 2, 2),
    F("at", 3, 3), F("vec", 14, 4), F("int_aggr", 15, 15)})}

SoftCmptRead == UNION {
  Word(0, {F("en_stat_desc", 0, 0), F("en_int", 1, 1), F("trig_mode", 4, 2),
    F("fnc_id", 12, 5), F("counter_idx", 20, 17), F("timer_idx", 24, 21),
    F("in_st", 26, 25), F("color", 27, 27), F("ringsz_idx", 31, 28)}),
  Word(1, {P("bs_addr", 12, 31, 6)}),
  Word(2, {P("bs_addr", 38, 25, 0), F("desc_sz", 27, 26), F("pidx", 31, 28)}),
  Word(3, {P("pidx", 4, 11, 0), F("cidx", 27, 12), F("valid", 28, 28),
    F("err", 30, 29), F("user_trig_pend", 31, 31)}),
  Word(4, {F("timer_running", 0, 0), F("full_upd", 1, 1), F("ovf_chk_dis", 2, 2),
    F("at", 3, 3), F("vec", 14, 4), F("int_aggr", 15, 15)})}

SoftIntrWrite == UNION {
  Word(0, {F("valid", 0, 0), F("vec", 11, 1), F("int_st", 13, 13), F("color", 14, 14),
    P("baddr_4k", 12, 31, 15)}),
  Word(1, {P("baddr_4k", 29, 31, 0)}),
  Word(2, {P("baddr_4k", 61, 2, 0), F("page_size", 5, 3), F("pidx", 17, 6),
    F("at", 18, 18)})}

SoftIntrRead == UNION {
  Word(0, {F("valid", 0, 0), F("vec", 11, 1), F("int_st", 13, 13), F("color", 14, 14),
    P("baddr_4k", 12, 31, 15)}),
  Word(1, {P("baddr_4k", 29, 31, 0)}),
  Word(2, {P("baddr_4k", 61, 2, 0), F("page_size", 5, 3), F("pidx", 17, 6),
    F("at", 18, 18)})}

SoftFmapWrite == UNION {
  Word(0, {F("qbase", 10, 0)}),
  Word(1, {F("qmax", 11, 0)})}

SoftFmapRead == UNION {
  Word(0, {F("qbase", 10, 0)}),
  Word(1, {F("qmax", 11, 0)})}

-----------------------------------------------------------------------------
\* The hard block of CPM4, qdma_cpm4_access.c.  The vector of a queue is not
\* in its software context but in the word of Qid2vec below.

Cpm4SwWrite == UNION {
  Word(0, {F("pidx", 15, 0), F("irq_arm", 16, 16)}),
  Word(1, {F("qen", 0, 0), F("frcd_en", 1, 1), F("wbi_chk", 2, 2),
    F("wbi_intvl_en", 3, 3), F("fnc_id", 11, 4), F("rngsz_idx", 15, 12),
    F("desc_sz", 17, 16), F("bypass", 18, 18), F("mm_chn", 19, 19),
    F("wbk_en", 20, 20), F("irq_en", 21, 21), F("port_id", 24, 22),
    F("irq_no_last", 25, 25), F("err", 27, 26), F("err_wb_sent", 28, 28),
    F("irq_req", 29, 29), F("mrkr_dis", 30, 30), F("is_mm", 31, 31)}),
  Word(2, {F("ring_bs_addr", 31, 0)}),
  Word(3, {P("ring_bs_addr", 32, 31, 0)})}

Cpm4SwRead == UNION {
  Word(0, {F("pidx", 15, 0), F("irq_arm", 16, 16)}),
  Word(1, {F("qen", 0, 0), F("frcd_en", 1, 1), F("wbi_chk", 2, 2),
    F("wbi_intvl_en", 3, 3), F("fnc_id", 11, 4), F("rngsz_idx", 15, 12),
    F("desc_sz", 17, 16), F("bypass", 18, 18), F("mm_chn", 19, 19),
    F("wbk_en", 20, 20), F("irq_en", 21, 21), F("port_id", 24, 22),
    F("irq_no_last", 25, 25), F("err", 27, 26), F("err_wb_sent", 28, 28),
    F("irq_req", 29, 29), F("mrkr_dis", 30, 30), F("is_mm", 31, 31)}),
  Word(2, {F("ring_bs_addr", 31, 0)}),
  Word(3, {P("ring_bs_addr", 32, 31, 0)})}

Cpm4PfetchWrite == SoftPfetchWrite
Cpm4PfetchRead == SoftPfetchRead
Cpm4CmptWrite == UNION {
  Word(0, {F("en_stat_desc", 0, 0), F("en_int", 1, 1), F("trig_mode", 4, 2),
    F("fnc_id", 12, 5), F("counter_idx", 16, 13), F("timer_idx", 20, 17),
    F("in_st", 22, 21), F("color", 23, 23), F("ringsz_idx", 27, 24),
    P("bs_addr", 6, 31, 28)}),
  Word(1, {P("bs_addr", 10, 31, 0)}),
  Word(2, {P("bs_addr", 42, 21, 0), F("desc_sz", 23, 22), F("pidx", 31, 24)}),
  Word(3, {P("pidx", 8, 7, 0), F("cidx", 23, 8), F("valid", 24, 24), F("err", 26, 25),
    F("user_trig_pend", 27, 27), F("timer_running", 28, 28),
    F("full_upd", 29, 29)})}

Cpm4CmptRead == UNION {
  Word(0, {F("en_stat_desc", 0, 0), F("en_int", 1, 1), F("trig_mode", 4, 2),
    F("fnc_id", 12, 5), F("counter_idx", 16, 13), F("timer_idx", 20, 17),
    F("in_st", 22, 21), F("color", 23, 23), F("ringsz_idx", 27, 24),
    P("bs_addr", 6, 31, 28)}),
  Word(1, {P("bs_addr", 10, 31, 0)}),
  Word(2, {P("bs_addr", 42, 21, 0), F("desc_sz", 23, 22), F("pidx", 31, 24)}),
  Word(3, {P("pidx", 8, 7, 0), F("cidx", 23, 8), F("valid", 24, 24), F("err", 26, 25),
    F("user_trig_pend", 27, 27), F("timer_running", 28, 28),
    F("full_upd", 29, 29)})}

Cpm4IntrWrite == UNION {
  Word(0, {F("valid", 0, 0), F("vec", 5, 1), F("int_st", 7, 7), F("color", 8, 8),
    P("baddr_4k", 12, 31, 9)}),
  Word(1, {P("baddr_4k", 35, 28, 0), F("page_size", 31, 29)}),
  Word(2, {F("pidx", 11, 0)})}

Cpm4IntrRead == UNION {
  Word(0, {F("valid", 0, 0), F("vec", 5, 1), F("int_st", 7, 7), F("color", 8, 8),
    P("baddr_4k", 12, 31, 9)}),
  Word(1, {P("baddr_4k", 35, 28, 0), F("page_size", 31, 29)}),
  Word(2, {F("pidx", 11, 0)})}

\* One word for both directions of a queue index: vector and coalescing bit.
Qid2vecBits == [H2C |-> 9..17, C2H |-> 0..8]

-----------------------------------------------------------------------------
\* The tables of each generation, by context.
WriteTable ==
  [eqdma |-> [sw |-> EqdmaSwWrite, pfetch |-> EqdmaPfetchWrite, cmpt |-> EqdmaCmptWrite,
              intr |-> EqdmaIntrWrite, fmap |-> EqdmaFmapWrite],
   cpm5  |-> [sw |-> Cpm5SwWrite, pfetch |-> Cpm5PfetchWrite, cmpt |-> Cpm5CmptWrite,
              intr |-> Cpm5IntrWrite, fmap |-> Cpm5FmapWrite],
   soft  |-> [sw |-> SoftSwWrite, pfetch |-> SoftPfetchWrite, cmpt |-> SoftCmptWrite,
              intr |-> SoftIntrWrite, fmap |-> SoftFmapWrite],
   cpm4  |-> [sw |-> Cpm4SwWrite, pfetch |-> Cpm4PfetchWrite, cmpt |-> Cpm4CmptWrite,
              intr |-> Cpm4IntrWrite]]
ReadTable ==
  [eqdma |-> [sw |-> EqdmaSwRead, pfetch |-> EqdmaPfetchRead, cmpt |-> EqdmaCmptRead,
              intr |-> EqdmaIntrRead, fmap |-> EqdmaFmapRead],
   cpm5  |-> [sw |-> Cpm5SwRead, pfetch |-> Cpm5PfetchRead, cmpt |-> Cpm5CmptRead,
              intr |-> Cpm5IntrRead, fmap |-> Cpm5FmapRead],
   soft  |-> [sw |-> SoftSwRead, pfetch |-> SoftPfetchRead, cmpt |-> SoftCmptRead,
              intr |-> SoftIntrRead, fmap |-> SoftFmapRead],
   cpm4  |-> [sw |-> Cpm4SwRead, pfetch |-> Cpm4PfetchRead, cmpt |-> Cpm4CmptRead,
              intr |-> Cpm4IntrRead]]
=============================================================================
