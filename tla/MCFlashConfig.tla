----------------------------- MODULE MCFlashConfig -----------------------------
(* Values of FlashConfig's constants for TLC: the battery thresholds. *)
EXTENDS FlashConfig

(* g_lowThresh and g_highThresh are uint32_t set from a uint16_t packet. *)
MCValues == {<<970, 0>>, <<1200, 0>>, <<1000, 0>>}
MCDefault == <<<<970, 0>>, <<1200, 0>>>>
===============================================================================
