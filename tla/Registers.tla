------------------------------ MODULE Registers ------------------------------
(***************************************************************************)
(* The devices as the structures of regstruct.h and irq.h lay them over    *)
(* the addresses of gpio.h.  A structure is the sequence of its fields,    *)
(* each with its number of words.                                          *)
(***************************************************************************)
EXTENDS PageTables, Sequences

QA7Registers ==
  << <<"control_register", 1>>, <<"unused0", 1>>, <<"core_timer_prescaler", 1>>, <<"gpu_interrupts_routing", 1>>,
     <<"perf_monitor_interrupts_routing_set", 1>>, <<"perf_monitor_interrupts_routing_clear", 1>>, <<"unused1", 1>>,
     <<"core_timer_access_ls", 1>>, <<"core_timer_access_ms", 1>>, <<"local_interrupt_0_routing", 1>>,
     <<"local_interrupts_5_18_routing", 1>>, <<"axi_outstanding_counters", 1>>, <<"axi_outstanding_irq", 1>>,
     <<"local_timer_ctrl_and_status", 1>>, <<"local_timer_write_flags", 1>>, <<"unused2", 1>>,
     <<"core_timer_interrupt_control", 4>>, <<"core_mailbox_interrupt_control", 4>>, <<"core_irq_source", 4>>,
     <<"core_fiq_source", 4>>, <<"core_mailbox_write_set", 16>>, <<"core_mailbox_read_write_to_clear", 16>> >>

VideoCoreMailbox ==
  << <<"mbox_read", 1>>, <<"reserved", 4>>, <<"mbox_poll", 1>>, <<"mbox_sender", 1>>, <<"mbox_status", 1>>,
     <<"mbox_config", 1>>, <<"mbox_write", 1>> >>

LocalTimer ==
  << <<"routing", 1>>, <<"res0", 3>>, <<"control_status", 1>>, <<"set_clear_reload", 1>>, <<"res1", 1>>,
     <<"timer_control_core0", 1>>, <<"timer_control_core1", 1>>, <<"timer_control_core2", 1>>, <<"timer_control_core3", 1>> >>

SysTimerRegs ==
  << <<"timer_cs", 1>>, <<"timer_clo", 1>>, <<"timer_chi", 1>>, <<"timer_c0", 1>>, <<"timer_c1", 1>>, <<"timer_c2", 1>>,
     <<"timer_c3", 1>> >>

AuxRegs ==
  << <<"irq_status", 1>>, <<"enables", 1>>, <<"reserved", 14>>, <<"mu_io", 1>>, <<"mu_ier", 1>>, <<"mu_iir", 1>>,
     <<"mu_lcr", 1>>, <<"mu_mcr", 1>>, <<"mu_lsr", 1>>, <<"mu_msr", 1>>, <<"mu_scratch", 1>>, <<"mu_control", 1>>,
     <<"mu_status", 1>>, <<"mu_baud_rate", 1>> >>

\* Ten pairs of registers for the pins, each behind a reserved word.
GpioRegs ==
  << <<"func_select", 6>>, <<"output_set", 3>>, <<"output_clear", 3>>, <<"level", 3>>, <<"ev_detect_status", 3>>,
     <<"re_detect_enable", 3>>, <<"fe_detect_enable", 3>>, <<"hi_detect_enable", 3>>, <<"lo_detect_enable", 3>>,
     <<"async_re_detect", 3>>, <<"async_fe_detect", 3>>, <<"reserved", 1>>, <<"pupd_enable", 1>>, <<"pupd_enable_clocks", 2>> >>

irq_regs ==
  << <<"irq0_pending_0", 1>>, <<"irq0_pending_1", 1>>, <<"irq0_pending_2", 1>>, <<"fiq_control", 1>>, <<"irq0_enable_1", 1>>,
     <<"irq0_enable_2", 1>>, <<"irq0_enable_0", 1>>, <<"irq0_disable_1", 1>>, <<"irq0_disable_2", 1>>, <<"irq0_disable_0", 1>> >>

Addr == [QA7 |-> 1073741824, LOCAL_TIMER |-> 1073741860, SYS_TIMER |-> PBASE + 12288, AUX |-> PBASE + 2183168,
         GPIO |-> PBASE + 2097152, MAILBOX |-> PBASE + 47232, IRQ |-> PBASE + 45568]
Device == DOMAIN Addr

Layout == [QA7 |-> QA7Registers, LOCAL_TIMER |-> LocalTimer, SYS_TIMER |-> SysTimerRegs, AUX |-> AuxRegs,
           GPIO |-> GpioRegs, MAILBOX |-> VideoCoreMailbox, IRQ |-> irq_regs]

\* The words before field k of a structure; a reg32 has four bytes.
Offset(s, k) == LET words[n \in DOMAIN s] == IF n = 1 THEN 0 ELSE words[n - 1] + s[n - 1][2] IN words[k]
RegAddr(d, k) == Addr[d] + 4 * Offset(Layout[d], k)
=============================================================================
