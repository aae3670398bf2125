-------------------------------- MODULE Gpio --------------------------------
(***************************************************************************)
(* gpio.c and the two initialisations of mini_uart.c.  func_select is an   *)
(* array of words with ten 3-bit fields; the operators give the words after*)
(* the call.                                                               *)
(***************************************************************************)
EXTENDS Integers, Sequences

CONSTANTS FuncSelect  \* the values func_select may have at reset

ASSUME FuncSelectAssumption == FuncSelect \subseteq Nat

Pin == 0 .. 53
TXD == 14
RXD == 15
GFAlt5 == 2

Field(word, start) == (word \div 2^start) % 8
WithField(word, start, func) == word - Field(word, start) * 2^start + func * 2^start

\* Faulty: the word is written without clearing the old function.
SetFuncKeepsOld(sel, pin, func) ==
  LET start == (pin * 3) % 30
      old == Field(sel[pin \div 10], start)
      both == CHOOSE v \in 0 .. 7 : \A b \in {1, 2, 4} : (v \div b) % 2 = 1 <=> (old \div b) % 2 = 1 \/ (func \div b) % 2 = 1
  IN [sel EXCEPT ![pin \div 10] = WithField(@, start, both)]

gpio_pin_set_func(sel, pin, func) == [sel EXCEPT ![pin \div 10] = WithField(@, (pin * 3) % 30, func)]

\* The writes of gpio_pin_enable, in their order: <<register, value>>, the
\* value of the clock register being the pins of its word that are clocked.
gpio_pin_enable(pin) == << <<"pupd_enable", 0>>, <<pin \div 32, {pin % 32}>>, <<"pupd_enable", 0>>, <<pin \div 32, {}>> >>

Aux(ier) == [enables |-> 1, mu_control |-> 3, mu_ier |-> ier, mu_lcr |-> 3, mu_mcr |-> 0, mu_baud_rate |-> 270]

uart_init(sel) ==
  [sel |-> gpio_pin_set_func(gpio_pin_set_func(sel, TXD, GFAlt5), RXD, GFAlt5),
   pupd |-> gpio_pin_enable(TXD) \o gpio_pin_enable(RXD), aux |-> Aux(0)]

uart_init_alt(sel) ==
  [sel |-> [sel EXCEPT ![1] = WithField(WithField(@, 12, GFAlt5), 15, GFAlt5)],
   pupd |-> gpio_pin_enable(TXD) \o gpio_pin_enable(RXD), aux |-> Aux(13)]
=============================================================================
