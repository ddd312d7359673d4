---------------------------- MODULE MCStorefront ----------------------------
(***************************************************************************)
(* An instance of Storefront for TLC: one Agent with a paid Order, a       *)
(* second that waits for its payment and a third Cart, a human at the      *)
(* payment page, and a visitor who buys or reads.                          *)
(***************************************************************************)
EXTENDS Ledger, TLC

CONSTANTS buyer, stranger, tee, cap, visitor, human, i1, i2, i3, i4, k1, k2, k3, k4, o1, o2, o3, o4

Price == 2

CartOf(intent, variant) ==
    [agentId |-> buyer, intent |-> intent, totalPaise |-> Price, signed |-> TRUE,
     items |-> <<[variantId |-> variant, quantity |-> 1, unitPricePaise |-> Price]>>]

WaitingOrder ==
    [agentId |-> buyer, items |-> CartOf(i2, tee).items, amountPaise |-> Price,
     status |-> "awaiting_payment", link |-> TRUE, gatewayOrderId |-> NoField,
     gatewayPaymentId |-> NoField, declined |-> {}, shortfall |-> {},
     cancellationReason |-> NoField, refundReason |-> NoField]

PaidOrder ==
    [WaitingOrder EXCEPT !.status = "paid", !.gatewayOrderId = <<"gateway order", o1>>,
                         !.gatewayPaymentId = <<o1, "captured">>]

Intent(order) == [agentId |-> buyer, budgetPaise |-> Price, consumedBy |-> order]

Payment(cart, order) == [cart |-> cart, order |-> order, hash |-> <<buyer, cart, order>>]

PaidReceipt ==
    [intentHash |-> i1, cartHash |-> k1, paymentHash |-> Payment(k1, o1).hash,
     amountPaise |-> Price, gatewayPaymentId |-> PaidOrder.gatewayPaymentId]

\* The two Orders take the whole Cap, and the first took the last tee.
Rows ==
    [agents |-> buyer :> [capPaise |-> 2 * Price, custody |-> "custodial"],
     intents |-> i1 :> Intent(o1) @@ i2 :> Intent(o2) @@ i3 :> Intent(NoField),
     carts |-> k1 :> CartOf(i1, tee) @@ k2 :> CartOf(i2, tee) @@ k3 :> CartOf(i3, cap),
     payments |-> <<buyer, o1>> :> Payment(k1, o1) @@ <<buyer, o2>> :> Payment(k2, o2),
     orders |-> o1 :> PaidOrder @@ o2 :> WaitingOrder,
     receipts |-> o1 :> PaidReceipt,
     refundReceipts |-> <<>>,
     variants |-> [v \in {tee, cap} |-> [stock |-> IF v = tee THEN 0 ELSE 1,
                                        pricePaise |-> Price, published |-> TRUE]]]

Declared(intent, cart, variant) ==
    <<Event("mandate.intent_declared", NoField,
            [agentId |-> buyer, intentHash |-> intent, budgetPaise |-> Price]),
      Event("mandate.cart_created", NoField,
            [agentId |-> buyer, cartHash |-> cart, intentHash |-> intent,
             items |-> CartOf(intent, variant).items, totalAmountPaise |-> Price])>>

Placed(intent, cart, order) ==
    <<Event("payment.verified", order,
            [agentId |-> buyer, intentHash |-> intent, cartHash |-> cart,
             paymentHash |-> Payment(cart, order).hash, amountPaise |-> Price,
             idempotencyKey |-> order]),
      Event("order.created", order, [agentId |-> buyer, cartHash |-> cart, amountPaise |-> Price]),
      Event("gateway.payment_link_attempted", order, [amountPaise |-> Price]),
      Event("gateway.payment_link_issued", order, [amountPaise |-> Price])>>

Log ==
    <<Event("agent.registered", NoField, [agentId |-> buyer, capPaise |-> 2 * Price])>>
    \o Declared(i1, k1, tee) \o Declared(i2, k2, tee) \o Declared(i3, k3, cap)
    \o Placed(i1, k1, o1)
    \o <<Event("gateway.webhook_received", o1, [kind |-> "payment_link.paid"]),
         Event("gateway.order_linked", o1, <<>>),
         Event("order.paid", o1, [gatewayPaymentId |-> PaidOrder.gatewayPaymentId,
                                  amountPaise |-> Price]),
         Event("receipt.issued", o1, PaidReceipt),
         Event("order.fulfilled", o1, <<>>)>>
    \o Placed(i2, k2, o2)
    \o <<Event("payment.refused", NoField,
              [code |-> "OVER_CAP", reason |-> "OVER_CAP", recoverable |-> FALSE,
               cartHash |-> k3, intentHash |-> i3])>>

\* What else a caller may do while the second Order stays unpaid.
Bystanders ==
    {[call |-> "get_product"],
     [call |-> "register_agent", agent |-> stranger, capPaise |-> Price, custody |-> "client"],
     [call |-> "declare_intent", token |-> stranger, intent |-> i4, budgetPaise |-> Price,
      signs |-> "valid"],
     [call |-> "declare_intent", token |-> buyer, intent |-> i4, budgetPaise |-> Price,
      signs |-> "none"],
     [call |-> "create_cart", token |-> buyer, intent |-> i3, cart |-> k4,
      items |-> <<[variantId |-> cap, quantity |-> 1]>>],
     [call |-> "create_cart", token |-> buyer, intent |-> i3, cart |-> k3,
      items |-> <<[variantId |-> cap, quantity |-> 1]>>],
     [call |-> "submit_payment", token |-> buyer, cart |-> k2, key |-> o2, order |-> o4,
      signs |-> "none", signsCart |-> "none"],
     [call |-> "edit_variant", variant |-> cap, set |-> [pricePaise |-> Price + 1]]}

PageReads ==
    {[call |-> "get_order_status", token |-> buyer, order |-> o2],
     [call |-> "audit_page", order |-> o2],
     [call |-> "refusal_page", seq |-> Len(Log)]}

\* The visitor buys the third Cart, which was refused before, or asks for the
\* summary, or lets a payment of the second Order fail; then somebody pays.  The
\* human settles the second Order, reads its pages, or stands by.
LedgerScript ==
    visitor :> << {[call |-> "submit_payment", token |-> buyer, cart |-> k3, key |-> o3, order |-> o3,
                    signs |-> "none", signsCart |-> "none"],
                   [call |-> "fail_payment", order |-> o2],
                   [call |-> "store_summary"]},
                  {[call |-> "complete_payment", order |-> o] : o \in {o2, o3}} >>
    @@ human :> << {[call |-> c, order |-> o2] : c \in {"complete_payment", "fail_payment"}}
                   \cup Bystanders \cup PageReads >>
=============================================================================
